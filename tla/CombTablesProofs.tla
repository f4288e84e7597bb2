-------------------------- MODULE CombTablesProofs --------------------------
(***************************************************************************)
(* For every DFA: the scanner finds in the packed tables exactly the       *)
(* transitions that were packed, and never reads outside them.             *)
(***************************************************************************)
EXTENDS CombTables, Sequences, TLAPS

(* The states whose rows are in the pool.                                  *)
Packed == Live \ (order \cup {cur})

(* An owned entry belongs to a packed state's transition.                  *)
EntriesOwned ==
    \A i \in 0 .. size - 1 : yy_chk[i] # None =>
        /\ yy_chk[i] \in Packed
        /\ i - yy_base[yy_chk[i]] \in Exceptions(yy_chk[i])

(* Every transition of a packed state has its entry.                       *)
RowsPlaced ==
    \A s \in Packed : \A ec \in Exceptions(s) :
        /\ yy_base[s] + ec < size
        /\ yy_chk[yy_base[s] + ec] = s
        /\ yy_nxt[yy_base[s] + ec] = next[s][ec]

(* States leave order one at a time, and only those with transitions are   *)
(* in it.                                                                  *)
OrderKept ==
    /\ cur \notin order
    /\ \A s \in Live : Exceptions(s) = {} \/ s \in Packed \cup order \cup {cur}
    /\ pc = "done" => cur = 0 /\ order = {}

IInv == TypeOK /\ EntriesOwned /\ RowsPlaced /\ OrderKept
        /\ SearchSucceeds /\ LookupsInside

-----------------------------------------------------------------------------
(* What the numbers are.                                                   *)
LEMMA Arithmetic ==
    ASSUME TypeOK
    PROVE  /\ NClasses \in Nat /\ NClasses >= 1 /\ size \in Nat /\ try \in Nat
           /\ Class \subseteq Nat
           /\ \A s \in State : yy_base[s] \in Nat
           /\ \A s \in State : Exceptions(s) \subseteq Class
           /\ \A s \in State : \A ec \in Exceptions(s) :
                  next[s][ec] \in Live
           /\ 0 \in State /\ Live \subseteq State /\ None \notin Live /\ 0 \notin Live
           /\ Exceptions(0) = {}
<1>1. NClasses \in Nat /\ NClasses >= 1 /\ NStates \in Nat /\ NStates >= 1
  BY CombAssumption
<1>2. next \in [State -> [Class -> State \cup {None}]] /\ \A ec \in Class : next[0][ec] = None
  BY CombAssumption DEF TypeOK
<1>3. \A s \in State : \A ec \in Exceptions(s) : next[s][ec] \in Live
  BY <1>1, <1>2 DEF Exceptions, State, Live, None
<1> QED
  BY <1>1, <1>2, <1>3 DEF TypeOK, Exceptions, State, Live, None, Class

LEMMA InitInv == Init => IInv
<1> SUFFICES ASSUME Init PROVE IInv
  OBVIOUS
<1>1. NClasses \in Nat /\ NClasses >= 1 /\ NStates \in Nat /\ NStates >= 1
  BY CombAssumption
<1>2. TypeOK
  BY <1>1 DEF Init, TypeOK, State, Live, Class
<1>3. EntriesOwned
  BY DEF Init, EntriesOwned, Class
<1>4. RowsPlaced
  BY DEF Init, RowsPlaced, Packed
<1>5. OrderKept
  BY <1>1 DEF Init, OrderKept, Live
<1>6. SearchSucceeds /\ LookupsInside
  BY DEF Init, SearchSucceeds, LookupsInside
<1> QED
  BY <1>2, <1>3, <1>4, <1>5, <1>6 DEF IInv

(* Picking a state packs none and unpacks none.                            *)
LEMMA PickInv == IInv /\ Pick => IInv'
<1> SUFFICES ASSUME IInv, Pick PROVE IInv'
  OBVIOUS
<1>1. PICK s \in order : cur' = s /\ order' = order \ {s}
  BY DEF Pick
<1>2. /\ cur = 0 /\ s \in Live /\ s \in State /\ try' = 0 /\ 0 \notin Live
      /\ next' = next /\ yy_base' = yy_base /\ yy_chk' = yy_chk
      /\ yy_nxt' = yy_nxt /\ size' = size /\ pc' = pc /\ pc = "pack"
      /\ order \subseteq Live
  BY Arithmetic DEF Pick, IInv, TypeOK
<1>3. Packed' = Packed /\ \A t : Exceptions(t)' = Exceptions(t)
  BY <1>1, <1>2 DEF Packed, Exceptions
<1>4. TypeOK'
  BY <1>1, <1>2 DEF IInv, TypeOK
<1>5. EntriesOwned' /\ RowsPlaced'
  BY <1>2, <1>3 DEF IInv, EntriesOwned, RowsPlaced
<1>6. OrderKept'
  BY <1>1, <1>2, <1>3 DEF IInv, OrderKept
<1>7. SearchSucceeds' /\ LookupsInside'
  BY <1>2, Arithmetic DEF IInv, SearchSucceeds, LookupsInside
<1> QED
  BY <1>4, <1>5, <1>6, <1>7 DEF IInv

(* Behind the pool every row fits, so the search stops there at the latest. *)
LEMMA AdvanceInv == IInv /\ Advance => IInv'
<1> SUFFICES ASSUME IInv, Advance PROVE IInv'
  OBVIOUS
<1>1. size \in Nat /\ try \in Nat /\ Class \subseteq Nat /\ Exceptions(cur) \subseteq Class
  BY Arithmetic DEF IInv, TypeOK
<1>2. Fits(size, cur)
  <2>1. \A ec \in Exceptions(cur) : ec \in Nat
    BY <1>1
  <2>2. \A ec \in Nat : ~(size + ec < size)
    BY <1>1
  <2> QED
    BY <2>1, <2>2 DEF Fits
<1>3. try <= size /\ try # size
  BY <1>2 DEF Advance, Misses
<1>4. try + 1 <= size /\ try + 1 \in Nat
  BY <1>1, <1>3
<1>5. /\ try' = try + 1 /\ next' = next /\ yy_base' = yy_base /\ yy_chk' = yy_chk
      /\ yy_nxt' = yy_nxt /\ size' = size /\ pc' = pc /\ order' = order
      /\ cur' = cur /\ cur # 0
  BY DEF Advance
<1>6. TypeOK'
  BY <1>4, <1>5 DEF IInv, TypeOK
<1>7. EntriesOwned' /\ RowsPlaced' /\ OrderKept' /\ LookupsInside'
  BY <1>5 DEF IInv, EntriesOwned, RowsPlaced, OrderKept, LookupsInside,
              Packed, Exceptions
<1>8. SearchSucceeds'
  BY <1>4, <1>5 DEF SearchSucceeds
<1> QED
  BY <1>6, <1>7, <1>8 DEF IInv

(* A row that fits is placed over no other row.                            *)
LEMMA PlaceInv == IInv /\ Place => IInv'
<1> SUFFICES ASSUME IInv, Place PROVE IInv'
  OBVIOUS
<1> DEFINE mine(i) == i - try \in Exceptions(cur)
<1>1. /\ size \in Nat /\ try \in Nat /\ Class \subseteq Nat /\ cur \in State
      /\ cur # 0 /\ try <= size /\ Fits(try, cur) /\ Exceptions(cur) \subseteq Class
      /\ \A ec \in Exceptions(cur) : next[cur][ec] \in Live
      /\ size >= NClasses /\ NClasses \in Nat /\ Live \subseteq State /\ cur \in Live
      /\ cur # None /\ 0 \notin Live
  <2>1. cur # 0 /\ ~Misses /\ cur \in State /\ try <= size
    BY DEF Place, IInv, TypeOK, SearchSucceeds
  <2>2. Fits(try, cur)
    BY <2>1 DEF Misses
  <2>3. cur \in Live
    BY <2>1, CombAssumption DEF State, Live
  <2>4. TypeOK /\ size >= NClasses
    BY DEF IInv, TypeOK
  <2> QED
    BY <2>1, <2>2, <2>3, <2>4, Arithmetic
<1>2. PICK n \in PlaceLengths(try, cur) :
          /\ LongestOf(PlaceLengths(try, cur), n)
          /\ size' = n
          /\ yy_chk' = [i \in 0 .. n - 1 |-> IF mine(i) THEN cur
                           ELSE IF i < size THEN yy_chk[i] ELSE None]
          /\ yy_nxt' = [i \in 0 .. n - 1 |-> IF mine(i) THEN next[cur][i - try]
                           ELSE IF i < size THEN yy_nxt[i] ELSE 0]
  BY <1>1 DEF Place
<1>3. /\ yy_base' = [yy_base EXCEPT ![cur] = try] /\ cur' = 0
      /\ next' = next /\ order' = order /\ try' = try /\ pc' = pc
  BY <1>1 DEF Place
<1>4. /\ n \in Nat /\ size <= n
      /\ \A ec \in Exceptions(cur) : try + ec < n
  <2>0. \A ec \in Exceptions(cur) : ec \in Nat /\ try + ec + 1 \in Nat
    <3>1. \A ec \in Exceptions(cur) : ec \in Nat
      BY <1>1
    <3>2. \A ec \in Nat : try + ec + 1 \in Nat
      BY <1>1
    <3> QED
      BY <3>1, <3>2
  <2>1. \A m \in PlaceLengths(try, cur) : m \in Nat /\ m <= n
    BY <1>1, <1>2, <2>0 DEF PlaceLengths, LongestOf
  <2>2. size \in PlaceLengths(try, cur)
    BY DEF PlaceLengths
  <2>3. \A ec \in Exceptions(cur) : try + ec + 1 \in PlaceLengths(try, cur)
    BY DEF PlaceLengths
  <2>4. \A ec \in Exceptions(cur) : try + ec + 1 <= n /\ ec \in Nat
    BY <1>1, <2>1, <2>3
  <2>5. n \in Nat
    BY <1>2, <2>1
  <2> QED
    BY <1>1, <2>1, <2>2, <2>4, <2>5
<1>5. \A s : Exceptions(s)' = Exceptions(s)
  BY <1>3 DEF Exceptions
<1>6. Packed' = Packed \cup {cur} /\ cur \notin Packed
  BY <1>1, <1>3 DEF Packed, IInv, OrderKept
<1>7. /\ yy_base \in [State -> Nat] /\ yy_base'[cur] = try
      /\ \A s \in State : s # cur => yy_base'[s] = yy_base[s]
      /\ yy_base' \in [State -> Nat]
  BY <1>1, <1>3 DEF IInv, TypeOK
<1>8. TypeOK'
  <2>1. yy_chk' \in [0 .. n - 1 -> Live \cup {None}]
    BY <1>1, <1>2, <1>4 DEF IInv, TypeOK
  <2>2. yy_nxt' \in [0 .. n - 1 -> State]
    <3>1. \A i \in 0 .. n - 1 : i < size => yy_nxt[i] \in State
      BY <1>4 DEF IInv, TypeOK
    <3>2. \A i \in 0 .. n - 1 : mine(i) => next[cur][i - try] \in State
      BY <1>1
    <3>3. 0 \in State
      BY Arithmetic DEF IInv
    <3> QED
      BY <1>2, <3>1, <3>2, <3>3
  <2>3. n \in Nat /\ n >= NClasses
    BY <1>1, <1>4
  <2>4. 0 \in State
    BY Arithmetic DEF IInv
  <2> QED
    BY <1>2, <1>3, <1>7, <2>1, <2>2, <2>3, <2>4 DEF IInv, TypeOK
<1>9. EntriesOwned'
  <2> SUFFICES ASSUME NEW i \in 0 .. n - 1, yy_chk'[i] # None
               PROVE  /\ yy_chk'[i] \in Packed \cup {cur}
                      /\ i - yy_base'[yy_chk'[i]] \in Exceptions(yy_chk'[i])
    BY <1>2, <1>5, <1>6 DEF EntriesOwned
  <2>1. CASE mine(i)
    <3>1. yy_chk'[i] = cur
      BY <1>2, <2>1
    <3> QED
      BY <1>7, <2>1, <3>1
  <2>2. CASE ~mine(i)
    <3>1. i < size /\ yy_chk'[i] = yy_chk[i] /\ i \in 0 .. size - 1
      BY <1>1, <1>2, <1>4, <2>2
    <3>2. yy_chk[i] \in Packed /\ i - yy_base[yy_chk[i]] \in Exceptions(yy_chk[i])
      BY <3>1 DEF IInv, EntriesOwned
    <3>3. yy_chk[i] # cur /\ yy_chk[i] \in State
      BY <1>1, <1>6, <3>2 DEF Packed
    <3> QED
      BY <1>7, <3>1, <3>2, <3>3
  <2> QED
    BY <2>1, <2>2
<1>10. RowsPlaced'
  <2>0. \A s \in State : \A ec \in Exceptions(s) : ec \in Nat
    BY <1>1, Arithmetic DEF IInv
  <2> SUFFICES \A s \in Packed \cup {cur} : \A ec \in Exceptions(s) :
                   /\ yy_base'[s] + ec < n
                   /\ yy_chk'[yy_base'[s] + ec] = s
                   /\ yy_nxt'[yy_base'[s] + ec] = next[s][ec]
    <3>1. RowsPlaced' <=>
              \A s \in Packed' : \A ec \in Exceptions(s)' :
                   /\ yy_base'[s] + ec < size'
                   /\ yy_chk'[yy_base'[s] + ec] = s
                   /\ yy_nxt'[yy_base'[s] + ec] = next'[s][ec]
      BY DEF RowsPlaced
    <3>2. size' = n /\ next' = next
      BY <1>2, <1>3
    <3> HIDE DEF mine
    <3> QED
      BY <1>5, <1>6, <3>1, <3>2
  <2> SUFFICES ASSUME NEW s \in Packed \cup {cur}, NEW ec \in Exceptions(s)
               PROVE  /\ yy_base'[s] + ec < n
                      /\ yy_chk'[yy_base'[s] + ec] = s
                      /\ yy_nxt'[yy_base'[s] + ec] = next[s][ec]
    OBVIOUS
  <2>1. CASE s = cur
    <3>0. ec \in Nat /\ try + ec < n
      BY <1>1, <1>4, <2>0, <2>1
    <3>1. try + ec \in 0 .. n - 1 /\ (try + ec) - try = ec
      BY <1>1, <1>4, <3>0
    <3>3. mine(try + ec)
      BY <2>1, <3>1
    <3>2. yy_base'[s] = try
      BY <1>7, <2>1
    <3>4. yy_base'[s] + ec = try + ec
      BY <3>2
    <3> DEFINE i == try + ec
    <3>5. i \in 0 .. n - 1 /\ i - try = ec /\ mine(i)
      BY <3>1, <3>3
    <3> HIDE DEF i
    <3>6. yy_chk'[i] = cur /\ yy_nxt'[i] = next[cur][ec]
      BY <1>2, <3>5
    <3> QED
      BY <2>1, <3>0, <3>4, <3>6 DEF i
  <2>2. CASE s # cur
    <3>1. s \in Packed /\ s \in State /\ yy_base[s] \in Nat /\ ec \in Nat
      BY <1>1, <1>7, <2>2, Arithmetic DEF Packed, IInv
    <3> DEFINE i == yy_base[s] + ec
    <3>2. i \in 0 .. size - 1 /\ yy_chk[i] = s /\ yy_nxt[i] = next[s][ec]
      BY <1>1, <3>1 DEF IInv, RowsPlaced
    <3>3. s # None
      BY <3>1, Arithmetic DEF IInv, Packed
    <3>4. ~mine(i)
      <4>1. ASSUME mine(i) PROVE FALSE
        <5>1. try + (i - try) = i /\ i < size
          BY <1>1, <3>2
        <5>2. yy_chk[i] = None
          BY <1>1, <4>1, <5>1 DEF Fits
        <5> QED
          BY <3>2, <3>3, <5>2
      <4> QED
        BY <4>1
    <3>5. i \in 0 .. n - 1 /\ i < size /\ i < n
      BY <1>1, <1>4, <3>2
    <3>6. yy_base'[s] + ec = i
      BY <1>7, <2>2, <3>1
    <3> HIDE DEF i
    <3> QED
      BY <1>2, <3>2, <3>4, <3>5, <3>6
  <2> QED
    BY <2>1, <2>2
<1>11. OrderKept'
  <2>1. pc # "done"
    BY <1>1 DEF IInv, OrderKept
  <2>2. 0 \notin order
    BY <1>1 DEF IInv, TypeOK
  <2> QED
    BY <1>3, <1>5, <1>6, <2>1, <2>2 DEF IInv, OrderKept
<1>12. SearchSucceeds' /\ LookupsInside'
  <2>1. pc # "done"
    BY <1>1 DEF IInv, OrderKept
  <2> QED
    BY <1>3, <2>1 DEF SearchSucceeds, LookupsInside
<1> QED
  BY <1>8, <1>9, <1>10, <1>11, <1>12 DEF IInv

(* The padding holds a whole row behind the highest offset.                *)
LEMMA PadInv == IInv /\ Pad => IInv'
<1> SUFFICES ASSUME IInv, Pad PROVE IInv'
  OBVIOUS
<1>1. PICK n \in PadLengths :
          /\ LongestOf(PadLengths, n)
          /\ size' = n
          /\ yy_chk' = [i \in 0 .. n - 1 |-> IF i < size THEN yy_chk[i] ELSE None]
          /\ yy_nxt' = [i \in 0 .. n - 1 |-> IF i < size THEN yy_nxt[i] ELSE 0]
  BY DEF Pad
<1>2. /\ pc' = "done" /\ cur = 0 /\ order = {} /\ next' = next
      /\ yy_base' = yy_base /\ order' = order /\ cur' = cur /\ try' = try
  BY DEF Pad
<1>3. /\ size \in Nat /\ NClasses \in Nat /\ Class = 0 .. NClasses - 1
      /\ \A s \in State : yy_base[s] \in Nat
      /\ size >= NClasses /\ 0 \in State /\ Class \subseteq Nat
  BY Arithmetic DEF IInv, TypeOK, Class
<1>4. n \in Nat /\ size <= n /\ \A s \in State : yy_base[s] + NClasses <= n
  BY <1>1, <1>3 DEF PadLengths, LongestOf
<1>5. Packed' = Packed /\ \A s : Exceptions(s)' = Exceptions(s)
  BY <1>2 DEF Packed, Exceptions
<1>6. /\ \A i \in 0 .. size - 1 : yy_chk'[i] = yy_chk[i] /\ yy_nxt'[i] = yy_nxt[i]
      /\ \A i \in 0 .. n - 1 : yy_chk'[i] # None => i \in 0 .. size - 1
  BY <1>1, <1>3, <1>4
<1>7. TypeOK'
  <2>1. yy_chk' \in [0 .. n - 1 -> Live \cup {None}]
    BY <1>1, <1>3, <1>4 DEF IInv, TypeOK
  <2>2. yy_nxt' \in [0 .. n - 1 -> State]
    BY <1>1, <1>3, <1>4 DEF IInv, TypeOK
  <2>3. n \in Nat /\ n >= NClasses
    BY <1>3, <1>4
  <2> QED
    BY <1>1, <1>2, <2>1, <2>2, <2>3 DEF IInv, TypeOK
<1>8. EntriesOwned'
  <2> SUFFICES ASSUME NEW i \in 0 .. n - 1, yy_chk'[i] # None
               PROVE  /\ yy_chk'[i] \in Packed
                      /\ i - yy_base[yy_chk'[i]] \in Exceptions(yy_chk'[i])
    BY <1>1, <1>2, <1>5 DEF EntriesOwned
  <2>1. i \in 0 .. size - 1 /\ yy_chk'[i] = yy_chk[i]
    BY <1>6
  <2> QED
    BY <2>1 DEF IInv, EntriesOwned
<1>9. RowsPlaced'
  <2> SUFFICES ASSUME NEW s \in Packed, NEW ec \in Exceptions(s)
               PROVE  /\ yy_base[s] + ec < n
                      /\ yy_chk'[yy_base[s] + ec] = s
                      /\ yy_nxt'[yy_base[s] + ec] = next[s][ec]
    BY <1>1, <1>2, <1>5 DEF RowsPlaced
  <2>1. s \in State /\ yy_base[s] \in Nat /\ ec \in Nat
    BY Arithmetic DEF IInv, Packed
  <2>2. /\ yy_base[s] + ec < size /\ yy_chk[yy_base[s] + ec] = s
        /\ yy_nxt[yy_base[s] + ec] = next[s][ec]
    BY DEF IInv, RowsPlaced
  <2>3. yy_base[s] + ec \in 0 .. size - 1
    BY <1>3, <2>1, <2>2
  <2> QED
    BY <1>3, <1>4, <1>6, <2>1, <2>2, <2>3
<1>10. OrderKept' /\ SearchSucceeds'
  BY <1>2, <1>5 DEF IInv, OrderKept, SearchSucceeds
<1>11. LookupsInside'
  <2>1. \A s \in State, ec \in Class : yy_base[s] + ec < n
    BY <1>3, <1>4
  <2> QED
    BY <1>1, <1>2, <2>1 DEF LookupsInside
<1> QED
  BY <1>7, <1>8, <1>9, <1>10, <1>11 DEF IInv

-----------------------------------------------------------------------------
LEMMA NextInv == IInv /\ [Next]_vars => IInv'
<1> SUFFICES ASSUME IInv, [Next]_vars PROVE IInv'
  OBVIOUS
<1>1. CASE Next
  BY <1>1, PickInv, AdvanceInv, PlaceInv, PadInv DEF Next
<1>2. CASE UNCHANGED vars
  BY <1>2 DEF vars, IInv, TypeOK, EntriesOwned, RowsPlaced, OrderKept, Packed,
              Exceptions, SearchSucceeds, LookupsInside
<1> QED
  BY <1>1, <1>2

(* Every reachable state satisfies the inductive invariant.                *)
THEOREM Invariance == Spec => []IInv
BY InitInv, NextInv, PTL DEF Spec

(* The packed tables keep their types.                                     *)
THEOREM TypeCorrect == Spec => []TypeOK
<1>1. IInv => TypeOK
  BY DEF IInv
<1> QED
  BY <1>1, Invariance, PTL

(* No class looked up in any state leads outside the pool.                 *)
THEOREM NoReadOutside == Spec => []LookupsInside
<1>1. IInv => LookupsInside
  BY DEF IInv
<1> QED
  BY <1>1, Invariance, PTL

(* The search finds an offset, at the latest behind the pool.              *)
THEOREM OffsetFound == Spec => []SearchSucceeds
<1>1. IInv => SearchSucceeds
  BY DEF IInv
<1> QED
  BY <1>1, Invariance, PTL

(* For every DFA and every order of equally long rows, the compressed      *)
(* tables give the transitions of the uncompressed ones.                   *)
THEOREM CompressionFaithful == Spec => []LookupsAgree
<1>1. IInv => LookupsAgree
  <2> SUFFICES ASSUME IInv, pc = "done", NEW s \in State, NEW ec \in Class
               PROVE  Lookup(s, ec) = IF next[s][ec] > 0 THEN next[s][ec] ELSE None
    BY DEF LookupsAgree
  <2> DEFINE i == yy_base[s] + ec
  <2>1. i \in 0 .. size - 1 /\ i - yy_base[s] = ec
    BY Arithmetic DEF IInv, LookupsInside
  <2>2. s \in Live => Exceptions(s) = {} \/ s \in Packed
    BY Arithmetic DEF IInv, OrderKept
  <2>3. CASE ec \in Exceptions(s)
    <3>1. s \in Packed /\ next[s][ec] > 0
      <4>1. s # 0
        BY <2>3, Arithmetic DEF IInv
      <4>2. s \in Live
        BY <4>1, CombAssumption DEF State, Live
      <4> QED
        BY <2>2, <2>3, <4>2 DEF Exceptions
    <3>2. yy_chk[i] = s /\ yy_nxt[i] = next[s][ec]
      BY <2>3, <3>1 DEF IInv, RowsPlaced
    <3> QED
      BY <3>1, <3>2 DEF Lookup
  <2>4. CASE ec \notin Exceptions(s)
    <3>1. ~(next[s][ec] > 0)
      BY <2>4 DEF Exceptions
    <3>2. s # None
      BY CombAssumption DEF State, None
    <3>3. yy_chk[i] # s
      BY <2>1, <2>4, <3>2 DEF IInv, EntriesOwned
    <3> QED
      BY <3>1, <3>3 DEF Lookup
  <2> QED
    BY <2>3, <2>4
<1> QED
  BY <1>1, Invariance, PTL

(* The packed tables as compress_dfa() hands them to serialise_tables():   *)
(* sequences from 1 on.  An offset leaves room for a row behind it, and    *)
(* every entry names a state or is None; it is what WellFormed of          *)
(* TablesFile requires of base, chk and nxt.                               *)
BaseSeq == [s \in 1 .. NStates |-> yy_base[s - 1]]
ChkSeq == [i \in 1 .. size |-> yy_chk[i - 1]]
NxtSeq == [i \in 1 .. size |-> yy_nxt[i - 1]]
PoolWellFormed ==
    pc = "done" =>
        /\ BaseSeq \in Seq(0 .. size - NClasses) /\ Len(BaseSeq) = NStates
        /\ ChkSeq \in Seq(-1 .. NStates - 1) /\ Len(ChkSeq) = size
        /\ NxtSeq \in Seq(-1 .. NStates - 1) /\ Len(NxtSeq) = size

(* The comb of every DFA has the shape on which the tables file and its    *)
(* loader rely.                                                            *)
THEOREM PackedWellFormed == Spec => []PoolWellFormed
<1>1. IInv => PoolWellFormed
  <2> SUFFICES ASSUME IInv, pc = "done"
               PROVE  /\ BaseSeq \in Seq(0 .. size - NClasses) /\ Len(BaseSeq) = NStates
                      /\ ChkSeq \in Seq(-1 .. NStates - 1) /\ Len(ChkSeq) = size
                      /\ NxtSeq \in Seq(-1 .. NStates - 1) /\ Len(NxtSeq) = size
    BY DEF PoolWellFormed
  <2>1. NStates \in Nat /\ NClasses \in Nat /\ NClasses >= 1 /\ size \in Nat
    BY CombAssumption DEF IInv, TypeOK
  <2>2. BaseSeq \in Seq(0 .. size - NClasses) /\ Len(BaseSeq) = NStates
    <3>1. \A s \in State : yy_base[s] \in 0 .. size - NClasses
      <4>1. NClasses - 1 \in Class
        BY <2>1 DEF Class
      <4>2. \A s \in State : yy_base[s] \in Nat /\ yy_base[s] + (NClasses - 1) < size
        BY <4>1 DEF IInv, TypeOK, LookupsInside
      <4> QED
        BY <2>1, <4>2
    <3>2. \A s \in 1 .. NStates : BaseSeq[s] \in 0 .. size - NClasses
      BY <2>1, <3>1 DEF BaseSeq, State
    <3> QED
      BY <2>1, <3>2 DEF BaseSeq
  <2>3. ChkSeq \in Seq(-1 .. NStates - 1) /\ Len(ChkSeq) = size
    <3>1. \A i \in 1 .. size : yy_chk[i - 1] \in -1 .. NStates - 1
      BY <2>1 DEF IInv, TypeOK, Live, None
    <3> QED
      BY <2>1, <3>1 DEF ChkSeq
  <2>4. NxtSeq \in Seq(-1 .. NStates - 1) /\ Len(NxtSeq) = size
    <3>1. \A i \in 1 .. size : yy_nxt[i - 1] \in -1 .. NStates - 1
      BY <2>1 DEF IInv, TypeOK, State
    <3> QED
      BY <2>1, <3>1 DEF NxtSeq
  <2> QED
    BY <2>2, <2>3, <2>4
<1> QED
  BY <1>1, Invariance, PTL
=============================================================================
