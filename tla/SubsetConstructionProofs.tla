---------------------- MODULE SubsetConstructionProofs ----------------------
(***************************************************************************)
(* For every NFA and every class table that fits it: eps_closure() returns *)
(* the closure, no set is numbered twice, the finished table is right for  *)
(* every byte, meta classes are those of equal columns, and a walk over    *)
(* the table follows the NFA.                                              *)
(***************************************************************************)
EXTENDS SubsetConstruction, WellFoundedInduction, TLAPS

(* Where build_dfa() is: there is a row to work on, or a start state, and  *)
(* the later phases begin when all is queued off.                          *)
Building == pc \in {"loop", "close"}
Control ==
    /\ pc = "loop" /\ cl < nfa.nclasses => cur # 0
    /\ pc = "close" => IF cur = 0 THEN ~AllSeeded ELSE cl < nfa.nclasses
    /\ cur # 0 => AllSeeded
    /\ cur = 0 /\ Building => cl = nfa.nclasses
    /\ ~Building => AllSeeded /\ work = <<>>
    /\ Building => nmeta = 0
    /\ pc # "walk" => at = None

Shape == TypeOK /\ Control

(* The states that eps_closure() has taken from the stack have added their *)
(* targets, and it adds nothing that is not in the closure.                *)
Closing ==
    pc = "close" =>
        /\ From \subseteq set /\ set \subseteq Run!Closure(nfa.edges, From)
        /\ \A e \in nfa.edges : e[1] \in set \ stack /\ e[2] = {} => e[3] \in set

(* What the numbers stand for: a start state's closure, and for a state i  *)
(* and a class c, where the class leads from i.                            *)
Start(k) == Run!Closure(nfa.edges, {nfa.starts[k]})
Led(i, c) == Targets(nfa.edges, sets[i], Rep(c))

StartsExact == \A k \in DOMAIN cond_starts : sets[cond_starts[k]] = Start(k)
SetsLive == \A i \in DOMAIN sets : sets[i] # {}
RowsSound ==
    \A i \in DOMAIN sets : \A c \in Class :
        next[i][c] # None => sets[next[i][c]] = Run!Closure(nfa.edges, Led(i, c))

(* The classes of a state whose entries are final: all of them, unless the *)
(* state is queued or the loop is at it.                                   *)
Final(i, c) == /\ \A q \in DOMAIN work : work[q] # i
               /\ Building /\ i = cur => c < cl
RowsComplete ==
    \A i \in DOMAIN sets : \A c \in Class :
        Final(i, c) /\ next[i][c] = None => Led(i, c) = {}

(* What the invariant says of finished work depends on the tables alone.   *)
TableInv == SetsDistinct /\ SetsLive /\ StartsExact /\ RowsSound /\ StatesReached

IInv == Shape /\ Closing /\ TableInv /\ RowsComplete /\ MetaExact

-----------------------------------------------------------------------------
(* What the NFAs of the program are.                                       *)
LEMMA NfaFacts ==
    ASSUME NEW a \in Nfas
    PROVE  /\ \A e \in a.edges : e[1] \in NfaState /\ e[2] \in SUBSET Byte /\ e[3] \in NfaState
           /\ a.starts \in Seq(NfaState)
           /\ a.nclasses \in 1 .. N
           /\ a.ec \in [Byte -> 0 .. a.nclasses - 1]
           /\ \A c \in 0 .. a.nclasses - 1 : \E b \in Byte : a.ec[b] = c
           /\ \A b1 \in Byte : \A b2 \in Byte : a.ec[b1] = a.ec[b2] =>
                  \A e \in a.edges : b1 \in e[2] <=> b2 \in e[2]
<1>1. a.edges \subseteq NfaState \X (SUBSET Byte) \X NfaState
  BY NfaAssumption
<1>2. \A e \in a.edges : e[1] \in NfaState /\ e[2] \in SUBSET Byte /\ e[3] \in NfaState
  BY <1>1
<1> QED BY <1>2, NfaAssumption

(* A set of bytes that is not empty has a first byte.                      *)
LEMMA FirstByte ==
    ASSUME NEW B \in SUBSET Byte, B # {}
    PROVE  \E b \in B : \A d \in B : b <= d
<1> DEFINE Lt == OpToRel(<, Nat)
<1>1. IsWellFoundedOn(Lt, Nat)
  BY NatLessThanWellFounded, Zenon
<1>2. B \subseteq Nat
  BY DEF Byte
<1>3. \A x \in Nat : \A y \in Nat : <<x, y>> \in Lt <=> x < y
  BY Zenon DEF OpToRel
<1> HIDE DEF Lt
<1>4. PICK b \in B : \A d \in B : ~ (<<d, b>> \in Lt)
  BY <1>1, <1>2, WFMin
<1>5. \A d \in B : b <= d
  <2>1. ASSUME NEW d \in B PROVE b <= d
    <3>1. ~ (d < b) /\ b \in Nat /\ d \in Nat
      BY <1>2, <1>3, <1>4
    <3> QED BY <3>1
  <2> QED BY <2>1
<1> QED BY <1>5

(* The representative of a class is in the class.                          *)
LEMMA RepInClass ==
    ASSUME nfa \in Nfas, NEW c \in Class
    PROVE  Rep(c) \in Byte /\ nfa.ec[Rep(c)] = c
<1> DEFINE B == {b \in Byte : nfa.ec[b] = c}
<1>1. PICK b \in Byte : nfa.ec[b] = c
  BY NfaFacts DEF Class
<1>2. B \in SUBSET Byte /\ B # {}
  BY <1>1
<1>3. PICK f \in B : \A d \in B : f <= d
  BY <1>2, FirstByte
<1>4. f \in Byte /\ nfa.ec[f] = c /\ \A d \in Byte : nfa.ec[d] = c => f <= d
  BY <1>3
<1> QED BY <1>4 DEF Rep

(* The closure of S is closed, holds S, and is in every such set.          *)
LEMMA ClosureFacts ==
    ASSUME NEW a \in Nfas, NEW S \in SUBSET NfaState
    PROVE  /\ Run!Closure(a.edges, S) \in SUBSET NfaState
           /\ S \subseteq Run!Closure(a.edges, S)
           /\ Run!Closed(a.edges, Run!Closure(a.edges, S))
           /\ \A T \in SUBSET NfaState : S \subseteq T /\ Run!Closed(a.edges, T) =>
                  Run!Closure(a.edges, S) \subseteq T
<1> DEFINE C == Run!Closure(a.edges, S)
<1>1. C \in SUBSET NfaState /\ S \subseteq C
  BY DEF Run!Closure
<1>2. \A T \in SUBSET NfaState : S \subseteq T /\ Run!Closed(a.edges, T) => C \subseteq T
  BY DEF Run!Closure
<1>3. ASSUME NEW e \in a.edges, e[1] \in C, e[2] = {}
      PROVE  e[3] \in C
  <2>1. e[3] \in NfaState
    BY NfaFacts
  <2>2. ASSUME NEW T \in SUBSET NfaState, S \subseteq T, Run!Closed(a.edges, T)
        PROVE  e[3] \in T
    BY <1>2, <1>3, <2>2 DEF Run!Closed
  <2> QED BY <2>1, <2>2 DEF Run!Closure
<1> QED BY <1>1, <1>2, <1>3 DEF Run!Closed

(* No state leads nowhere without a state.                                 *)
LEMMA ClosureOfNone ==
    ASSUME NEW a \in Nfas
    PROVE  Run!Closure(a.edges, {}) = {}
<1>1. {} \in SUBSET NfaState /\ Run!Closed(a.edges, {})
  BY DEF Run!Closed
<1> QED BY <1>1, ClosureFacts

(* step() collects the states that the NFA can move to.                    *)
LEMMA TargetsMoved ==
    ASSUME NEW a \in Nfas, NEW S, NEW b
    PROVE  /\ Targets(a.edges, S, b) = Run!Moved(a.edges, S, b)
           /\ Targets(a.edges, S, b) \in SUBSET NfaState
<1>1. \A e \in a.edges : e[3] \in NfaState
  BY NfaFacts
<1> QED BY <1>1 DEF Targets, Run!Moved

(* The bytes of a class lead from a set to the same states.                *)
LEMMA TargetsOfClass ==
    ASSUME NEW b \in Byte, nfa \in Nfas, NEW S
    PROVE  Targets(nfa.edges, S, b) = Targets(nfa.edges, S, Rep(nfa.ec[b]))
<1> DEFINE r == Rep(nfa.ec[b])
<1>1. nfa.ec[b] \in Class
  BY NfaFacts DEF Class
<1>2. r \in Byte /\ nfa.ec[r] = nfa.ec[b]
  BY <1>1, RepInClass
<1> HIDE DEF r
<1>3. \A e \in nfa.edges : b \in e[2] <=> r \in e[2]
  BY <1>2, NfaFacts
<1>4. Targets(nfa.edges, S, b) = Targets(nfa.edges, S, r)
  BY <1>3 DEF Targets
<1> QED BY <1>4 DEF r

-----------------------------------------------------------------------------
(* get_state(): the set has a number, and the tables only grow.            *)
LEMMA Numbering ==
    ASSUME TypeOK
    PROVE  /\ Numbered \in Seq(SUBSET NfaState) /\ Len(Rows) = Len(Numbered)
           /\ Rows \in Seq([Class -> DOMAIN Numbered \cup {None}])
           /\ Id \in DOMAIN Numbered /\ Numbered[Id] = set
           /\ DOMAIN sets \subseteq DOMAIN Numbered
           /\ \A i \in DOMAIN sets : Numbered[i] = sets[i] /\ Rows[i] = next[i]
           /\ \A i \in DOMAIN Numbered \ DOMAIN sets :
                  /\ ~Known /\ i = Id /\ i = Len(sets) + 1
                  /\ \A c \in Class : Rows[i][c] = None
<1> DEFINE S == SUBSET NfaState  R == [Class -> DOMAIN sets \cup {None}]
<1>1. /\ sets \in Seq(S) /\ set \in S /\ next \in Seq(R) /\ Len(next) = Len(sets)
  BY DEF TypeOK
<1>2. CASE Known
  <2>1. Numbered = sets /\ Rows = next
    BY <1>2 DEF Numbered, Rows
  <2>2. Id \in DOMAIN sets /\ sets[Id] = set
    BY <1>2 DEF Id, Known
  <2> QED BY <1>1, <2>1, <2>2
<1>3. CASE ~Known
  <2> DEFINE new == [c \in Class |-> None]
             Q == [Class -> DOMAIN Numbered \cup {None}]
  <2>1. Numbered = Append(sets, set) /\ Rows = Append(next, new) /\ Id = Len(sets) + 1
    BY <1>3 DEF Numbered, Rows, Id
  <2>2. /\ Numbered \in Seq(S) /\ Len(Numbered) = Len(sets) + 1
        /\ DOMAIN Numbered = 1 .. Len(sets) + 1 /\ DOMAIN sets = 1 .. Len(sets)
        /\ Numbered[Len(sets) + 1] = set
        /\ \A i \in 1 .. Len(sets) : Numbered[i] = sets[i]
        /\ Len(sets) \in Nat
    BY <1>1, <2>1
  <2>3. new \in Q /\ \A r \in R : r \in Q
    <3>1. DOMAIN sets \subseteq DOMAIN Numbered
      BY <2>2
    <3> QED BY <3>1
  <2> HIDE DEF R, Q, S
  <2>4. next \in Seq(Q)
    BY <1>1, <2>3
  <2>5. /\ Rows \in Seq(Q) /\ Len(Rows) = Len(sets) + 1
        /\ Rows[Len(sets) + 1] = new
        /\ \A i \in 1 .. Len(sets) : Rows[i] = next[i]
    BY <1>1, <2>1, <2>3, <2>4
  <2>6. \A i \in DOMAIN Numbered \ DOMAIN sets : i = Len(sets) + 1
    BY <2>2
  <2>7. \A c \in Class : Rows[Len(sets) + 1][c] = None
    BY <2>5
  <2> HIDE DEF new
  <2> QED BY <1>3, <2>1, <2>2, <2>5, <2>6, <2>7 DEF Q, S
<1> QED BY <1>2, <1>3

-----------------------------------------------------------------------------
(* Types and control.                                                      *)

(* Where the tables stay, the parts about them do.                         *)
Tables ==
    /\ nfa \in Nfas
    /\ sets \in Seq(SUBSET NfaState)
    /\ next \in Seq([Class -> DOMAIN sets \cup {None}]) /\ Len(next) = Len(sets)
    /\ cond_starts \in Seq(DOMAIN sets) /\ Len(cond_starts) <= Len(nfa.starts)

LEMMA TablesStay ==
    ASSUME Tables, UNCHANGED <<nfa, sets, next, cond_starts>>
    PROVE  Tables'
BY DEF Tables, Class

LEMMA TablesGrow ==
    ASSUME TypeOK, UNCHANGED nfa, sets' = Numbered,
           NEW c0 \in Seq(DOMAIN Numbered), cond_starts' = c0, Len(c0) <= Len(nfa.starts),
           NEW r \in Seq([Class -> DOMAIN Numbered \cup {None}]), next' = r,
           Len(r) = Len(Numbered)
    PROVE  Tables'
BY Numbering DEF Tables, TypeOK, Class

(* A sequence of state numbers is one of the numbers of the grown table.   *)
LEMMA NumbersGrow ==
    ASSUME TypeOK, NEW q \in Seq(DOMAIN sets)
    PROVE  q \in Seq(DOMAIN Numbered) /\ Append(q, Id) \in Seq(DOMAIN Numbered)
<1>1. DOMAIN sets \subseteq DOMAIN Numbered /\ Id \in DOMAIN Numbered
  BY Numbering
<1> DEFINE D == DOMAIN sets  F == DOMAIN Numbered
<1>2. q \in Seq(D) /\ (\A d \in D : d \in F) /\ Id \in F
  BY <1>1
<1> HIDE DEF D, F
<1>3. q \in Seq(F)
  BY <1>2
<1>4. Append(q, Id) \in Seq(F)
  BY <1>2, <1>3
<1> QED BY <1>3, <1>4 DEF F

(* What get_state() does to the tables, with a transition set or without.  *)
LEMMA RowSet ==
    ASSUME TypeOK, cur \in DOMAIN sets, cl \in Class
    PROVE  LET r == [Rows EXCEPT ![cur][cl] = Id]
           IN  /\ r \in Seq([Class -> DOMAIN Numbered \cup {None}]) /\ Len(r) = Len(Numbered)
               /\ r[cur][cl] = Id
               /\ \A i \in DOMAIN Numbered : \A c \in Class :
                      <<i, c>> # <<cur, cl>> => r[i][c] = Rows[i][c]
<1> DEFINE T == DOMAIN Numbered \cup {None}  R == [Class -> T]
           r == [Rows EXCEPT ![cur][cl] = Id]
<1>1. /\ Rows \in Seq(R) /\ Len(Rows) = Len(Numbered) /\ Id \in T
      /\ Numbered \in Seq(SUBSET NfaState) /\ DOMAIN sets \subseteq DOMAIN Numbered
  BY Numbering
<1>2. DOMAIN Numbered = 1 .. Len(Numbered) /\ DOMAIN Rows = 1 .. Len(Numbered)
  BY <1>1
<1>3. cur \in DOMAIN Rows
  BY <1>1, <1>2
<1>4. Rows[cur] \in R
  BY <1>1, <1>2, <1>3
<1> DEFINE row == [Rows[cur] EXCEPT ![cl] = Id]
<1>5. row \in R /\ row[cl] = Id /\ \A c \in Class : c # cl => row[c] = Rows[cur][c]
  BY <1>1, <1>4
<1>6. r = [Rows EXCEPT ![cur] = row]
  OBVIOUS
<1> HIDE DEF T, R, row, r
<1>7. r \in Seq(R) /\ Len(r) = Len(Rows)
  BY <1>1, <1>3, <1>5, <1>6
<1>8. r[cur] = row /\ \A i \in DOMAIN Rows : i # cur => r[i] = Rows[i]
  BY <1>3, <1>6
<1>9. \A i \in DOMAIN Numbered : \A c \in Class :
          <<i, c>> # <<cur, cl>> => r[i][c] = Rows[i][c]
  BY <1>2, <1>5, <1>8
<1> QED BY <1>1, <1>5, <1>7, <1>8, <1>9 DEF T, R, r

LEMMA InitShape == Init => Shape
<1> SUFFICES ASSUME Init PROVE Shape
  OBVIOUS
<1>1. nfa.starts \in Seq(NfaState) /\ nfa.nclasses \in 1 .. N /\ N \in Nat
  BY NfaFacts, NfaAssumption DEF Init
<1>2. TypeOK
  BY <1>1 DEF Init, TypeOK, LastType, Class, None
<1>3. Control
  BY <1>1 DEF Init, Control, Building, AllSeeded
<1> QED BY <1>2, <1>3 DEF Shape

(* What the scanner began with or read last is a start state or a byte.    *)
LEMMA LastStep == Shape /\ [Next]_vars => LastType'
<1> SUFFICES ASSUME Shape, [Next]_vars PROVE LastType'
  OBVIOUS
<1>1. nfa' = nfa
  BY DEF Next, Build, Seed, Take, Step, Close, SeedState, NoTarget, Target, Finish,
         MetaKnown, MetaNew, MetaDone, Begin, Read, vars
<1>2. ASSUME last' = last PROVE LastType'
  BY <1>1, <1>2 DEF Shape, TypeOK, LastType
<1>3. CASE Begin
  <2>1. PICK k \in DOMAIN cond_starts : last' = <<"start", k>>
    BY <1>3 DEF Begin
  <2>2. k \in DOMAIN nfa.starts
    <3>1. cond_starts \in Seq(DOMAIN sets) /\ Len(cond_starts) <= Len(nfa.starts)
      BY DEF Shape, TypeOK
    <3>2. nfa.starts \in Seq(NfaState)
      BY NfaFacts DEF Shape, TypeOK
    <3> QED BY <2>1, <3>1, <3>2
  <2> QED BY <1>1, <2>1, <2>2 DEF LastType
<1>4. CASE Read
  BY <1>4 DEF Read, LastType
<1>5. CASE Build \/ UNCHANGED vars
  BY <1>2, <1>5 DEF Build, Seed, Take, Step, Close, SeedState, NoTarget, Target, Finish,
                    MetaKnown, MetaNew, MetaDone, walkVars, vars
<1> QED BY <1>3, <1>4, <1>5 DEF Next

LEMMA ShapeStep == Shape /\ [Next]_vars => Shape'
<1> SUFFICES ASSUME Shape, [Next]_vars PROVE Shape'
  OBVIOUS
<1> USE DEF Shape
<1>1. /\ nfa.starts \in Seq(NfaState) /\ nfa.nclasses \in 1 .. N /\ N \in Nat
      /\ Len(nfa.starts) \in Nat /\ Len(cond_starts) \in Nat /\ Len(sets) \in Nat
      /\ DOMAIN sets = 1 .. Len(sets)
  BY NfaFacts, NfaAssumption DEF TypeOK
<1>2. Tables
  BY DEF TypeOK, Tables
<1>0. LastType'
  BY LastStep
<1>3. ASSUME Seed \/ Step PROVE Shape'
  <2>1. Tables'
    BY <1>2, <1>3, TablesStay DEF Seed, Step, buildVars
  <2>2. ASSUME Seed
        PROVE  {nfa.starts[Len(cond_starts) + 1]} \in SUBSET NfaState
    <3>1. Len(cond_starts) + 1 \in 1 .. Len(nfa.starts)
      BY <1>1, <2>2 DEF Seed, AllSeeded, TypeOK
    <3> QED BY <1>1, <3>1
  <2>3. Targets(nfa.edges, sets[cur], Rep(cl)) \in SUBSET NfaState
    BY TargetsMoved DEF TypeOK
  <2>4. set' \in SUBSET NfaState /\ stack' \in SUBSET set' /\ pc' = "close"
    BY <1>3, <2>2, <2>3 DEF Seed, Step, Enter
  <2>5. TypeOK'
    BY <1>0, <1>3, <2>1, <2>4 DEF TypeOK, Tables, Seed, Step, buildVars, metaVars, walkVars, Class
  <2>6. Control'
    BY <1>1, <1>3, <2>4 DEF Control, Building, AllSeeded, Seed, Step, buildVars, metaVars, walkVars, TypeOK
  <2> QED BY <2>5, <2>6
<1>4. ASSUME Take PROVE Shape'
  <2>1. Tables'
    BY <1>2, <1>4, TablesStay DEF Take
  <2>2. work \in Seq(DOMAIN sets) /\ work # <<>>
    BY <1>4 DEF TypeOK, Take
  <2>3. cur' \in DOMAIN sets /\ work' \in Seq(DOMAIN sets) /\ cl' = 0
    <3> DEFINE D == DOMAIN sets
    <3>1. work \in Seq(D) /\ work # <<>>
      BY <2>2
    <3> HIDE DEF D
    <3>2. Head(work) \in D /\ Tail(work) \in Seq(D)
      BY <3>1
    <3> QED BY <1>4, <3>2 DEF Take, D
  <2>4. TypeOK'
    BY <1>0, <1>1, <1>4, <2>1, <2>3 DEF TypeOK, Tables, Take, metaVars, walkVars, Class
  <2>5. Control'
    BY <1>1, <1>4, <2>3 DEF Control, Building, AllSeeded, Take, metaVars, walkVars, TypeOK
  <2> QED BY <2>4, <2>5
<1>5. ASSUME Close PROVE Shape'
  <2>1. Tables'
    BY <1>2, <1>5, TablesStay DEF Close, buildVars
  <2>2. PICK s \in stack : /\ set' = set \cup Unseen(s)
                           /\ stack' = (stack \ {s}) \cup Unseen(s)
    BY <1>5 DEF Close
  <2>3. Unseen(s) \in SUBSET NfaState
    <3>1. \A e \in nfa.edges : e[3] \in NfaState
      BY NfaFacts DEF TypeOK
    <3> QED BY <3>1 DEF Unseen, EpsTargets
  <2>4. set' \in SUBSET NfaState /\ stack' \in SUBSET set'
    BY <2>2, <2>3 DEF TypeOK
  <2>5. TypeOK'
    BY <1>0, <1>5, <2>1, <2>4 DEF TypeOK, Tables, Close, buildVars, metaVars, walkVars, Class
  <2>6. Control'
    BY <1>5 DEF Control, Building, AllSeeded, Close, buildVars, metaVars, walkVars
  <2> QED BY <2>5, <2>6
<1>6. ASSUME SeedState PROVE Shape'
  <2>1. ~AllSeeded /\ cond_starts \in Seq(DOMAIN sets)
    BY <1>6 DEF SeedState, Control, TypeOK
  <2>2. /\ cond_starts' \in Seq(DOMAIN Numbered) /\ work' \in Seq(DOMAIN Numbered)
        /\ Len(cond_starts') = Len(cond_starts) + 1
    <3>1. work \in Seq(DOMAIN sets)
      BY DEF TypeOK
    <3> QED BY <1>6, <2>1, <3>1, NumbersGrow DEF SeedState
  <2>3. Len(cond_starts') <= Len(nfa.starts)
    BY <1>1, <2>1, <2>2 DEF AllSeeded, TypeOK
  <2>4. Tables'
    BY <1>6, <2>2, <2>3, Numbering, TablesGrow DEF SeedState
  <2>5. TypeOK'
    BY <1>0, <1>1, <1>6, <2>2, <2>4 DEF TypeOK, Tables, SeedState, metaVars, walkVars, Control, Class
  <2>6. Control'
    BY <1>1, <1>6, <2>1 DEF Control, Building, AllSeeded, SeedState, metaVars, walkVars
  <2> QED BY <2>5, <2>6
<1>7. ASSUME NoTarget PROVE Shape'
  <2>1. Tables'
    BY <1>2, <1>7, TablesStay DEF NoTarget, buildVars
  <2>2. cl < nfa.nclasses
    BY <1>7 DEF NoTarget, Control
  <2>3. TypeOK'
    BY <1>0, <1>1, <1>7, <2>1, <2>2 DEF TypeOK, Tables, NoTarget, buildVars, metaVars, walkVars, Class
  <2>4. Control'
    BY <1>7 DEF Control, Building, AllSeeded, NoTarget, buildVars, metaVars, walkVars
  <2> QED BY <2>3, <2>4
<1>8. ASSUME Target PROVE Shape'
  <2>1. cl < nfa.nclasses /\ cur \in DOMAIN sets /\ cl \in Class
    BY <1>1, <1>8 DEF Target, Control, TypeOK, Class
  <2>2. work' \in Seq(DOMAIN Numbered) /\ cond_starts' \in Seq(DOMAIN Numbered)
    <3>1. work \in Seq(DOMAIN sets) /\ cond_starts \in Seq(DOMAIN sets)
      BY DEF TypeOK
    <3> QED BY <1>8, <3>1, NumbersGrow DEF Target, Queued
  <2>3. next' \in Seq([Class -> DOMAIN Numbered \cup {None}]) /\ Len(next') = Len(Numbered)
    BY <1>8, <2>1, RowSet DEF Target
  <2>4. Len(cond_starts') <= Len(nfa.starts)
    BY <1>8 DEF Target, TypeOK
  <2>5. Tables'
    BY <1>8, <2>2, <2>3, <2>4, TablesGrow DEF Target
  <2>6. cur' \in DOMAIN sets' /\ sets' = Numbered
    BY <1>8, <2>1, Numbering DEF Target
  <2>7. /\ cl' \in 0 .. nfa'.nclasses /\ pc' = "loop" /\ nmeta' = nmeta
        /\ set' = set /\ stack' = stack /\ at' = None /\ work' \in Seq(DOMAIN sets')
    BY <1>1, <1>8, <2>1, <2>2, <2>6 DEF Target, metaVars, walkVars, Control, Class
  <2>8. TypeOK'
    BY <1>0, <2>5, <2>6, <2>7 DEF TypeOK, Tables
  <2>9. Control'
    BY <1>8, <2>1 DEF Control, Building, AllSeeded, Target, metaVars, walkVars
  <2> QED BY <2>8, <2>9
<1>9. ASSUME Finish PROVE Shape'
  <2>1. Tables'
    BY <1>2, <1>9, TablesStay DEF Finish, buildVars, walkVars
  <2>2. TypeOK'
    BY <1>0, <1>1, <1>9, <2>1 DEF TypeOK, Tables, Finish, buildVars, walkVars, Class, Byte
  <2>3. Control'
    BY <1>9 DEF Control, Building, AllSeeded, Finish, buildVars, walkVars
  <2> QED BY <2>2, <2>3
<1>10. ASSUME MetaKnown \/ MetaNew PROVE Shape'
  <2>1. Tables'
    BY <1>2, <1>10, TablesStay DEF MetaKnown, MetaNew, buildVars, walkVars
  <2>2. pc = "meta" /\ meta \in [Class -> Byte] /\ cl \in Class /\ cl < nfa.nclasses
    BY <1>1, <1>10 DEF MetaKnown, MetaNew, TypeOK, Class
  <2>3. nmeta % N \in Byte /\ \A d \in 0 .. cl - 1 : meta[d] \in Byte
    <3>1. nmeta % N \in 0 .. N - 1
      BY <1>1 DEF TypeOK
    <3> QED BY <1>1, <2>2, <3>1 DEF Byte, Class
  <2>4. meta' \in [Class -> Byte]
    BY <1>10, <2>2, <2>3 DEF MetaKnown, MetaNew
  <2>5. cl' \in 0 .. nfa'.nclasses /\ nmeta' \in Nat /\ Class' = Class
    BY <1>1, <1>10, <2>2 DEF MetaKnown, MetaNew, TypeOK, Class
  <2>6. TypeOK'
    BY <1>0, <1>10, <2>1, <2>2, <2>4, <2>5 DEF TypeOK, Tables, MetaKnown, MetaNew, buildVars, walkVars
  <2>7. Control'
    BY <1>10, <2>2 DEF Control, Building, AllSeeded, MetaKnown, MetaNew, buildVars, walkVars
  <2> QED BY <2>6, <2>7
<1>11. ASSUME MetaDone PROVE Shape'
  <2>1. Tables'
    BY <1>2, <1>11, TablesStay DEF MetaDone, buildVars
  <2>2. TypeOK'
    BY <1>0, <1>11, <2>1 DEF TypeOK, Tables, MetaDone, buildVars, metaVars, walkVars, Class
  <2>3. Control'
    BY <1>11 DEF Control, Building, AllSeeded, MetaDone, buildVars, metaVars, walkVars
  <2> QED BY <2>2, <2>3
<1>12. ASSUME Begin \/ Read PROVE Shape'
  <2>1. Tables'
    BY <1>2, <1>12, TablesStay DEF Begin, Read, buildVars
  <2>2. pc = "walk" /\ pc' = "walk"
    BY <1>12 DEF Begin, Read
  <2>3. at' \in DOMAIN sets \cup {None}
    <3>1. ASSUME Begin PROVE at' \in DOMAIN sets
      <4> DEFINE D == DOMAIN sets
      <4>1. cond_starts \in Seq(D)
        BY DEF TypeOK
      <4> HIDE DEF D
      <4>2. \A k \in DOMAIN cond_starts : cond_starts[k] \in D
        BY <4>1
      <4> QED BY <3>1, <4>2 DEF Begin, D
    <3>2. ASSUME Read PROVE at' \in DOMAIN sets \cup {None}
      <4> DEFINE T == DOMAIN sets \cup {None}
      <4>1. PICK b \in Byte : at' = Transition(at, b)
        BY <3>2 DEF Read
      <4>2. nfa.ec[b] \in Class
        BY NfaFacts DEF TypeOK, Class
      <4>3. at \in 1 .. Len(next) /\ next \in Seq([Class -> T])
        BY <1>1, <3>2 DEF Read, TypeOK
      <4>4. next[at] \in [Class -> T]
        <5> DEFINE R == [Class -> T]
        <5>1. next \in Seq(R)
          BY <4>3
        <5> HIDE DEF R
        <5>2. next[at] \in R
          BY <4>3, <5>1
        <5> QED BY <5>2 DEF R
      <4> HIDE DEF T
      <4>5. next[at][nfa.ec[b]] \in T
        BY <4>2, <4>4
      <4> QED BY <4>1, <4>5 DEF Transition, T
    <3> QED BY <1>12, <3>1, <3>2
  <2>4. TypeOK'
    BY <1>0, <1>12, <2>1, <2>2, <2>3 DEF TypeOK, Tables, Begin, Read, buildVars, metaVars, walkVars, Class
  <2>5. Control'
    BY <1>12, <2>2 DEF Control, Building, AllSeeded, Begin, Read, buildVars, metaVars, walkVars
  <2> QED BY <2>4, <2>5
<1>13. ASSUME UNCHANGED vars PROVE Shape'
  BY <1>0, <1>13 DEF vars, buildVars, metaVars, walkVars, TypeOK, Control, Building, AllSeeded, Class
<1> QED BY <1>3, <1>4, <1>5, <1>6, <1>7, <1>8, <1>9, <1>10, <1>11, <1>12, <1>13 DEF Next, Build

(* The tables hold sets, rows and state numbers, and build_dfa() uses no   *)
(* number before it is given.                                              *)
THEOREM TypeCorrect == Spec => []TypeOK
<1>1. Shape => TypeOK
  BY DEF Shape
<1> QED BY <1>1, InitShape, ShapeStep, PTL DEF Spec

-----------------------------------------------------------------------------
(* The closure.                                                            *)
LEMMA FromTyped ==
    ASSUME Shape, pc = "close"
    PROVE  From \in SUBSET NfaState
<1>1. nfa \in Nfas /\ nfa.starts \in Seq(NfaState)
  BY NfaFacts DEF Shape, TypeOK
<1>2. CASE cur = 0
  <2>1. ~AllSeeded /\ Len(cond_starts) <= Len(nfa.starts) /\ Len(cond_starts) \in Nat
    BY <1>2 DEF Shape, TypeOK, Control
  <2>2. Len(cond_starts) + 1 \in 1 .. Len(nfa.starts)
    BY <1>1, <2>1 DEF AllSeeded
  <2>3. nfa.starts[Len(cond_starts) + 1] \in NfaState
    BY <1>1, <2>2
  <2> QED BY <1>2, <2>3 DEF From
<1>3. CASE cur # 0
  BY <1>1, <1>3, TargetsMoved DEF From
<1> QED BY <1>2, <1>3

LEMMA ClosedExactly ==
    ASSUME Shape, Closing, pc = "close", stack = {}
    PROVE  set = Run!Closure(nfa.edges, From)
<1>1. nfa \in Nfas /\ set \in SUBSET NfaState
  BY DEF Shape, TypeOK
<1>2. From \subseteq set /\ set \subseteq Run!Closure(nfa.edges, From)
  BY DEF Closing
<1>3. Run!Closed(nfa.edges, set)
  BY DEF Closing, Run!Closed
<1>4. Run!Closure(nfa.edges, From) \subseteq set
  BY <1>1, <1>2, <1>3, FromTyped, ClosureFacts
<1> QED BY <1>2, <1>4

LEMMA ClosingStep ==
    ASSUME Shape, Closing, [Next]_vars
    PROVE  Closing'
<1>1. nfa \in Nfas /\ stack \subseteq set
  BY DEF Shape, TypeOK
<1>2. ASSUME Seed PROVE Closing'
  <2>1. cur = 0
    BY <1>2 DEF Seed, Shape, Control
  <2>2. From' = set' /\ stack' = set'
    BY <1>2, <2>1 DEF Seed, Enter, From, buildVars
  <2>3. set' \in SUBSET NfaState /\ nfa' = nfa
    <3>1. /\ nfa.starts \in Seq(NfaState) /\ Len(cond_starts) <= Len(nfa.starts)
          /\ Len(cond_starts) \in Nat /\ Len(cond_starts) # Len(nfa.starts)
      BY <1>1, <1>2, NfaFacts DEF Seed, AllSeeded, Shape, TypeOK
    <3>2. Len(cond_starts) + 1 \in 1 .. Len(nfa.starts)
      BY <3>1
    <3>3. nfa.starts[Len(cond_starts) + 1] \in NfaState
      BY <3>1, <3>2
    <3> QED BY <1>2, <3>3 DEF Seed, Enter
  <2> QED BY <1>1, <2>2, <2>3, ClosureFacts DEF Closing
<1>3. ASSUME Step PROVE Closing'
  <2>1. cur # 0
    BY <1>3 DEF Step, Shape, Control
  <2>2. From' = set' /\ stack' = set' /\ nfa' = nfa
    BY <1>3, <2>1 DEF Step, Enter, From, buildVars, Rep
  <2>3. set' \in SUBSET NfaState
    BY <1>1, <1>3, TargetsMoved DEF Step, Enter
  <2> QED BY <1>1, <2>2, <2>3, ClosureFacts DEF Closing
<1>4. ASSUME Close PROVE Closing'
  <2>1. pc = "close" /\ nfa' = nfa /\ From' = From
    BY <1>4 DEF Close, From, Rep, buildVars
  <2>2. /\ From \subseteq set /\ set \subseteq Run!Closure(nfa.edges, From)
        /\ \A e \in nfa.edges : e[1] \in set \ stack /\ e[2] = {} => e[3] \in set
    BY <2>1 DEF Closing
  <2>3. PICK s \in stack : /\ set' = set \cup Unseen(s)
                           /\ stack' = (stack \ {s}) \cup Unseen(s)
    BY <1>4 DEF Close
  <2>4. Run!Closed(nfa.edges, Run!Closure(nfa.edges, From))
    BY <1>1, <2>1, FromTyped, ClosureFacts
  <2>5. Unseen(s) \subseteq Run!Closure(nfa.edges, From)
    <3>1. ASSUME NEW e \in nfa.edges, e[1] = s, e[2] = {}
          PROVE  e[3] \in Run!Closure(nfa.edges, From)
      BY <1>1, <2>2, <2>3, <2>4, <3>1 DEF Run!Closed
    <3> QED BY <3>1 DEF Unseen, EpsTargets
  <2>6. ASSUME NEW e \in nfa.edges, e[1] \in set' \ stack', e[2] = {}
        PROVE  e[3] \in set'
    <3>1. CASE e[1] = s
      BY <2>3, <2>6, <3>1 DEF Unseen, EpsTargets
    <3>2. CASE e[1] # s
      <4>1. e[1] \in set \ stack
        BY <2>3, <2>6, <3>2
      <4> QED BY <2>2, <2>3, <2>6, <4>1
    <3> QED BY <3>1, <3>2
  <2> QED BY <2>1, <2>2, <2>3, <2>5, <2>6 DEF Closing
<1>5. ASSUME UNCHANGED vars PROVE Closing'
  BY <1>5 DEF vars, buildVars, Closing, From, Rep
<1>6. ASSUME Take \/ SeedState \/ NoTarget \/ Target \/ Finish \/ MetaKnown \/ MetaNew
             \/ MetaDone \/ Begin \/ Read
      PROVE  pc' # "close"
  BY <1>6 DEF Shape, Control, Take, SeedState, NoTarget, Target, Finish, MetaKnown, MetaNew,
              MetaDone, Begin, Read
<1> QED BY <1>2, <1>3, <1>4, <1>5, <1>6 DEF Next, Build, Closing

-----------------------------------------------------------------------------
(* Numbers and rows.                                                       *)

LEMMA TableInvStays ==
    ASSUME TableInv, UNCHANGED <<nfa, sets, next, cond_starts>>
    PROVE  TableInv'
<1>1. SetsDistinct' /\ SetsLive'
  BY DEF TableInv, SetsDistinct, SetsLive
<1>2. StartsExact'
  BY DEF TableInv, StartsExact, Start
<1>3. RowsSound'
  BY DEF TableInv, RowsSound, Led, Rep, Class
<1>4. StatesReached'
  BY DEF TableInv, StatesReached, Class
<1> QED BY <1>1, <1>2, <1>3, <1>4 DEF TableInv

(* A set that is not empty is numbered.                                    *)
LEMMA SetsGrow ==
    ASSUME TypeOK, SetsDistinct, SetsLive, set # {}, sets' = Numbered
    PROVE  SetsDistinct' /\ SetsLive'
<1>1. ASSUME NEW i \in DOMAIN Numbered, NEW j \in DOMAIN Numbered, Numbered[i] = Numbered[j]
      PROVE  i = j
  <2>1. CASE i \in DOMAIN sets /\ j \in DOMAIN sets
    BY <1>1, <2>1, Numbering DEF SetsDistinct
  <2>2. CASE i \notin DOMAIN sets
    <3>1. ~Known /\ i = Id /\ Numbered[i] = set
      BY <2>2, Numbering
    <3>2. j \notin DOMAIN sets
      BY <1>1, <3>1, Numbering DEF Known
    <3> QED BY <3>1, <3>2, Numbering
  <2>3. CASE j \notin DOMAIN sets
    <3>1. ~Known /\ j = Id /\ Numbered[j] = set
      BY <2>3, Numbering
    <3>2. i \notin DOMAIN sets
      BY <1>1, <3>1, Numbering DEF Known
    <3> QED BY <3>1, <3>2, Numbering
  <2> QED BY <2>1, <2>2, <2>3
<1>2. ASSUME NEW i \in DOMAIN Numbered PROVE Numbered[i] # {}
  BY Numbering DEF SetsLive
<1> QED BY <1>1, <1>2 DEF SetsDistinct, SetsLive

(* The old numbers still lead where they led.                              *)
LEMMA NumberKept ==
    ASSUME TypeOK, NEW i \in DOMAIN sets, NEW c \in Class
    PROVE  /\ next[i][c] \in DOMAIN sets \cup {None}
           /\ next[i][c] # None => Numbered[next[i][c]] = sets[next[i][c]]
<1> DEFINE T == DOMAIN sets \cup {None}  R == [Class -> T]
<1>1. next \in Seq(R) /\ i \in 1 .. Len(next)
  BY DEF TypeOK
<1> HIDE DEF R
<1>2. next[i] \in R
  BY <1>1
<1> HIDE DEF T
<1>3. next[i][c] \in T
  BY <1>2 DEF R
<1> QED BY <1>3, Numbering DEF T

LEMMA StartKept ==
    ASSUME TypeOK, NEW k \in DOMAIN cond_starts
    PROVE  cond_starts[k] \in DOMAIN sets
<1> DEFINE D == DOMAIN sets
<1>1. cond_starts \in Seq(D)
  BY DEF TypeOK
<1> HIDE DEF D
<1>2. cond_starts[k] \in D
  BY <1>1
<1> QED BY <1>2 DEF D

LEMMA SeedStateKeeps ==
    ASSUME Shape, Closing, TableInv, SeedState
    PROVE  TableInv'
<1>1. TypeOK /\ nfa \in Nfas /\ cur = 0 /\ pc = "close" /\ stack = {}
  BY DEF Shape, TypeOK, SeedState
<1>2. /\ nfa' = nfa /\ sets' = Numbered /\ next' = Rows
      /\ cond_starts' = Append(cond_starts, Id)
  BY DEF SeedState
<1>3. set = Start(Len(cond_starts) + 1)
  BY <1>1, ClosedExactly DEF From, Start
<1>4. set # {}
  BY <1>1 DEF Closing, From
<1>5. SetsDistinct' /\ SetsLive'
  BY <1>1, <1>2, <1>4, SetsGrow DEF TableInv
<1>6. /\ \A k \in DOMAIN cond_starts : k \in DOMAIN cond_starts' /\ cond_starts'[k] = cond_starts[k]
      /\ DOMAIN cond_starts' = DOMAIN cond_starts \cup {Len(cond_starts) + 1}
      /\ cond_starts'[Len(cond_starts) + 1] = Id
  <2> DEFINE D == DOMAIN sets
  <2>1. cond_starts \in Seq(D)
    BY <1>1 DEF TypeOK
  <2> HIDE DEF D
  <2> QED BY <1>2, <2>1
<1>7. StartsExact'
  <2>1. ASSUME NEW k \in DOMAIN cond_starts' PROVE Numbered[cond_starts'[k]] = Start(k)
    <3>1. CASE k \in DOMAIN cond_starts
      <4>1. cond_starts[k] \in DOMAIN sets /\ sets[cond_starts[k]] = Start(k)
        BY <1>1, <3>1, StartKept DEF TableInv, StartsExact
      <4> QED BY <1>1, <1>6, <3>1, <4>1, Numbering
    <3>2. CASE k = Len(cond_starts) + 1
      BY <1>1, <1>3, <1>6, <3>2, Numbering
    <3> QED BY <1>6, <2>1, <3>1, <3>2
  <2> QED BY <1>2, <2>1 DEF StartsExact, Start
<1>8. RowsSound'
  <2>1. ASSUME NEW i \in DOMAIN Numbered, NEW c \in Class, Rows[i][c] # None
        PROVE  Numbered[Rows[i][c]]
                   = Run!Closure(nfa.edges, Targets(nfa.edges, Numbered[i], Rep(c)))
    <3>1. i \in DOMAIN sets
      BY <1>1, <2>1, Numbering
    <3>2. Rows[i] = next[i] /\ Numbered[i] = sets[i]
      BY <1>1, <3>1, Numbering
    <3>3. sets[next[i][c]] = Run!Closure(nfa.edges, Led(i, c))
      BY <2>1, <3>1, <3>2 DEF TableInv, RowsSound
    <3> QED BY <1>1, <2>1, <3>1, <3>2, <3>3, NumberKept DEF Led
  <2>2. Class' = Class /\ \A c : Rep(c)' = Rep(c)
    BY <1>2 DEF Class, Rep
  <2> QED BY <1>2, <2>1, <2>2 DEF RowsSound, Led
<1>9. StatesReached'
  <2>1. ASSUME NEW i \in DOMAIN Numbered
        PROVE  \/ \E k \in DOMAIN cond_starts' : cond_starts'[k] = i
               \/ \E j \in 1 .. i - 1 : \E c \in Class : Rows[j][c] = i
    <3>1. CASE i \notin DOMAIN sets
      <4>1. i = Id
        BY <1>1, <3>1, Numbering
      <4> QED BY <1>6, <4>1
    <3>2. CASE i \in DOMAIN sets
      <4>1. CASE \E k \in DOMAIN cond_starts : cond_starts[k] = i
        BY <1>6, <4>1
      <4>2. CASE \E j \in 1 .. i - 1 : \E c \in Class : next[j][c] = i
        <5>1. PICK j \in 1 .. i - 1 : \E c \in Class : next[j][c] = i
          BY <4>2
        <5>2. j \in DOMAIN sets
          BY <1>1, <3>2 DEF TypeOK
        <5>3. Rows[j] = next[j]
          BY <1>1, <5>2, Numbering
        <5> QED BY <5>1, <5>3
      <4> QED BY <3>2, <4>1, <4>2 DEF TableInv, StatesReached
    <3> QED BY <3>1, <3>2
  <2> QED BY <1>2, <2>1 DEF StatesReached, Class
<1> QED BY <1>5, <1>7, <1>8, <1>9 DEF TableInv

(* A transition that is set a second time is set to the same state.        *)
LEMMA SetAgain ==
    ASSUME Shape, Closing, SetsDistinct, RowsSound, Target, next[cur][cl] # None
    PROVE  next[cur][cl] = Id
<1>1. TypeOK /\ cur \in DOMAIN sets /\ cl \in Class
  <2>1. cl < nfa.nclasses
    BY DEF Target, Shape, Control
  <2>2. nfa.nclasses \in 1 .. N /\ N \in Nat
    BY NfaFacts, NfaAssumption DEF Shape, TypeOK
  <2> QED BY <2>1, <2>2 DEF Target, Shape, TypeOK, Class
<1>2. set = Run!Closure(nfa.edges, Led(cur, cl))
  BY ClosedExactly DEF Target, From, Led
<1>3. next[cur][cl] \in DOMAIN sets /\ sets[next[cur][cl]] = set
  BY <1>1, <1>2, NumberKept DEF RowsSound
<1>4. Id \in DOMAIN sets /\ sets[Id] = set
  BY <1>3 DEF Known, Id
<1> QED BY <1>3, <1>4 DEF SetsDistinct

LEMMA TargetKeeps ==
    ASSUME Shape, Closing, TableInv, Target
    PROVE  TableInv'
<1> DEFINE r == [Rows EXCEPT ![cur][cl] = Id]
<1>1. TypeOK /\ nfa \in Nfas /\ cur \in DOMAIN sets /\ cl \in Class
  <2>1. cl < nfa.nclasses
    BY DEF Target, Shape, Control
  <2>2. nfa.nclasses \in 1 .. N /\ N \in Nat
    BY NfaFacts, NfaAssumption DEF Shape, TypeOK
  <2> QED BY <2>1, <2>2 DEF Target, Shape, TypeOK, Class
<1>2. /\ nfa' = nfa /\ sets' = Numbered /\ next' = r /\ cond_starts' = cond_starts
      /\ set # {}
  BY DEF Target
<1>3. /\ r[cur][cl] = Id
      /\ \A i \in DOMAIN Numbered : \A c \in Class :
             <<i, c>> # <<cur, cl>> => r[i][c] = Rows[i][c]
  BY <1>1, RowSet
<1>4. set = Run!Closure(nfa.edges, Led(cur, cl))
  BY ClosedExactly DEF Target, From, Led
<1>5. SetsDistinct' /\ SetsLive'
  BY <1>1, <1>2, SetsGrow DEF TableInv
<1>6. StartsExact'
  <2>1. ASSUME NEW k \in DOMAIN cond_starts PROVE Numbered[cond_starts[k]] = Start(k)
    <3>1. cond_starts[k] \in DOMAIN sets /\ sets[cond_starts[k]] = Start(k)
      BY <1>1, StartKept DEF TableInv, StartsExact
    <3> QED BY <1>1, <3>1, Numbering
  <2> QED BY <1>2, <2>1 DEF StartsExact, Start
<1> HIDE DEF r
<1>7. RowsSound'
  <2>1. ASSUME NEW i \in DOMAIN Numbered, NEW c \in Class, r[i][c] # None
        PROVE  Numbered[r[i][c]]
                   = Run!Closure(nfa.edges, Targets(nfa.edges, Numbered[i], Rep(c)))
    <3>1. CASE i = cur /\ c = cl
      <4>1. Numbered[cur] = sets[cur] /\ Numbered[Id] = set
        BY <1>1, Numbering
      <4> QED BY <1>3, <1>4, <3>1, <4>1 DEF Led
    <3>2. CASE ~(i = cur /\ c = cl)
      <4>1. r[i][c] = Rows[i][c]
        BY <1>3, <3>2
      <4>2. i \in DOMAIN sets
        BY <1>1, <2>1, <4>1, Numbering
      <4>3. Rows[i] = next[i] /\ Numbered[i] = sets[i]
        BY <1>1, <4>2, Numbering
      <4>4. sets[next[i][c]] = Run!Closure(nfa.edges, Led(i, c))
        BY <2>1, <4>1, <4>2, <4>3 DEF TableInv, RowsSound
      <4> QED BY <1>1, <2>1, <4>1, <4>2, <4>3, <4>4, NumberKept DEF Led
    <3> QED BY <3>1, <3>2
  <2>2. Class' = Class /\ \A c : Rep(c)' = Rep(c)
    BY <1>2 DEF Class, Rep
  <2> QED BY <1>2, <2>1, <2>2 DEF RowsSound, Led
<1>8. StatesReached'
  <2>1. ASSUME NEW i \in DOMAIN Numbered
        PROVE  \/ \E k \in DOMAIN cond_starts : cond_starts[k] = i
               \/ \E j \in 1 .. i - 1 : \E c \in Class : r[j][c] = i
    <3>1. CASE i \notin DOMAIN sets
      <4>1. i = Id /\ i = Len(sets) + 1
        BY <1>1, <3>1, Numbering
      <4>2. cur \in 1 .. i - 1
        BY <1>1, <4>1 DEF TypeOK
      <4> QED BY <1>1, <1>3, <4>1, <4>2
    <3>2. CASE i \in DOMAIN sets
      <4>1. ASSUME NEW j \in 1 .. i - 1, NEW c \in Class, next[j][c] = i
            PROVE  r[j][c] = i
        <5>1. j \in DOMAIN sets /\ i # None
          BY <1>1, <3>2 DEF TypeOK, None
        <5>2. CASE j = cur /\ c = cl
          <6>1. next[cur][cl] = Id
            BY <4>1, <5>1, <5>2, SetAgain DEF TableInv
          <6> QED BY <1>3, <4>1, <5>2, <6>1
        <5>3. CASE ~(j = cur /\ c = cl)
          <6>1. r[j][c] = Rows[j][c] /\ Rows[j] = next[j]
            BY <1>1, <1>3, <5>1, <5>3, Numbering
          <6> QED BY <4>1, <6>1
        <5> QED BY <5>2, <5>3
      <4>2. \/ \E k \in DOMAIN cond_starts : cond_starts[k] = i
            \/ \E j \in 1 .. i - 1 : \E c \in Class : next[j][c] = i
        BY <3>2 DEF TableInv, StatesReached
      <4> QED BY <4>1, <4>2
    <3> QED BY <3>1, <3>2
  <2> QED BY <1>2, <2>1 DEF StatesReached, Class
<1> QED BY <1>5, <1>6, <1>7, <1>8 DEF TableInv

LEMMA TableInvStep ==
    ASSUME Shape, Closing, TableInv, [Next]_vars
    PROVE  TableInv'
<1>1. CASE SeedState
  BY <1>1, SeedStateKeeps
<1>2. CASE Target
  BY <1>2, TargetKeeps
<1>3. CASE Seed \/ Take \/ Step \/ Close \/ NoTarget \/ Finish \/ MetaKnown \/ MetaNew
           \/ MetaDone \/ Begin \/ Read \/ UNCHANGED vars
  <2>1. UNCHANGED <<nfa, sets, next, cond_starts>>
    BY <1>3 DEF Seed, Take, Step, Close, NoTarget, Finish, MetaKnown, MetaNew, MetaDone,
                Begin, Read, vars, buildVars
  <2> QED BY <2>1, TableInvStays
<1> QED BY <1>1, <1>2, <1>3 DEF Next, Build

(* A state that is not in the queue, nor at work in the loop, is finished. *)
LEMMA RowsCompleteStep ==
    ASSUME Shape, Closing, RowsComplete, [Next]_vars
    PROVE  RowsComplete'
<1>1. /\ TypeOK /\ nfa \in Nfas /\ nfa.nclasses \in Nat /\ cl \in Nat
      /\ \A c \in Class : c \in Nat /\ c < nfa.nclasses
  <2>1. nfa.nclasses \in 1 .. N /\ N \in Nat
    BY NfaFacts, NfaAssumption DEF Shape, TypeOK
  <2> QED BY <2>1 DEF Shape, TypeOK, Class
<1>2. ASSUME UNCHANGED <<nfa, sets, next>>,
             \A i \in DOMAIN sets : \A c \in Class :
                 Final(i, c)' => Final(i, c) \/ Led(i, c) = {}
      PROVE  RowsComplete'
  <2>1. Class' = Class /\ \A c : Rep(c)' = Rep(c)
    BY <1>2 DEF Class, Rep
  <2>2. \A i \in DOMAIN sets : \A c \in Class : Led(i, c)' = Led(i, c)
    BY <1>2, <2>1 DEF Led
  <2> QED BY <1>2, <2>1, <2>2 DEF RowsComplete
<1>3. CASE Seed \/ Step \/ Close \/ MetaKnown \/ MetaNew \/ MetaDone \/ Begin \/ Read
           \/ UNCHANGED vars
  <2>1. UNCHANGED <<nfa, sets, next>> /\ work' = work /\ cur' = cur
    BY <1>3 DEF Seed, Step, Close, MetaKnown, MetaNew, MetaDone, Begin, Read, vars, buildVars
  <2>2. Building' = Building /\ (Building => cl' = cl)
    BY <1>3 DEF Building, Seed, Step, Enter, Close, MetaKnown, MetaNew, MetaDone, Begin, Read,
                vars, buildVars
  <2>3. \A i \in DOMAIN sets : \A c \in Class : Final(i, c)' => Final(i, c)
    BY <2>1, <2>2 DEF Final
  <2> QED BY <1>2, <2>1, <2>3
<1>4. CASE Take
  <2>1. UNCHANGED <<nfa, sets, next>> /\ Building /\ Building' /\ cl = nfa.nclasses
    BY <1>4 DEF Take, Building
  <2>2. \A q \in DOMAIN work : work[q] = cur' \/ \E p \in DOMAIN work' : work'[p] = work[q]
    <3> DEFINE D == DOMAIN sets
    <3>1. work \in Seq(D) /\ work # <<>> /\ cur' = Head(work) /\ work' = Tail(work)
      BY <1>1, <1>4 DEF Take, TypeOK
    <3> HIDE DEF D
    <3>2. ASSUME NEW q \in DOMAIN work, q # 1
          PROVE  q - 1 \in DOMAIN work' /\ work'[q - 1] = work[q]
      <4>1. Len(work) \in Nat /\ q \in 1 .. Len(work) /\ q - 1 \in 1 .. Len(work) - 1
        BY <3>1, <3>2
      <4>2. Len(Tail(work)) = Len(work) - 1 /\ DOMAIN Tail(work) = 1 .. Len(work) - 1
        BY <3>1
      <4>3. Tail(work)[q - 1] = work[(q - 1) + 1]
        BY <3>1, <4>1, <4>2
      <4> QED BY <3>1, <4>1, <4>2, <4>3
    <3>3. work[1] = cur'
      BY <3>1
    <3>4. ASSUME NEW q \in DOMAIN work
          PROVE  work[q] = cur' \/ \E p \in DOMAIN work' : work'[p] = work[q]
      <4>1. CASE q = 1
        BY <3>3, <4>1
      <4>2. CASE q # 1
        BY <3>2, <4>2
      <4> QED BY <4>1, <4>2
    <3> QED BY <3>4
  <2>3. ASSUME NEW i \in DOMAIN sets, NEW c \in Class, Final(i, c)'
        PROVE  Final(i, c)
    <3>1. i # cur'
      BY <1>1, <1>4, <2>1, <2>3 DEF Final, Take
    <3>2. \A q \in DOMAIN work : work[q] # i
      BY <2>2, <2>3, <3>1 DEF Final
    <3> QED BY <1>1, <2>1, <3>2 DEF Final
  <2> QED BY <1>2, <2>1, <2>3
<1>5. CASE NoTarget
  <2>1. UNCHANGED <<nfa, sets, next>> /\ work' = work /\ cur' = cur /\ cl' = cl + 1
        /\ Building /\ Building'
    BY <1>5 DEF NoTarget, Building, buildVars
  <2>2. Led(cur, cl) = {}
    BY <1>5 DEF NoTarget, Closing, From, Led
  <2>3. ASSUME NEW i \in DOMAIN sets, NEW c \in Class, Final(i, c)'
        PROVE  Final(i, c) \/ Led(i, c) = {}
    <3>1. CASE i = cur /\ c = cl
      BY <2>2, <3>1
    <3>2. CASE ~(i = cur /\ c = cl)
      BY <1>1, <2>1, <2>3, <3>2 DEF Final
    <3> QED BY <3>1, <3>2
  <2> QED BY <1>2, <2>1, <2>3
<1>6. CASE Finish
  <2>1. UNCHANGED <<nfa, sets, next>> /\ work' = work /\ cl = nfa.nclasses
    BY <1>6 DEF Finish, buildVars
  <2>2. \A i \in DOMAIN sets : \A c \in Class : Final(i, c)' => Final(i, c)
    BY <1>1, <2>1 DEF Final
  <2> QED BY <1>2, <2>1, <2>2
<1>7. CASE SeedState \/ Target
  <2>1. nfa' = nfa /\ sets' = Numbered /\ cur' = cur /\ Building /\ Building'
    BY <1>7 DEF SeedState, Target, Building
  <2>2. /\ \A q \in DOMAIN work : q \in DOMAIN work' /\ work'[q] = work[q]
        /\ ~Known => \E q \in DOMAIN work' : work'[q] = Id
    <3> DEFINE D == DOMAIN Numbered
    <3>1. work \in Seq(D) /\ Append(work, Id) \in Seq(D)
      BY <1>1, NumbersGrow DEF TypeOK
    <3>2. work' = Append(work, Id) \/ (Known /\ work' = work)
      BY <1>7 DEF SeedState, Target, Queued
    <3> HIDE DEF D
    <3>3. /\ \A q \in DOMAIN work : q \in DOMAIN Append(work, Id)
                                    /\ Append(work, Id)[q] = work[q]
          /\ Len(work) + 1 \in DOMAIN Append(work, Id)
          /\ Append(work, Id)[Len(work) + 1] = Id
      BY <3>1
    <3> QED BY <3>2, <3>3
  <2>3. ASSUME NEW i \in DOMAIN Numbered, NEW c \in Class, Final(i, c)', next'[i][c] = None
        PROVE  Targets(nfa.edges, Numbered[i], Rep(c)) = {}
    <3>1. \A q \in DOMAIN work : work[q] # i
      BY <2>2, <2>3 DEF Final
    <3>2. i \in DOMAIN sets
      BY <1>1, <2>2, <2>3, Numbering DEF Final
    <3>3. Final(i, c) /\ next[i][c] = None
      <4>1. CASE SeedState
        <5>1. cl' = cl /\ next' = Rows
          BY <4>1 DEF SeedState
        <5> QED BY <1>1, <2>1, <2>3, <3>1, <3>2, <5>1, Numbering DEF Final
      <4>2. CASE Target
        <5> DEFINE r == [Rows EXCEPT ![cur][cl] = Id]
        <5>1. cl' = cl + 1 /\ next' = r
          BY <4>2 DEF Target
        <5>2. cur \in DOMAIN sets /\ cl \in Class
          BY <1>1, <4>2 DEF Target, Shape, Control, TypeOK, Class
        <5>3. /\ r[cur][cl] = Id
              /\ \A k \in DOMAIN Numbered : \A d \in Class :
                     <<k, d>> # <<cur, cl>> => r[k][d] = Rows[k][d]
          BY <1>1, <5>2, RowSet
        <5> HIDE DEF r
        <5>4. Id # None
          <6>1. Id \in DOMAIN Numbered /\ Numbered \in Seq(SUBSET NfaState)
            BY <1>1, Numbering
          <6> QED BY <6>1 DEF None
        <5>5. ~(i = cur /\ c = cl)
          BY <2>3, <5>1, <5>3, <5>4
        <5>6. r[i][c] = next[i][c]
          BY <1>1, <3>2, <5>3, <5>5, Numbering
        <5> QED BY <1>1, <2>1, <2>3, <3>1, <5>1, <5>5, <5>6 DEF Final
      <4> QED BY <1>7, <4>1, <4>2
    <3>4. Led(i, c) = {}
      BY <3>2, <3>3 DEF RowsComplete
    <3> QED BY <1>1, <3>2, <3>4, Numbering DEF Led
  <2>4. Class' = Class /\ \A c : Rep(c)' = Rep(c)
    BY <2>1 DEF Class, Rep
  <2> QED BY <2>1, <2>3, <2>4 DEF RowsComplete, Led
<1> QED BY <1>3, <1>4, <1>5, <1>6, <1>7 DEF Next, Build

-----------------------------------------------------------------------------
(* Meta classes.                                                           *)
LEMMA MetaStep ==
    ASSUME Shape, MetaExact, [Next]_vars
    PROVE  MetaExact'
<1>1. /\ TypeOK /\ N \in Nat /\ nfa.nclasses \in 1 .. N /\ cl \in Nat /\ nmeta \in Nat
      /\ cl \in 0 .. nfa.nclasses
  <2>1. nfa.nclasses \in 1 .. N /\ N \in Nat
    BY NfaFacts, NfaAssumption DEF Shape, TypeOK
  <2> QED BY <2>1 DEF Shape, TypeOK
<1>2. CASE Finish
  <2>1. nmeta' = 0 /\ (pc' = "meta" => cl' = 0)
    BY <1>2 DEF Finish, Shape, Control, Building
  <2> QED BY <2>1 DEF MetaExact
<1>3. CASE MetaKnown \/ MetaNew
  <2>1. /\ pc = "meta" /\ cl \in Class /\ cl < nfa.nclasses /\ cl' = cl + 1
        /\ next' = next /\ meta \in [Class -> Byte]
    BY <1>1, <1>3 DEF MetaKnown, MetaNew, Class, TypeOK, buildVars
  <2>2. /\ \A c \in 0 .. cl - 1 : \A d \in 0 .. cl - 1 : meta[c] = meta[d] <=> SameColumn(c, d)
        /\ nmeta <= cl
        /\ \A c \in 0 .. cl - 1 : meta[c] < nmeta
        /\ \A m \in 0 .. nmeta - 1 : \E c \in 0 .. cl - 1 : meta[c] = m
    BY <2>1 DEF MetaExact, SameColumn
  <2>3. \A c \in 0 .. cl - 1 : c \in Class /\ meta[c] \in Nat
    BY <1>1, <2>1 DEF Class, Byte
  <2>4. /\ \A c : SameColumn(c, c)
        /\ \A c : \A d : SameColumn(c, d) => SameColumn(d, c)
        /\ \A c : \A d : \A e : SameColumn(c, d) /\ SameColumn(d, e) => SameColumn(c, e)
    BY DEF SameColumn
  <2>6. cl' - 1 = cl /\ \A c \in 0 .. cl' - 1 : c \in 0 .. cl - 1 \/ c = cl
    BY <1>1, <2>1
  <2>7. ASSUME NEW x \in Nat, meta' = [meta EXCEPT ![cl] = x],
               \A d \in 0 .. cl - 1 : meta[d] = x <=> SameColumn(d, cl)
        PROVE  /\ meta'[cl] = x /\ \A c \in 0 .. cl - 1 : meta'[c] = meta[c]
               /\ \A c \in 0 .. cl' - 1 : \A d \in 0 .. cl' - 1 :
                      meta'[c] = meta'[d] <=> SameColumn(c, d)
    <3>1. meta'[cl] = x /\ \A c \in 0 .. cl - 1 : meta'[c] = meta[c]
      BY <1>1, <2>1, <2>3, <2>7
    <3>2. ASSUME NEW c \in 0 .. cl' - 1, NEW d \in 0 .. cl' - 1
          PROVE  meta'[c] = meta'[d] <=> SameColumn(c, d)
      <4>1. CASE c = cl /\ d = cl
        BY <2>4, <4>1
      <4>2. CASE c = cl /\ d \in 0 .. cl - 1
        BY <2>4, <2>7, <3>1, <4>2
      <4>3. CASE c \in 0 .. cl - 1 /\ d = cl
        BY <2>7, <3>1, <4>3
      <4>4. CASE c \in 0 .. cl - 1 /\ d \in 0 .. cl - 1
        BY <2>2, <3>1, <4>4
      <4> QED BY <2>6, <4>1, <4>2, <4>3, <4>4
    <3> QED BY <3>1, <3>2
  <2>8. CASE MetaKnown
    <3>1. PICK e \in 0 .. cl - 1 : SameColumn(e, cl) /\ meta' = [meta EXCEPT ![cl] = meta[e]]
      BY <2>8 DEF MetaKnown
    <3>2. \A d \in 0 .. cl - 1 : meta[d] = meta[e] <=> SameColumn(d, cl)
      BY <2>2, <2>4, <3>1
    <3>3. nmeta' = nmeta /\ meta[e] < nmeta /\ meta[e] \in Nat
      BY <2>2, <2>3, <2>8 DEF MetaKnown
    <3>4. /\ meta'[cl] = meta[e] /\ \A c \in 0 .. cl - 1 : meta'[c] = meta[c]
          /\ \A c \in 0 .. cl' - 1 : \A d \in 0 .. cl' - 1 :
                 meta'[c] = meta'[d] <=> SameColumn(c, d)
      BY <2>7, <3>1, <3>2, <3>3
    <3>5. nmeta' <= cl' /\ \A c \in 0 .. cl' - 1 : meta'[c] < nmeta'
      BY <1>1, <2>1, <2>2, <2>6, <3>3, <3>4
    <3>6. \A m \in 0 .. nmeta' - 1 : \E c \in 0 .. cl' - 1 : meta'[c] = m
      BY <1>1, <2>1, <2>2, <2>6, <3>3, <3>4
    <3> QED BY <2>1, <3>4, <3>5, <3>6 DEF MetaExact, SameColumn
  <2>9. CASE MetaNew
    <3>1. /\ \A d \in 0 .. cl - 1 : ~SameColumn(d, cl)
          /\ meta' = [meta EXCEPT ![cl] = nmeta % N] /\ nmeta' = nmeta + 1
      BY <2>9 DEF MetaNew
    <3>2. nmeta % N = nmeta
      BY <1>1, <2>1, <2>2
    <3>3. \A d \in 0 .. cl - 1 : meta[d] = nmeta <=> SameColumn(d, cl)
      BY <1>1, <2>2, <2>3, <3>1
    <3>4. /\ meta'[cl] = nmeta /\ \A c \in 0 .. cl - 1 : meta'[c] = meta[c]
          /\ \A c \in 0 .. cl' - 1 : \A d \in 0 .. cl' - 1 :
                 meta'[c] = meta'[d] <=> SameColumn(c, d)
      BY <1>1, <2>7, <3>1, <3>2, <3>3
    <3>5. nmeta' <= cl' /\ \A c \in 0 .. cl' - 1 : meta'[c] < nmeta'
      BY <1>1, <2>1, <2>2, <2>3, <2>6, <3>1, <3>4
    <3>6. ASSUME NEW m \in 0 .. nmeta' - 1 PROVE \E c \in 0 .. cl' - 1 : meta'[c] = m
      <4>1. CASE m = nmeta
        BY <1>1, <2>6, <3>4, <4>1
      <4>2. CASE m \in 0 .. nmeta - 1
        <5>1. PICK c \in 0 .. cl - 1 : meta[c] = m
          BY <2>2, <4>2
        <5> QED BY <1>1, <2>6, <3>4, <5>1
      <4> QED BY <1>1, <3>1, <3>6, <4>1, <4>2
    <3> QED BY <2>1, <3>4, <3>5, <3>6 DEF MetaExact, SameColumn
  <2> QED BY <1>3, <2>8, <2>9
<1>4. CASE UNCHANGED vars
  BY <1>4 DEF vars, buildVars, metaVars, MetaExact, SameColumn
<1>5. ASSUME Seed \/ Take \/ Step \/ Close \/ SeedState \/ NoTarget \/ Target \/ MetaDone
             \/ Begin \/ Read
      PROVE  pc' # "meta"
  BY <1>5 DEF Seed, Take, Step, Enter, Close, SeedState, NoTarget, Target, MetaDone, Begin, Read
<1> QED BY <1>2, <1>3, <1>4, <1>5 DEF Next, Build, MetaExact

-----------------------------------------------------------------------------
(* The invariant, and what follows from it.                                *)
LEMMA Initially == Init => IInv
<1> SUFFICES ASSUME Init PROVE IInv
  OBVIOUS
<1>1. DOMAIN sets = {} /\ DOMAIN cond_starts = {} /\ pc = "loop"
  BY DEF Init
<1>2. TableInv
  BY <1>1 DEF TableInv, SetsDistinct, SetsLive, StartsExact, RowsSound, StatesReached
<1>3. Closing /\ RowsComplete /\ MetaExact
  BY <1>1 DEF Closing, RowsComplete, MetaExact
<1> QED BY <1>2, <1>3, InitShape DEF IInv

LEMMA Inductive == IInv /\ [Next]_vars => IInv'
<1> SUFFICES ASSUME IInv, [Next]_vars PROVE IInv'
  OBVIOUS
<1>1. Shape /\ Closing /\ TableInv /\ RowsComplete /\ MetaExact
  BY DEF IInv
<1>2. Shape' /\ MetaExact'
  BY <1>1, ShapeStep, MetaStep
<1>3. Closing' /\ TableInv' /\ RowsComplete'
  BY <1>1, ClosingStep, TableInvStep, RowsCompleteStep
<1> QED BY <1>2, <1>3 DEF IInv

(* Every reachable state of build_dfa() and of the walk satisfies the      *)
(* inductive invariant.                                                    *)
THEOREM Invariance == Spec => []IInv
BY Initially, Inductive, PTL DEF Spec

(* eps_closure() returns all the states that epsilon edges reach, however  *)
(* they run in circles, and no other.                                      *)
THEOREM ClosureComputed == Spec => []ClosureExact
<1>1. IInv => ClosureExact
  BY ClosedExactly DEF IInv, ClosureExact
<1> QED BY <1>1, Invariance, PTL

(* No set gets two numbers from get_state().                               *)
THEOREM NumberedOnce == Spec => []SetsDistinct
<1>1. IInv => SetsDistinct
  BY DEF IInv, TableInv
<1> QED BY <1>1, Invariance, PTL

(* build_dfa() makes no state that no start state leads to.                *)
THEOREM AllReached == Spec => []StatesReached
<1>1. IInv => StatesReached
  BY DEF IInv, TableInv
<1> QED BY <1>1, Invariance, PTL

(* A transition of the finished table, for a state and a byte.             *)
LEMMA FinishedRow ==
    ASSUME IInv, ~Building, NEW i \in DOMAIN sets, NEW b \in Byte
    PROVE  LET n == Run!Closure(nfa.edges, Run!Moved(nfa.edges, sets[i], b))
               t == Transition(i, b)
           IN  /\ n = {} => t = None
               /\ n # {} => t \in DOMAIN sets /\ sets[t] = n
<1> DEFINE c == nfa.ec[b]
           n == Run!Closure(nfa.edges, Run!Moved(nfa.edges, sets[i], b))
           t == next[i][c]
<1>1. TypeOK /\ nfa \in Nfas /\ work = <<>> /\ c \in Class
  BY NfaFacts DEF IInv, Shape, TypeOK, Control, Class
<1>2. Led(i, c) = Run!Moved(nfa.edges, sets[i], b)
  BY <1>1, TargetsOfClass, TargetsMoved DEF Led
<1>3. n = Run!Closure(nfa.edges, Led(i, c))
  BY <1>2
<1>4. t = None => n = {}
  <2>1. Final(i, c)
    BY <1>1 DEF Final
  <2> QED BY <1>1, <1>3, <2>1, ClosureOfNone DEF IInv, RowsComplete
<1>5. t # None => t \in DOMAIN sets /\ sets[t] = n
  BY <1>1, <1>3, NumberKept DEF IInv, TableInv, RowsSound
<1>6. t # None => n # {}
  BY <1>5 DEF IInv, TableInv, SetsLive
<1> HIDE DEF n
<1>7. (n = {} => t = None) /\ (n # {} => t \in DOMAIN sets /\ sets[t] = n)
  BY <1>4, <1>5, <1>6
<1> QED BY <1>7 DEF n, Transition

(* The row of a state is right for every byte, not only for those that     *)
(* stood for their class in build_dfa(), and no row is left out.           *)
THEOREM RowsAreExact == Spec => []RowsExact
<1>1. IInv => RowsExact
  <2> SUFFICES ASSUME IInv, pc \in {"meta", "walk"}, NEW i \in DOMAIN sets, NEW b \in Byte
               PROVE  LET n == Run!Closure(nfa.edges, Run!Moved(nfa.edges, sets[i], b))
                          t == Transition(i, b)
                      IN  IF n = {} THEN t = None ELSE t # None /\ sets[t] = n
    BY DEF RowsExact
  <2>1. ~Building /\ \A d \in DOMAIN sets : d # None
    BY DEF Building, IInv, Shape, TypeOK, None
  <2> QED BY <2>1, FinishedRow
<1> QED BY <1>1, Invariance, PTL

(* compute_meta_classes() puts classes together iff no state tells them    *)
(* apart, with numbers that a uint8_t holds.                               *)
THEOREM MetaClassesExact == Spec => []MetaExact
<1>1. IInv => MetaExact
  BY DEF IInv
<1> QED BY <1>1, Invariance, PTL

(* A number stays that of its set and a transition, once set, stays, also  *)
(* when build_dfa() computes a row for the second time.                    *)
THEOREM NumbersDoStay == Spec => NumbersStay
<1> DEFINE Stay ==
      /\ \A i \in DOMAIN sets : i \in DOMAIN sets' /\ sets'[i] = sets[i]
      /\ \A i \in DOMAIN next : \A c \in Class :
             next[i][c] # None => next'[i][c] = next[i][c]
<1>1. ASSUME IInv, Next PROVE Stay
  <2>1. TypeOK /\ DOMAIN next = DOMAIN sets
    BY <1>1 DEF IInv, Shape, TypeOK
  <2>2. CASE SeedState
    BY <2>1, <2>2, Numbering DEF SeedState
  <2>3. CASE Target
    <3> DEFINE r == [Rows EXCEPT ![cur][cl] = Id]
    <3>1. cur \in DOMAIN sets /\ cl \in Class
      <4>1. cl < nfa.nclasses
        BY <1>1, <2>3 DEF Target, IInv, Shape, Control
      <4>2. nfa.nclasses \in 1 .. N /\ N \in Nat
        BY <2>1, NfaFacts, NfaAssumption DEF TypeOK
      <4> QED BY <2>1, <2>3, <4>1, <4>2 DEF Target, TypeOK, Class
    <3>2. /\ r[cur][cl] = Id
          /\ \A i \in DOMAIN Numbered : \A c \in Class :
                 <<i, c>> # <<cur, cl>> => r[i][c] = Rows[i][c]
      BY <2>1, <3>1, RowSet
    <3>3. sets' = Numbered /\ next' = r
      BY <2>3 DEF Target
    <3> HIDE DEF r
    <3>4. ASSUME NEW i \in DOMAIN sets, NEW c \in Class, next[i][c] # None
          PROVE  r[i][c] = next[i][c]
      <4>1. CASE i = cur /\ c = cl
        BY <1>1, <2>3, <3>2, <3>4, <4>1, SetAgain DEF IInv, TableInv
      <4>2. CASE ~(i = cur /\ c = cl)
        BY <2>1, <3>2, <4>2, Numbering
      <4> QED BY <4>1, <4>2
    <3> QED BY <2>1, <3>3, <3>4, Numbering
  <2>4. CASE Seed \/ Take \/ Step \/ Close \/ NoTarget \/ Finish \/ MetaKnown \/ MetaNew
             \/ MetaDone \/ Begin \/ Read
    <3>1. UNCHANGED <<sets, next>>
      BY <2>4 DEF Seed, Take, Step, Close, NoTarget, Finish, MetaKnown, MetaNew, MetaDone,
                  Begin, Read, buildVars
    <3> QED BY <3>1
  <2> QED BY <1>1, <2>2, <2>3, <2>4 DEF Next, Build
<1>2. IInv /\ [Next]_vars => [Stay]_vars
  BY <1>1
<1> QED BY <1>2, Invariance, PTL DEF Spec, NumbersStay

-----------------------------------------------------------------------------
(* The scanner's walk over the table is a walk of the NFA.                 *)
LEMMA BeginImplements == IInv /\ Begin => Run!Begin /\ UNCHANGED nfa
<1> SUFFICES ASSUME IInv, Begin PROVE Run!Begin /\ UNCHANGED nfa
  OBVIOUS
<1>1. TypeOK /\ ~Building /\ Len(cond_starts) = Len(nfa.starts)
  BY DEF IInv, Shape, Control, Building, AllSeeded, Begin
<1>2. nfa.starts \in Seq(NfaState)
  BY <1>1, NfaFacts DEF TypeOK
<1>3. PICK k \in DOMAIN cond_starts : at' = cond_starts[k] /\ last' = <<"start", k>>
  BY DEF Begin
<1>4. k \in DOMAIN nfa.starts
  <2>1. cond_starts \in Seq(DOMAIN sets)
    BY <1>1 DEF TypeOK
  <2> QED BY <1>1, <1>2, <1>3, <2>1
<1>5. at' \in DOMAIN sets /\ at' # None
  BY <1>1, <1>3, StartKept DEF TypeOK, None
<1>6. UNCHANGED <<nfa, sets>>
  BY DEF Begin, buildVars
<1>7. Reached' = sets[at']
  BY <1>5, <1>6 DEF Reached
<1>8. sets[at'] = Run!Closure(nfa.edges, {nfa.starts[k]})
  BY <1>3 DEF IInv, TableInv, StartsExact, Start
<1> QED BY <1>3, <1>4, <1>6, <1>7, <1>8 DEF Run!Begin

LEMMA ReadImplements == IInv /\ Read => Run!Read /\ UNCHANGED nfa
<1> SUFFICES ASSUME IInv, Read PROVE Run!Read /\ UNCHANGED nfa
  OBVIOUS
<1>1. TypeOK /\ ~Building /\ at # None /\ at \in DOMAIN sets
  BY DEF IInv, Shape, TypeOK, Building, Read
<1>2. PICK b \in Byte : at' = Transition(at, b) /\ last' = <<"byte", b>>
  BY DEF Read
<1>3. UNCHANGED <<nfa, sets>>
  BY DEF Read, buildVars
<1> DEFINE n == Run!Closure(nfa.edges, Run!Moved(nfa.edges, sets[at], b))
<1>4. (n = {} => at' = None) /\ (n # {} => at' \in DOMAIN sets /\ sets[at'] = n)
  BY <1>1, <1>2, FinishedRow
<1>5. \A d \in DOMAIN sets : d # None
  BY <1>1 DEF TypeOK, None
<1> HIDE DEF n
<1>6. Reached' = n
  BY <1>3, <1>4, <1>5 DEF Reached
<1>7. Reached = sets[at] /\ Reached # {}
  BY <1>1 DEF Reached, IInv, TableInv, SetsLive
<1> QED BY <1>2, <1>3, <1>6, <1>7 DEF n, Run!Read

(* The generated scanner, on the tables build_dfa() returns, is after      *)
(* every byte in the set of states that the NFA is in, and stops when and  *)
(* only when the NFA has nowhere to go.                                    *)
THEOREM TableFollowsNfa == Spec => FollowsNfa
<1>1. Init => Run!Init
  BY DEF Init, Run!Init, Reached
<1>2. IInv /\ [Next]_vars => [Run!Next]_<<nfa, Reached, last>>
  <2> SUFFICES ASSUME IInv, [Next]_vars PROVE [Run!Next]_<<nfa, Reached, last>>
    OBVIOUS
  <2>1. CASE Begin
    BY <2>1, BeginImplements DEF Run!Next
  <2>2. CASE Read
    BY <2>2, ReadImplements DEF Run!Next
  <2>3. CASE Build
    <3>1. at = None
      BY <2>3 DEF IInv, Shape, Control, Build, Seed, Take, Step, Close, SeedState, NoTarget,
                  Target, Finish, MetaKnown, MetaNew, MetaDone
    <3>2. at' = at /\ last' = last /\ nfa' = nfa
      BY <2>3 DEF Build, Seed, Take, Step, Close, SeedState, NoTarget, Target, Finish,
                  MetaKnown, MetaNew, MetaDone, walkVars
    <3> QED BY <3>1, <3>2 DEF Reached
  <2>4. CASE UNCHANGED vars
    BY <2>4 DEF vars, buildVars, walkVars, Reached
  <2> QED BY <2>1, <2>2, <2>3, <2>4 DEF Next
<1> QED BY <1>1, <1>2, Invariance, PTL DEF Spec, Run!Spec, FollowsNfa
=============================================================================
