--------------------------- MODULE ScanMatchProofs ---------------------------
(***************************************************************************)
(* For every number of rules, every length and every walk: both bodies of  *)
(* yylex() run the best match first, REJECT goes on in order, and the text *)
(* ends where the head of its rule does.                                   *)
(***************************************************************************)
EXTENDS ScanMatch, TLAPS

-----------------------------------------------------------------------------
(* What a walk leaves in a variable: the last value that is not None of    *)
(* f[0] .. f[n], with its index; or the last index in a set.               *)
LastSeen(f, n, x, l) ==
    /\ l \in 0 .. n /\ x = f[l]
    /\ \A k \in l + 1 .. n : f[k] = None
    /\ x = None => l = 0
LastIn(S, n, l) ==
    \/ l = None /\ \A k \in 0 .. n : k \notin S
    \/ l \in 0 .. n /\ l \in S /\ \A k \in l + 1 .. n : k \notin S

CountsOf(w, r) == {k \in 0 .. w.n : r \in w.list[k] /\ (r \in w.dollar => w.at_eol[k])}
HeadsOf(w, r) == {k \in 0 .. w.n : r \in w.heads[k]}

(* The ordinary body has its candidates, and runs the one it chose.        *)
OrdinaryInv ==
    ~uses_reject =>
        /\ LastSeen(walk.normal, scan, acc_n, acc_n_len)
        /\ LastSeen(walk.eol, scan, acc_e, acc_e_len)
        /\ \A r \in Rule : LastIn(HeadsOf(walk, r), scan, boundary[r])
        /\ pc # "action" => tried = <<>>
        /\ pc = "action" => tried = << <<rule, len>> >> /\ OrdinaryChoice = <<rule, len>>
        /\ pc = "none" => OrdinaryChoice = <<None, 0>>

(* The REJECT body: the first n rules of t are out, the others have their  *)
(* longest match in m; t is in order and nothing left in m beats it.       *)
Longest(w, m) ==
    /\ m[2] > 0 /\ m[2] \in CountsOf(w, m[1])
    /\ \A k \in CountsOf(w, m[1]) : k <= m[2]
Gone(t, n, r) == \E i \in 1 .. n : t[i][1] = r
InOrder(t) == \A i \in 1 .. Len(t) : \A j \in 1 .. i - 1 :
                  Beats(t[j], t[i][1], t[i][2]) /\ t[j][1] # t[i][1]
Fallback(w, m, t, n) ==
    /\ \A r \in Rule : IF Gone(t, n, r) THEN m[r] = None ELSE LastIn(CountsOf(w, r), w.n, m[r])
    /\ \A i \in 1 .. Len(t) : Longest(w, t[i])
    /\ InOrder(t)
    /\ \A i \in 1 .. Len(t), r \in Rule : m[r] > 0 => Beats(t[i], r, m[r])
RejectInv ==
    uses_reject =>
        /\ \A r \in Rule : walk.trail[r] # Variable
        /\ pc = "walk" => /\ tried = <<>>
                          /\ \A r \in Rule : LastIn(CountsOf(walk, r), scan, match_lens[r])
        /\ pc \in {"choose", "none"} => Fallback(walk, match_lens, tried, Len(tried))
        /\ pc = "action" => /\ Fallback(walk, match_lens, tried, Len(tried) - 1)
                            /\ Len(tried) > 0 /\ tried[Len(tried)] = <<rule, len>>
        /\ pc = "none" => \A r \in Rule : match_lens[r] <= 0

TextInv == pc = "action" => rule \in Rule /\ text = TextLength(rule, len)

IInv == /\ TypeOK /\ walk \in Walks
        /\ pc # "walk" => scan = walk.n
        /\ OrdinaryInv /\ RejectInv /\ TextInv

-----------------------------------------------------------------------------
(* One byte more.                                                          *)
LEMMA LastSeenStep ==
    ASSUME NEW f, NEW n \in Nat, NEW x, NEW l, LastSeen(f, n, x, l)
    PROVE  IF f[n + 1] # None THEN LastSeen(f, n + 1, f[n + 1], n + 1)
           ELSE LastSeen(f, n + 1, x, l)
BY DEF LastSeen, None

LEMMA LastInStep ==
    ASSUME NEW S, NEW n \in Nat, NEW l, LastIn(S, n, l)
    PROVE  IF n + 1 \in S THEN LastIn(S, n + 1, n + 1) ELSE LastIn(S, n + 1, l)
BY DEF LastIn, None

(* What is known of a walk.                                                *)
LEMMA WalkFacts ==
    ASSUME NEW w \in Walks
    PROVE  /\ w \in WalkType /\ Consistent(w) /\ w.n \in Nat /\ w.n <= MaxLength
           /\ w.list \in [Length -> SUBSET Rule]
           /\ w.normal \in [Length -> Rule \cup {None}] /\ w.eol \in [Length -> Rule \cup {None}]
           /\ w.at_eol \in [Length -> BOOLEAN] /\ w.trail \in [Rule -> Length \cup {Variable}]
           /\ NRules \in Nat /\ MaxLength \in Nat
BY WalkAssumption DEF WalkType, Length

(* f[k] is the first rule of S that accepts after k bytes.                 *)
FirstsOf(w, f, S) == \A k \in 0 .. w.n : IsFirst(f[k], w.list[k] \cap S)

(* x is the last candidate among the rules of S, and at l.                 *)
BestOf(w, S, x, l) ==
    /\ x # None => x \in w.list[l] /\ x \in S
    /\ \A r \in Rule, k \in 0 .. w.n :
          r \in w.list[k] /\ r \in S => x # None /\ k <= l /\ (k = l => x <= r)

(* The last rule seen is the first of those that match at the last place   *)
(* where any does.                                                         *)
LEMMA LastIsBest ==
    ASSUME NEW w \in Walks, NEW f, NEW S, NEW x, NEW l, LastSeen(f, w.n, x, l),
           FirstsOf(w, f, S)
    PROVE  BestOf(w, S, x, l)
<1>1. w.n \in Nat /\ Rule \subseteq Nat
  BY WalkFacts DEF Rule
<1>2. l \in 0 .. w.n /\ x = f[l] /\ (\A k \in l + 1 .. w.n : f[k] = None) /\ (x = None => l = 0)
  BY DEF LastSeen
<1>3. x # None => x \in w.list[l] /\ x \in S
  BY <1>2 DEF FirstsOf, IsFirst
<1>4. ASSUME NEW r \in Rule, NEW k \in 0 .. w.n, r \in w.list[k], r \in S
      PROVE  x # None /\ k <= l /\ (k = l => x <= r)
  <2>1. f[k] # None /\ f[k] <= r /\ f[k] \in w.list[k]
    <3>1. r \in w.list[k] \cap S
      BY <1>4
    <3>2. f[k] \in w.list[k] \cap S /\ f[k] <= r
      BY <3>1 DEF FirstsOf, IsFirst
    <3>3. f[k] # None
      <4>1. w.list[k] \subseteq Rule
        <5>1. k \in Length /\ w.list \in [Length -> SUBSET Rule]
          BY <1>1, WalkFacts DEF Length
        <5> QED
          BY <5>1
      <4> QED
        BY <4>1, <3>2, <1>1 DEF None
    <3> QED
      BY <3>2, <3>3
  <2>2. k <= l
    BY <2>1, <1>1, <1>2
  <2>3. x # None
    BY <2>1, <2>2, <1>1, <1>2
  <2> QED
    BY <2>1, <2>2, <2>3, <1>2
<1> QED
  BY <1>3, <1>4 DEF BestOf

(* The best of what is left joins the matches tried.                       *)
LEMMA FallbackTake ==
    ASSUME NEW w \in Walks, NEW m \in [Rule -> 0 .. w.n \cup {None}],
           NEW t \in Seq(Rule \X Length), NEW r \in Rule,
           Fallback(w, m, t, Len(t)), m[r] > 0,
           \A q \in Rule : m[q] < m[r] \/ (m[q] = m[r] /\ r <= q)
    PROVE  /\ Append(t, <<r, m[r]>>) \in Seq(Rule \X Length)
           /\ Fallback(w, m, Append(t, <<r, m[r]>>), Len(Append(t, <<r, m[r]>>)) - 1)
           /\ Len(Append(t, <<r, m[r]>>)) > 0
           /\ Append(t, <<r, m[r]>>)[Len(Append(t, <<r, m[r]>>))] = <<r, m[r]>>
<1> DEFINE u == Append(t, <<r, m[r]>>)
<1>0. w.n \in Nat /\ w.n <= MaxLength /\ MaxLength \in Nat /\ Rule \subseteq Nat
  BY WalkFacts DEF Rule
<1>1. w.n \in Nat /\ w.n <= MaxLength /\ MaxLength \in Nat /\ Rule \subseteq Nat /\ m[r] \in 1 .. w.n
  BY <1>0 DEF None
<1>2. Len(t) \in Nat /\ u \in Seq(Rule \X Length) /\ Len(u) = Len(t) + 1 /\ u[Len(u)] = <<r, m[r]>>
      /\ \A i \in 1 .. Len(t) : u[i] = t[i] /\ t[i] \in Rule \X Length
  BY <1>1 DEF Length
<1> HIDE DEF u
<1>3. \A q \in Rule : IF Gone(u, Len(u) - 1, q) THEN m[q] = None
                       ELSE LastIn(CountsOf(w, q), w.n, m[q])
  <2>0. Len(u) - 1 = Len(t)
    BY <1>2
  <2>1. \A q \in Rule : Gone(u, Len(u) - 1, q) <=> Gone(t, Len(t), q)
    <3>1. \A i \in 1 .. Len(t) : u[i] = t[i]
      BY <1>2
    <3> QED
      BY <2>0, <3>1, Zenon DEF Gone
  <2> QED
    BY <2>1 DEF Fallback
<1>4. Longest(w, <<r, m[r]>>)
  <2>1. ~Gone(t, Len(t), r)
    BY <1>1 DEF Fallback, None
  <2>2. LastIn(CountsOf(w, r), w.n, m[r])
    BY <2>1 DEF Fallback
  <2>3. CountsOf(w, r) \subseteq 0 .. w.n
    BY DEF CountsOf
  <2>4. m[r] \in CountsOf(w, r) /\ \A k \in CountsOf(w, r) : k <= m[r]
    BY <1>1, <2>2, <2>3 DEF LastIn, None
  <2> QED
    BY <2>4 DEF Longest
<1>5. \A i \in 1 .. Len(u) : Longest(w, u[i])
  BY <1>2, <1>4 DEF Fallback
<1>6. \A j \in 1 .. Len(t) : Beats(t[j], r, m[r]) /\ t[j][1] # r
  <2> SUFFICES ASSUME NEW j \in 1 .. Len(t)
               PROVE  Beats(t[j], r, m[r]) /\ t[j][1] # r
    OBVIOUS
  <2>1. Beats(t[j], r, m[r])
    BY DEF Fallback
  <2>2. Gone(t, Len(t), t[j][1])
    BY DEF Gone
  <2>3. t[j][1] \in Rule
    BY <1>2
  <2>4. m[t[j][1]] = None
    BY <2>2, <2>3 DEF Fallback
  <2> QED
    BY <2>1, <2>4, <1>1 DEF None
<1>7. InOrder(u)
  <2> SUFFICES ASSUME NEW i \in 1 .. Len(u), NEW j \in 1 .. i - 1
               PROVE  Beats(u[j], u[i][1], u[i][2]) /\ u[j][1] # u[i][1]
    BY DEF InOrder
  <2>0. j \in 1 .. Len(t) /\ u[j] = t[j]
    BY <1>2
  <2>1. CASE i = Len(u)
    <3>1. u[i][1] = r /\ u[i][2] = m[r]
      BY <2>1, <1>2
    <3> QED
      BY <2>0, <3>1, <1>6
  <2>2. CASE i # Len(u)
    <3>1. i \in 1 .. Len(t) /\ u[i] = t[i]
      BY <2>2, <1>2
    <3> QED
      BY <3>1, <2>0 DEF Fallback, InOrder
  <2> QED
    BY <2>1, <2>2
<1>8. \A i \in 1 .. Len(u), q \in Rule : m[q] > 0 => Beats(u[i], q, m[q])
  <2> SUFFICES ASSUME NEW i \in 1 .. Len(u), NEW q \in Rule, m[q] > 0
               PROVE  Beats(u[i], q, m[q])
    OBVIOUS
  <2>1. CASE i = Len(u)
    <3>1. u[i][1] = r /\ u[i][2] = m[r]
      BY <2>1, <1>2
    <3> QED
      BY <3>1, <1>1 DEF Beats
  <2>2. CASE i # Len(u)
    <3>1. i \in 1 .. Len(t) /\ u[i] = t[i]
      BY <2>2, <1>2
    <3> QED
      BY <3>1 DEF Fallback
  <2> QED
    BY <2>1, <2>2
<1>9. Fallback(w, m, u, Len(u) - 1)
  BY <1>3, <1>5, <1>7, <1>8 DEF Fallback
<1> QED
  BY <1>2, <1>9 DEF u

(* The rule tried last is rejected.                                        *)
LEMMA FallbackReject ==
    ASSUME NEW w \in Walks, NEW m \in [Rule -> 0 .. w.n \cup {None}],
           NEW t \in Seq(Rule \X Length), NEW r \in Rule, Len(t) > 0,
           Fallback(w, m, t, Len(t) - 1), t[Len(t)][1] = r
    PROVE  Fallback(w, [m EXCEPT ![r] = None], t, Len(t))
<1> DEFINE v == [m EXCEPT ![r] = None]
<1>1. v[r] = None /\ \A q \in Rule : q # r => v[q] = m[q]
  OBVIOUS
<1>2. Len(t) \in Nat
  OBVIOUS
<1> HIDE DEF v
<1>3. \A q \in Rule : Gone(t, Len(t), q) <=> (q = r \/ Gone(t, Len(t) - 1, q))
  BY <1>2 DEF Gone
<1>4. \A q \in Rule : IF Gone(t, Len(t), q) THEN v[q] = None
                       ELSE LastIn(CountsOf(w, q), w.n, v[q])
  BY <1>1, <1>3 DEF Fallback
<1>5. \A i \in 1 .. Len(t), q \in Rule : v[q] > 0 => Beats(t[i], q, v[q])
  <2> SUFFICES ASSUME NEW i \in 1 .. Len(t), NEW q \in Rule, v[q] > 0
               PROVE  Beats(t[i], q, v[q])
    OBVIOUS
  <2>1. q # r
    BY <1>1 DEF None
  <2>2. v[q] = m[q]
    BY <2>1, <1>1
  <2>3. \A j \in 1 .. Len(t), p \in Rule : m[p] > 0 => Beats(t[j], p, m[p])
    BY DEF Fallback
  <2> QED
    BY <2>2, <2>3
<1>6. Fallback(w, v, t, Len(t))
  BY <1>4, <1>5 DEF Fallback
<1> QED
  BY <1>6 DEF v

-----------------------------------------------------------------------------
(* What Init leaves in the variables.                                      *)
LEMMA InitInv == Init => IInv
<1> SUFFICES ASSUME Init PROVE IInv
  OBVIOUS
<1>1. /\ walk \in Walks /\ uses_reject \in BOOLEAN
      /\ uses_reject => \A r \in Rule : walk.trail[r] # Variable
      /\ scan = 0 /\ acc_n = walk.normal[0] /\ acc_n_len = 0
      /\ acc_e = walk.eol[0] /\ acc_e_len = 0
      /\ boundary = [r \in Rule |-> IF r \in walk.heads[0] THEN 0 ELSE None]
      /\ match_lens = [r \in Rule |-> IF Counts(r, 0) THEN 0 ELSE None]
      /\ rule = None /\ len = 0 /\ text = 0 /\ tried = <<>> /\ pc = "walk"
  BY DEF Init
<1>2. /\ walk \in WalkType /\ walk.n \in Nat /\ 0 \in Length
      /\ walk.normal[0] \in Rule \cup {None} /\ walk.eol[0] \in Rule \cup {None}
  BY <1>1, WalkFacts DEF Length
<1>3. TypeOK
  <2>1. <<>> \in Seq(Rule \X Length)
    OBVIOUS
  <2>2. boundary \in [Rule -> 0 .. scan \cup {None}] /\ match_lens \in [Rule -> 0 .. scan \cup {None}]
    BY <1>1
  <2> QED
    BY <1>1, <1>2, <2>1, <2>2 DEF TypeOK
<1>4. OrdinaryInv
  <2>1. LastSeen(walk.normal, scan, acc_n, acc_n_len) /\ LastSeen(walk.eol, scan, acc_e, acc_e_len)
    BY <1>1 DEF LastSeen
  <2>2. ASSUME NEW r \in Rule PROVE LastIn(HeadsOf(walk, r), scan, boundary[r])
    <3>1. 0 \in HeadsOf(walk, r) <=> r \in walk.heads[0]
      BY <1>2 DEF HeadsOf
    <3> QED
      BY <3>1, <1>1 DEF LastIn, None
  <2> QED
    BY <1>1, <2>1, <2>2 DEF OrdinaryInv
<1>5. RejectInv
  <2>1. ASSUME NEW r \in Rule PROVE LastIn(CountsOf(walk, r), scan, match_lens[r])
    <3>1. 0 \in CountsOf(walk, r) <=> Counts(r, 0)
      BY <1>2 DEF CountsOf, Counts
    <3> QED
      BY <3>1, <1>1 DEF LastIn, None
  <2> QED
    BY <1>1, <2>1 DEF RejectInv
<1>6. TextInv
  BY <1>1 DEF TextInv
<1> QED
  BY <1>1, <1>3, <1>4, <1>5, <1>6 DEF IInv

(* The walk goes on.                                                       *)
LEMMA AdvanceInv == IInv /\ Advance => IInv'
<1> SUFFICES ASSUME IInv, Advance PROVE IInv'
  OBVIOUS
<1>1. /\ pc = "walk" /\ pc' = "walk" /\ scan < walk.n /\ scan' = scan + 1
      /\ uses_reject = FALSE /\ uses_reject' = FALSE /\ walk' = walk
      /\ boundary' = [r \in Rule |-> IF r \in walk.heads[scan + 1] THEN scan + 1 ELSE boundary[r]]
      /\ IF KeepNormal(scan + 1) THEN acc_n' = walk.normal[scan + 1] /\ acc_n_len' = scan + 1
         ELSE acc_n' = acc_n /\ acc_n_len' = acc_n_len
      /\ IF KeepEol(scan + 1) THEN acc_e' = walk.eol[scan + 1] /\ acc_e_len' = scan + 1
         ELSE acc_e' = acc_e /\ acc_e_len' = acc_e_len
      /\ match_lens' = match_lens /\ rule' = rule /\ len' = len /\ text' = text /\ tried' = tried
  BY DEF Advance, IInv, TypeOK
<1>2. /\ walk \in WalkType /\ walk.n \in Nat /\ scan \in Nat /\ scan + 1 \in 0 .. walk.n
      /\ scan + 1 \in Length
      /\ walk.normal[scan + 1] \in Rule \cup {None} /\ walk.eol[scan + 1] \in Rule \cup {None}
  <2>1. scan \in 0 .. walk.n /\ walk.n \in Nat /\ walk.n <= MaxLength /\ MaxLength \in Nat
    BY WalkFacts DEF IInv, TypeOK
  <2>2. scan + 1 \in 0 .. walk.n /\ scan + 1 \in Length
    BY <1>1, <2>1 DEF Length
  <2> QED
    BY <2>1, <2>2, WalkFacts DEF IInv
<1>3. TypeOK'
  <2>1. 0 .. scan \subseteq 0 .. scan + 1 /\ scan + 1 \in 0 .. scan + 1
    BY <1>2
  <2>2. boundary' \in [Rule -> 0 .. scan + 1 \cup {None}]
    BY <1>1, <2>1 DEF IInv, TypeOK
  <2>3. match_lens' \in [Rule -> 0 .. scan + 1 \cup {None}]
    BY <1>1, <2>1 DEF IInv, TypeOK
  <2>4. /\ acc_n' \in Rule \cup {None} /\ acc_n_len' \in 0 .. scan + 1
        /\ acc_e' \in Rule \cup {None} /\ acc_e_len' \in 0 .. scan + 1
    BY <1>1, <1>2, <2>1 DEF IInv, TypeOK
  <2>5. len' \in 0 .. scan + 1 /\ text' \in 0 .. scan + 1
    BY <1>1, <2>1 DEF IInv, TypeOK
  <2> QED
    BY <1>1, <1>2, <2>2, <2>3, <2>4, <2>5 DEF IInv, TypeOK
<1>4. LastSeen(walk.normal, scan + 1, acc_n', acc_n_len')
  BY <1>1, <1>2, LastSeenStep DEF IInv, OrdinaryInv, KeepNormal
<1>5. LastSeen(walk.eol, scan + 1, acc_e', acc_e_len')
  BY <1>1, <1>2, LastSeenStep DEF IInv, OrdinaryInv, KeepEol
<1>6. ASSUME NEW r \in Rule PROVE LastIn(HeadsOf(walk, r), scan + 1, boundary'[r])
  <2>1. scan + 1 \in HeadsOf(walk, r) <=> r \in walk.heads[scan + 1]
    BY <1>2 DEF HeadsOf
  <2>2. LastIn(HeadsOf(walk, r), scan, boundary[r])
    BY <1>1 DEF IInv, OrdinaryInv
  <2>3. boundary'[r] = IF r \in walk.heads[scan + 1] THEN scan + 1 ELSE boundary[r]
    BY <1>1
  <2> QED
    BY <1>2, <2>1, <2>2, <2>3, LastInStep
<1>7. OrdinaryInv'
  BY <1>1, <1>4, <1>5, <1>6 DEF IInv, OrdinaryInv
<1>8. RejectInv' /\ TextInv'
  BY <1>1 DEF RejectInv, TextInv
<1> QED
  BY <1>1, <1>3, <1>7, <1>8 DEF IInv

LEMMA CollectInv == IInv /\ Collect => IInv'
<1> SUFFICES ASSUME IInv, Collect PROVE IInv'
  OBVIOUS
<1>1. /\ pc = "walk" /\ pc' = "walk" /\ scan < walk.n /\ scan' = scan + 1
      /\ uses_reject = TRUE /\ uses_reject' = TRUE /\ walk' = walk
      /\ match_lens' = LensAfter(scan + 1)
      /\ acc_n' = acc_n /\ acc_n_len' = acc_n_len /\ acc_e' = acc_e /\ acc_e_len' = acc_e_len
      /\ boundary' = boundary /\ rule' = rule /\ len' = len /\ text' = text /\ tried' = tried
  BY DEF Collect, IInv, TypeOK
<1>2. walk.n \in Nat /\ scan \in Nat /\ scan + 1 \in 0 .. walk.n
  <2>1. scan \in 0 .. walk.n /\ walk.n \in Nat
    BY WalkFacts DEF IInv, TypeOK
  <2> QED
    BY <1>1, <2>1
<1>3. TypeOK'
  <2>1. 0 .. scan \subseteq 0 .. scan + 1 /\ scan + 1 \in 0 .. scan + 1
    BY <1>2
  <2>2. boundary' \in [Rule -> 0 .. scan + 1 \cup {None}]
    BY <1>1, <2>1 DEF IInv, TypeOK
  <2>3. match_lens' \in [Rule -> 0 .. scan + 1 \cup {None}]
    BY <1>1, <2>1 DEF IInv, TypeOK, LensAfter
  <2>4. /\ acc_n_len' \in 0 .. scan + 1 /\ acc_e_len' \in 0 .. scan + 1
        /\ len' \in 0 .. scan + 1 /\ text' \in 0 .. scan + 1
    BY <1>1, <2>1 DEF IInv, TypeOK
  <2> QED
    BY <1>1, <1>2, <2>2, <2>3, <2>4 DEF IInv, TypeOK
<1>4. ASSUME NEW r \in Rule PROVE LastIn(CountsOf(walk, r), scan + 1, match_lens'[r])
  <2>1. scan + 1 \in CountsOf(walk, r) <=> Counts(r, scan + 1)
    BY <1>2 DEF CountsOf, Counts
  <2>2. LastIn(CountsOf(walk, r), scan, match_lens[r])
    BY <1>1 DEF IInv, RejectInv
  <2>3. match_lens'[r] = IF Counts(r, scan + 1) THEN scan + 1 ELSE match_lens[r]
    BY <1>1 DEF LensAfter
  <2> QED
    BY <1>2, <2>1, <2>2, <2>3, LastInStep
<1>5. RejectInv'
  BY <1>1, <1>4 DEF IInv, RejectInv
<1>6. OrdinaryInv' /\ TextInv'
  BY <1>1 DEF OrdinaryInv, TextInv
<1> QED
  BY <1>1, <1>3, <1>5, <1>6 DEF IInv

LEMMA StopInv == IInv /\ Stop => IInv'
<1> SUFFICES ASSUME IInv, Stop PROVE IInv'
  OBVIOUS
<1>1. /\ pc = "walk" /\ pc' = "choose" /\ scan = walk.n
      /\ walk' = walk /\ uses_reject' = uses_reject /\ scan' = scan
      /\ acc_n' = acc_n /\ acc_n_len' = acc_n_len /\ acc_e' = acc_e /\ acc_e_len' = acc_e_len
      /\ boundary' = boundary /\ match_lens' = match_lens
      /\ rule' = rule /\ len' = len /\ text' = text /\ tried' = tried
  BY DEF Stop, found
<1>2. TypeOK'
  BY <1>1 DEF IInv, TypeOK
<1>3. OrdinaryInv' /\ TextInv'
  BY <1>1 DEF IInv, OrdinaryInv, TextInv
<1>4. ASSUME uses_reject PROVE Fallback(walk, match_lens, tried, Len(tried))
  <2>1. tried = <<>> /\ \A r \in Rule : LastIn(CountsOf(walk, r), walk.n, match_lens[r])
    BY <1>1, <1>4 DEF IInv, RejectInv
  <2> QED
    BY <2>1 DEF Fallback, Gone, InOrder
<1>5. RejectInv'
  BY <1>1, <1>4 DEF IInv, RejectInv
<1> QED
  BY <1>1, <1>2, <1>3, <1>5 DEF IInv

(* The length of the text lies in the match.                               *)
LEMMA TextInMatch ==
    ASSUME IInv, NEW r \in Rule, NEW n \in 0 .. scan
    PROVE  TextLength(r, n) \in 0 .. scan
<1>1. scan \in Nat /\ boundary[r] \in 0 .. scan \cup {None} /\ walk.trail[r] \in Int
  BY WalkFacts DEF IInv, TypeOK, Length, Variable
<1> QED
  BY <1>1 DEF TextLength, None

(* What the ordinary body can choose.                                      *)
LEMMA OrdinaryChoices ==
    ASSUME IInv
    PROVE  \/ OrdinaryChoice = <<None, 0>>
           \/ /\ OrdinaryChoice[1] \in Rule /\ OrdinaryChoice[1] # None
              /\ OrdinaryChoice[2] \in 0 .. scan
              /\ OrdinaryChoice = <<OrdinaryChoice[1], OrdinaryChoice[2]>>
<1>1. CASE EolOk /\ ~NormalWins
  <2>1. OrdinaryChoice = <<acc_e, acc_e_len>>
    BY <1>1 DEF OrdinaryChoice
  <2> QED
    BY <1>1, <2>1 DEF EolOk, IInv, TypeOK
<1>2. CASE ~(EolOk /\ ~NormalWins) /\ NormalOk
  <2>1. OrdinaryChoice = <<acc_n, acc_n_len>>
    BY <1>2 DEF OrdinaryChoice
  <2> QED
    BY <1>2, <2>1 DEF NormalOk, IInv, TypeOK
<1>3. CASE ~(EolOk /\ ~NormalWins) /\ ~NormalOk
  BY <1>3 DEF OrdinaryChoice
<1> QED
  BY <1>1, <1>2, <1>3

(* The type of the variables after a choice.                               *)
LEMMA TakeType ==
    ASSUME IInv, NEW choice, Take(choice),
           scan = walk.n,
           choice[1] # None => choice \in Rule \X Length /\ choice[2] \in 0 .. scan,
           UNCHANGED <<walk, uses_reject, scan, found>>
    PROVE  TypeOK'
<1>1. /\ walk' = walk /\ uses_reject' = uses_reject /\ scan' = scan
      /\ acc_n' = acc_n /\ acc_n_len' = acc_n_len /\ acc_e' = acc_e /\ acc_e_len' = acc_e_len
      /\ boundary' = boundary /\ match_lens' = match_lens
  BY DEF found
<1>2. scan \in Nat
  BY WalkFacts DEF IInv, TypeOK
<1>3. CASE choice[1] = None
  <2>1. pc' = "none" /\ rule' = None /\ len' = 0 /\ text' = text /\ tried' = tried
    BY <1>3 DEF Take
  <2> QED
    BY <1>1, <1>2, <2>1 DEF IInv, TypeOK
<1>4. CASE choice[1] # None
  <2>1. /\ pc' = "action" /\ rule' = choice[1] /\ len' = choice[2]
        /\ text' = TextLength(choice[1], choice[2]) /\ tried' = Append(tried, choice)
    BY <1>4 DEF Take
  <2>2. choice[1] \in Rule /\ choice[2] \in 0 .. scan /\ choice \in Rule \X Length
    BY <1>4
  <2>3. text' \in 0 .. scan
    BY <2>1, <2>2, TextInMatch
  <2>4. tried' \in Seq(Rule \X Length)
    BY <2>1, <2>2 DEF IInv, TypeOK
  <2> QED
    BY <1>1, <1>2, <2>1, <2>2, <2>3, <2>4 DEF IInv, TypeOK
<1> QED
  BY <1>3, <1>4

LEMMA ChooseInv == IInv /\ Choose => IInv'
<1> SUFFICES ASSUME IInv, Choose PROVE IInv'
  OBVIOUS
<1>1. /\ pc = "choose" /\ uses_reject = FALSE /\ uses_reject' = FALSE /\ Take(OrdinaryChoice)
      /\ walk' = walk /\ scan' = scan /\ scan = walk.n /\ tried = <<>>
      /\ acc_n' = acc_n /\ acc_n_len' = acc_n_len /\ acc_e' = acc_e /\ acc_e_len' = acc_e_len
      /\ boundary' = boundary /\ match_lens' = match_lens
  BY DEF Choose, found, IInv, TypeOK, OrdinaryInv
<1>2. OrdinaryChoice' = OrdinaryChoice
  BY <1>1 DEF OrdinaryChoice, EolOk, NormalWins, NormalOk
<1>3. /\ OrdinaryChoice[1] # None => /\ OrdinaryChoice \in Rule \X Length
                                     /\ OrdinaryChoice[2] \in 0 .. scan
                                     /\ OrdinaryChoice = <<OrdinaryChoice[1], OrdinaryChoice[2]>>
      /\ OrdinaryChoice[1] = None => OrdinaryChoice = <<None, 0>>
  <2>1. 0 .. scan \subseteq Length
    BY <1>1, WalkFacts DEF IInv, TypeOK, Length
  <2> QED
    BY <2>1, OrdinaryChoices
<1> HIDE DEF OrdinaryChoice
<1>4. TypeOK'
  <2>1. UNCHANGED <<walk, uses_reject, scan, found>>
    BY <1>1 DEF found
  <2> QED
    BY <1>1, <1>3, <2>1, TakeType
<1>5. OrdinaryInv'
  <2>1. CASE OrdinaryChoice[1] = None
    <3>1. pc' = "none" /\ tried' = <<>>
      BY <1>1, <2>1 DEF Take
    <3> QED
      BY <1>1, <1>2, <1>3, <2>1, <3>1 DEF IInv, OrdinaryInv
  <2>2. CASE OrdinaryChoice[1] # None
    <3>1. /\ pc' = "action" /\ tried' = << OrdinaryChoice >>
          /\ rule' = OrdinaryChoice[1] /\ len' = OrdinaryChoice[2]
      BY <1>1, <2>2 DEF Take
    <3> QED
      BY <1>1, <1>2, <1>3, <2>2, <3>1 DEF IInv, OrdinaryInv
  <2> QED
    BY <2>1, <2>2
<1>6. RejectInv'
  BY <1>1 DEF RejectInv
<1>7. TextInv'
  <2> SUFFICES ASSUME pc' = "action"
               PROVE  rule' \in Rule /\ text' = TextLength(rule, len)'
    BY DEF TextInv
  <2>1. /\ rule' = OrdinaryChoice[1] /\ len' = OrdinaryChoice[2] /\ OrdinaryChoice[1] # None
        /\ text' = TextLength(OrdinaryChoice[1], OrdinaryChoice[2])
    BY <1>1 DEF Take
  <2>2. TextLength(rule, len)' = TextLength(OrdinaryChoice[1], OrdinaryChoice[2])
    BY <1>1, <2>1 DEF TextLength
  <2> QED
    BY <1>3, <2>1, <2>2
<1> QED
  BY <1>1, <1>4, <1>5, <1>6, <1>7 DEF IInv

LEMMA FindBestInv == IInv /\ FindBest => IInv'
<1> SUFFICES ASSUME IInv, FindBest PROVE IInv'
  OBVIOUS
<1>1. /\ pc = "choose" /\ uses_reject = TRUE /\ uses_reject' = TRUE
      /\ walk' = walk /\ scan' = scan /\ scan = walk.n
      /\ acc_n' = acc_n /\ acc_n_len' = acc_n_len /\ acc_e' = acc_e /\ acc_e_len' = acc_e_len
      /\ boundary' = boundary /\ match_lens' = match_lens
      /\ Fallback(walk, match_lens, tried, Len(tried))
      /\ \A r \in Rule : walk.trail[r] # Variable
  BY DEF FindBest, found, IInv, TypeOK, RejectInv
<1>2. UNCHANGED <<walk, uses_reject, scan, found>>
  BY DEF FindBest
<1>3. OrdinaryInv'
  BY <1>1 DEF OrdinaryInv
<1>4. PICK choice \in RejectChoices : Take(choice)
  BY DEF FindBest
<1>5. CASE choice = <<None, 0>> /\ \A r \in Rule : match_lens[r] <= 0
  <2>1. choice[1] = None
    BY <1>5
  <2>2. TypeOK'
    BY <1>1, <1>2, <1>4, <2>1, TakeType
  <2>3. pc' = "none" /\ tried' = tried
    BY <1>4, <2>1 DEF Take
  <2>4. RejectInv' /\ TextInv'
    BY <1>1, <1>5, <2>3 DEF RejectInv, TextInv
  <2> QED
    BY <1>1, <1>3, <2>2, <2>4 DEF IInv
<1>6. ASSUME NEW r \in Rule, IsBest(r), choice = <<r, match_lens[r]>>
      PROVE  IInv'
  <2>0. walk \in Walks /\ walk.n \in Nat /\ Rule \subseteq Nat /\ walk.n <= MaxLength
        /\ MaxLength \in Nat
    BY WalkFacts DEF IInv, Rule
  <2>1. /\ choice[1] = r /\ choice[2] = match_lens[r] /\ r # None
        /\ match_lens \in [Rule -> 0 .. walk.n \cup {None}] /\ tried \in Seq(Rule \X Length)
    BY <1>1, <1>6, <2>0 DEF IInv, TypeOK, None
  <2>2. /\ match_lens[r] > 0
        /\ \A q \in Rule : match_lens[q] < match_lens[r] \/ (match_lens[q] = match_lens[r] /\ r <= q)
    BY <1>6 DEF IsBest
  <2>3. choice \in Rule \X Length /\ choice[2] \in 0 .. scan
    <3>1. match_lens[r] \in 0 .. walk.n
      BY <2>1, <2>2 DEF None
    <3> QED
      BY <1>1, <1>6, <2>0, <3>1 DEF Length
  <2>4. TypeOK'
    BY <1>1, <1>2, <1>4, <2>3, TakeType
  <2>5. /\ pc' = "action" /\ rule' = r /\ len' = match_lens[r]
        /\ text' = TextLength(r, match_lens[r]) /\ tried' = Append(tried, <<r, match_lens[r]>>)
    BY <1>4, <1>6, <2>1 DEF Take
  <2>6. /\ Fallback(walk, match_lens, tried', Len(tried') - 1)
        /\ Len(tried') > 0 /\ tried'[Len(tried')] = <<rule', len'>>
    BY <1>1, <2>0, <2>1, <2>2, <2>5, FallbackTake
  <2>7. RejectInv'
    BY <1>1, <2>5, <2>6 DEF RejectInv
  <2>8. TextLength(rule, len)' = TextLength(r, match_lens[r])
    BY <1>1, <2>5 DEF TextLength
  <2>9. TextInv'
    BY <2>5, <2>8 DEF TextInv
  <2> QED
    BY <1>1, <1>3, <2>0, <2>4, <2>7, <2>9 DEF IInv
<1> QED
  BY <1>4, <1>5, <1>6 DEF RejectChoices

LEMMA RejectStepInv == IInv /\ Reject => IInv'
<1> SUFFICES ASSUME IInv, Reject PROVE IInv'
  OBVIOUS
<1>1. /\ pc = "action" /\ pc' = "choose" /\ uses_reject = TRUE /\ uses_reject' = TRUE
      /\ walk' = walk /\ scan' = scan /\ scan = walk.n
      /\ acc_n' = acc_n /\ acc_n_len' = acc_n_len /\ acc_e' = acc_e /\ acc_e_len' = acc_e_len
      /\ boundary' = boundary /\ match_lens' = [match_lens EXCEPT ![rule] = None]
      /\ rule' = rule /\ len' = len /\ text' = text /\ tried' = tried
  BY DEF Reject, LensWithout, IInv, TypeOK
<1>2. /\ walk \in Walks /\ rule \in Rule /\ Len(tried) > 0 /\ tried[Len(tried)] = <<rule, len>>
      /\ Fallback(walk, match_lens, tried, Len(tried) - 1)
      /\ match_lens \in [Rule -> 0 .. walk.n \cup {None}] /\ tried \in Seq(Rule \X Length)
      /\ \A r \in Rule : walk.trail[r] # Variable
  BY <1>1 DEF IInv, TypeOK, RejectInv, TextInv
<1>3. TypeOK'
  <2>1. match_lens' \in [Rule -> 0 .. walk.n \cup {None}]
    BY <1>1, <1>2
  <2> QED
    BY <1>1, <2>1 DEF IInv, TypeOK
<1>4. tried[Len(tried)][1] = rule
  BY <1>2
<1>5. Fallback(walk, match_lens', tried, Len(tried))
  BY <1>1, <1>2, <1>4, FallbackReject
<1>6. OrdinaryInv' /\ TextInv'
  BY <1>1 DEF OrdinaryInv, TextInv
<1>7. RejectInv'
  BY <1>1, <1>2, <1>5 DEF RejectInv
<1> QED
  BY <1>1, <1>2, <1>3, <1>6, <1>7 DEF IInv

(* IInv holds in every reachable state of both bodies.                     *)
THEOREM Invariance == Spec => []IInv
<1>1. IInv /\ [Next]_vars => IInv'
  <2> SUFFICES ASSUME IInv, [Next]_vars PROVE IInv'
    OBVIOUS
  <2>1. CASE UNCHANGED vars
    <3>1. /\ walk' = walk /\ uses_reject' = uses_reject /\ scan' = scan
          /\ acc_n' = acc_n /\ acc_n_len' = acc_n_len /\ acc_e' = acc_e /\ acc_e_len' = acc_e_len
          /\ boundary' = boundary /\ match_lens' = match_lens
          /\ rule' = rule /\ len' = len /\ text' = text /\ tried' = tried /\ pc' = pc
      BY <2>1 DEF vars, found
    <3>2. TypeOK' /\ RejectInv'
      BY <3>1 DEF IInv, TypeOK, RejectInv
    <3>3. OrdinaryChoice' = OrdinaryChoice /\ TextLength(rule, len)' = TextLength(rule, len)
      BY <3>1 DEF OrdinaryChoice, EolOk, NormalWins, NormalOk, TextLength
    <3>4. OrdinaryInv' /\ TextInv'
      BY <3>1, <3>3 DEF IInv, OrdinaryInv, TextInv
    <3> QED
      BY <3>1, <3>2, <3>4 DEF IInv
  <2> QED
    BY <2>1, AdvanceInv, CollectInv, StopInv, ChooseInv, FindBestInv, RejectStepInv DEF Next
<1> QED
  BY InitInv, <1>1, PTL DEF Spec

(* Every variable keeps its type: no length exceeds what was walked, and   *)
(* no text its match (both bodies of yylex()).                             *)
THEOREM TypeCorrect == Spec => []TypeOK
<1>1. IInv => TypeOK
  BY DEF IInv
<1> QED
  BY <1>1, Invariance, PTL

-----------------------------------------------------------------------------
(* The matches of a rule are the places where it counts.                   *)
LEMMA MatchingCounts ==
    ASSUME IInv, NEW r, NEW k
    PROVE  Matching(r, k) <=> k > 0 /\ k \in CountsOf(walk, r)
<1>1. walk.n \in Nat
  BY WalkFacts DEF IInv
<1> QED
  BY <1>1 DEF Matching, CountsOf

(* The candidates of the ordinary body, when the walk is over.             *)
LEMMA Candidates ==
    ASSUME IInv, ~uses_reject, pc # "walk"
    PROVE  /\ acc_n # None => acc_n \in walk.list[acc_n_len] /\ acc_n \notin walk.dollar
           /\ acc_e # None => acc_e \in walk.list[acc_e_len] /\ acc_e \in walk.dollar
           /\ \A r \in Rule, k \in 0 .. walk.n : r \in walk.list[k] =>
                 IF r \in walk.dollar
                 THEN acc_e # None /\ k <= acc_e_len /\ (k = acc_e_len => acc_e <= r)
                 ELSE acc_n # None /\ k <= acc_n_len /\ (k = acc_n_len => acc_n <= r)
<1>1. /\ walk \in Walks /\ LastSeen(walk.normal, walk.n, acc_n, acc_n_len)
      /\ LastSeen(walk.eol, walk.n, acc_e, acc_e_len)
  BY DEF IInv, OrdinaryInv
<1>2. Consistent(walk) /\ walk.list \in [Length -> SUBSET Rule] /\ 0 .. walk.n \subseteq Length
  BY <1>1, WalkFacts DEF Length
<1>3. \A k \in 0 .. walk.n : /\ IsFirst(walk.normal[k], walk.list[k] \cap (Rule \ walk.dollar))
                              /\ IsFirst(walk.eol[k], walk.list[k] \cap walk.dollar)
  <2> SUFFICES ASSUME NEW k \in 0 .. walk.n
               PROVE  /\ IsFirst(walk.normal[k], walk.list[k] \cap (Rule \ walk.dollar))
                      /\ IsFirst(walk.eol[k], walk.list[k] \cap walk.dollar)
    OBVIOUS
  <2>1. walk.list[k] \cap (Rule \ walk.dollar) = walk.list[k] \ walk.dollar
    BY <1>2
  <2> QED
    BY <1>2, <2>1 DEF Consistent
<1>4. FirstsOf(walk, walk.normal, Rule \ walk.dollar)
  BY <1>3 DEF FirstsOf
<1>5. FirstsOf(walk, walk.eol, walk.dollar)
  BY <1>3 DEF FirstsOf
<1>6. BestOf(walk, Rule \ walk.dollar, acc_n, acc_n_len)
  BY <1>1, <1>4, LastIsBest
<1>7. BestOf(walk, walk.dollar, acc_e, acc_e_len)
  BY <1>1, <1>5, LastIsBest
<1>8. ASSUME NEW r \in Rule, NEW k \in 0 .. walk.n, r \in walk.list[k]
      PROVE  IF r \in walk.dollar
             THEN acc_e # None /\ k <= acc_e_len /\ (k = acc_e_len => acc_e <= r)
             ELSE acc_n # None /\ k <= acc_n_len /\ (k = acc_n_len => acc_n <= r)
  <2>1. CASE r \in walk.dollar
    BY <2>1, <1>7, <1>8 DEF BestOf
  <2>2. CASE r \notin walk.dollar
    <3>1. r \in Rule \ walk.dollar
      BY <2>2
    <3> QED
      BY <2>2, <3>1, <1>6, <1>8 DEF BestOf
  <2> QED
    BY <2>1, <2>2
<1> QED
  BY <1>6, <1>7, <1>8 DEF BestOf

(* The ordinary body's choice is a match, and the best one in the running; *)
(* without a choice there is none.                                         *)
LEMMA OrdinaryIsBest ==
    ASSUME IInv, ~uses_reject, pc # "walk"
    PROVE  /\ OrdinaryChoice[1] # None => Matching(OrdinaryChoice[1], OrdinaryChoice[2])
           /\ \A r \in Rule, k \in 1 .. walk.n : Matching(r, k) /\ InTheRunning(r) =>
                 OrdinaryChoice[1] # None /\ Beats(OrdinaryChoice, r, k)
<1>1. /\ walk.n \in Nat /\ scan = walk.n /\ acc_n_len \in 0 .. walk.n /\ acc_e_len \in 0 .. walk.n
      /\ acc_n \in Rule \cup {None} /\ acc_e \in Rule \cup {None} /\ Rule \subseteq Nat
      /\ (acc_n = None => acc_n_len = 0) /\ (acc_e = None => acc_e_len = 0)
      /\ walk.at_eol[acc_e_len] \in BOOLEAN
  <2>1. /\ scan = walk.n /\ walk.n \in Nat /\ walk.n <= MaxLength /\ MaxLength \in Nat
        /\ walk.at_eol \in [Length -> BOOLEAN] /\ Rule \subseteq Nat
    BY WalkFacts DEF IInv, Rule
  <2>2. /\ acc_n_len \in 0 .. scan /\ acc_e_len \in 0 .. scan
        /\ acc_n \in Rule \cup {None} /\ acc_e \in Rule \cup {None}
    BY DEF IInv, TypeOK
  <2>3. (acc_n = None => acc_n_len = 0) /\ (acc_e = None => acc_e_len = 0)
    BY DEF IInv, OrdinaryInv, LastSeen
  <2>4. acc_e_len \in Length
    BY <2>1, <2>2 DEF Length
  <2> QED
    BY <2>1, <2>2, <2>3, <2>4
<1>2. ASSUME NEW r \in Rule, NEW k \in 1 .. walk.n, Matching(r, k), InTheRunning(r)
      PROVE  IF r \in walk.dollar
             THEN EolOk /\ k <= acc_e_len /\ (k = acc_e_len => acc_e <= r)
             ELSE NormalOk /\ k <= acc_n_len /\ (k = acc_n_len => acc_n <= r)
  <2>1. r \in walk.list[k] /\ k \in 0 .. walk.n
    BY <1>1, <1>2 DEF Matching
  <2>2. CASE r \in walk.dollar
    <3>1. acc_e # None /\ k <= acc_e_len /\ (k = acc_e_len => acc_e <= r)
      BY <2>1, <2>2, Candidates
    <3>2. acc_e_len > 0
      BY <1>1, <3>1
    <3>3. walk.at_eol[acc_e_len]
      BY <1>2, <2>2, <3>2 DEF InTheRunning, DollarOverrun
    <3> QED
      BY <2>2, <3>1, <3>2, <3>3 DEF EolOk
  <2>3. CASE r \notin walk.dollar
    <3>1. acc_n # None /\ k <= acc_n_len /\ (k = acc_n_len => acc_n <= r)
      BY <2>1, <2>3, Candidates
    <3> QED
      BY <1>1, <2>3, <3>1 DEF NormalOk
  <2> QED
    BY <2>2, <2>3
<1>3. CASE EolOk /\ ~NormalWins
  <2>1. OrdinaryChoice = <<acc_e, acc_e_len>> /\ acc_e # None
    BY <1>3 DEF OrdinaryChoice, EolOk
  <2>2. Matching(acc_e, acc_e_len)
    BY <1>1, <1>3, Candidates DEF Matching, EolOk
  <2>3. ASSUME NEW r \in Rule, NEW k \in 1 .. walk.n, Matching(r, k), InTheRunning(r)
        PROVE  Beats(<<acc_e, acc_e_len>>, r, k)
    <3>1. CASE r \in walk.dollar
      BY <1>1, <1>2, <2>3, <3>1 DEF Beats
    <3>2. CASE r \notin walk.dollar
      <4>1. acc_n # None /\ k <= acc_n_len /\ (k = acc_n_len => acc_n <= r)
        BY <1>2, <2>3, <3>2 DEF NormalOk
      <4>2. acc_n_len <= acc_e_len /\ (acc_n_len = acc_e_len => acc_e <= acc_n)
        BY <1>1, <1>3, <2>1, <4>1 DEF NormalWins, None
      <4>3. acc_e \in Nat /\ acc_n \in Nat /\ r \in Nat
        BY <1>1, <2>1, <4>1
      <4> QED
        BY <1>1, <4>1, <4>2, <4>3 DEF Beats
    <3> QED
      BY <3>1, <3>2
  <2> QED
    BY <2>1, <2>2, <2>3
<1>4. CASE ~(EolOk /\ ~NormalWins) /\ NormalOk
  <2>1. OrdinaryChoice = <<acc_n, acc_n_len>> /\ acc_n # None /\ acc_n_len > 0
    BY <1>4 DEF OrdinaryChoice, NormalOk
  <2>2. Matching(acc_n, acc_n_len)
    BY <1>1, <2>1, Candidates DEF Matching
  <2>3. ASSUME NEW r \in Rule, NEW k \in 1 .. walk.n, Matching(r, k), InTheRunning(r)
        PROVE  Beats(<<acc_n, acc_n_len>>, r, k)
    <3>1. CASE r \in walk.dollar
      <4>1. EolOk /\ k <= acc_e_len /\ (k = acc_e_len => acc_e <= r)
        BY <1>2, <2>3, <3>1
      <4>2. acc_n_len > acc_e_len \/ (acc_n_len = acc_e_len /\ acc_n < acc_e)
        BY <1>4, <4>1 DEF NormalWins
      <4>3. acc_e \in Nat /\ acc_n \in Nat /\ r \in Nat
        BY <1>1, <2>1, <4>1 DEF EolOk
      <4> QED
        BY <1>1, <4>1, <4>2, <4>3 DEF Beats
    <3>2. CASE r \notin walk.dollar
      BY <1>1, <1>2, <2>3, <3>2 DEF Beats
    <3> QED
      BY <3>1, <3>2
  <2> QED
    BY <2>1, <2>2, <2>3
<1>5. CASE ~(EolOk /\ ~NormalWins) /\ ~NormalOk
  <2>1. OrdinaryChoice = <<None, 0>>
    BY <1>5 DEF OrdinaryChoice
  <2>2. ASSUME NEW r \in Rule, NEW k \in 1 .. walk.n, Matching(r, k), InTheRunning(r)
        PROVE  FALSE
    <3>1. r \in walk.dollar /\ EolOk
      BY <1>2, <1>5, <2>2
    <3>2. NormalWins /\ acc_e_len > 0
      BY <1>5, <3>1 DEF EolOk
    <3>3. acc_n_len > 0 /\ acc_n # None
      BY <1>1, <3>2 DEF NormalWins
    <3> QED
      BY <1>5, <3>3 DEF NormalOk
  <2> QED
    BY <2>1, <2>2
<1> QED
  BY <1>3, <1>4, <1>5

(* The longest match of the first rule that has it runs first, whatever    *)
(* the walk, and the default rule only gets what nothing in the running    *)
(* matches (yylex: choice of the rule).                                    *)
THEOREM BestRunsFirst == Spec => []FirstIsBest
<1>1. IInv => FirstIsBest
  <2> SUFFICES ASSUME IInv PROVE FirstIsBest
    OBVIOUS
  <2>0. walk.n \in Nat /\ Rule \subseteq Nat /\ \A r \in Rule : match_lens[r] \in Int
    BY WalkFacts DEF IInv, TypeOK, Rule, None
  <2>1. CASE ~uses_reject
    <3>1. ASSUME pc = "action" PROVE rule # None /\ OrdinaryChoice = <<rule, len>>
      <4>1. rule \in Rule /\ OrdinaryChoice = <<rule, len>>
        BY <2>1, <3>1 DEF IInv, OrdinaryInv, TextInv
      <4> QED
        BY <4>1, <2>0 DEF None
    <3>2. ASSUME pc = "none" PROVE OrdinaryChoice[1] = None
      BY <2>1, <3>2 DEF IInv, OrdinaryInv
    <3>3. /\ pc \in {"action", "none"} =>
                /\ OrdinaryChoice[1] # None => Matching(OrdinaryChoice[1], OrdinaryChoice[2])
                /\ \A r \in Rule, k \in 1 .. walk.n : Matching(r, k) /\ InTheRunning(r) =>
                      OrdinaryChoice[1] # None /\ Beats(OrdinaryChoice, r, k)
      BY <2>1, OrdinaryIsBest
    <3> HIDE DEF OrdinaryChoice
    <3> QED
      BY <3>1, <3>2, <3>3 DEF FirstIsBest
  <2>2. CASE uses_reject
    <3>1. ASSUME NEW r \in Rule, NEW k \in 1 .. walk.n, Matching(r, k),
                 LastIn(CountsOf(walk, r), walk.n, match_lens[r])
          PROVE  match_lens[r] >= k
      BY <2>0, <3>1, MatchingCounts DEF LastIn, CountsOf
    <3>2. ASSUME pc = "action", Len(tried) = 1
          PROVE  /\ Matching(rule, len)
                 /\ \A r \in Rule, k \in 1 .. walk.n : Matching(r, k) => Beats(<<rule, len>>, r, k)
      <4>1. Fallback(walk, match_lens, tried, 0) /\ tried[1] = <<rule, len>>
        BY <2>2, <3>2 DEF IInv, RejectInv
      <4>2. Longest(walk, <<rule, len>>)
        BY <3>2, <4>1 DEF Fallback
      <4>3. Matching(rule, len)
        BY <4>2, MatchingCounts DEF Longest
      <4>4. ASSUME NEW r \in Rule, NEW k \in 1 .. walk.n, Matching(r, k)
            PROVE  Beats(<<rule, len>>, r, k)
        <5>1. LastIn(CountsOf(walk, r), walk.n, match_lens[r])
          BY <4>1 DEF Fallback, Gone
        <5>2. match_lens[r] >= k /\ match_lens[r] \in Int
          BY <2>0, <3>1, <4>4, <5>1
        <5>3. Beats(<<rule, len>>, r, match_lens[r])
          BY <3>2, <4>1, <5>2 DEF Fallback
        <5>4. len \in Int /\ rule \in Int
          BY <2>0, <3>2 DEF IInv, TypeOK, TextInv
        <5> QED
          BY <5>2, <5>3, <5>4 DEF Beats
      <4> QED
        BY <4>3, <4>4
    <3>3. ASSUME pc = "none", tried = <<>>, NEW r \in Rule, NEW k \in 1 .. walk.n, Matching(r, k)
          PROVE  FALSE
      <4>1. Fallback(walk, match_lens, tried, 0) /\ match_lens[r] <= 0
        BY <2>2, <3>3 DEF IInv, RejectInv
      <4>2. LastIn(CountsOf(walk, r), walk.n, match_lens[r])
        BY <4>1 DEF Fallback, Gone
      <4> QED
        BY <2>0, <3>1, <3>3, <4>1, <4>2
    <3> QED
      BY <3>2, <3>3 DEF FirstIsBest
  <2> QED
    BY <2>1, <2>2
<1> QED
  BY <1>1, Invariance, PTL

(* REJECT goes from the best match to the worst, tries none twice, and     *)
(* ends only when every rule that matches has had its turn (yy_find_best   *)
(* and the REJECT macro).                                                  *)
THEOREM RejectionOrder == Spec => []RejectsInOrder
<1>1. IInv => RejectsInOrder
  <2> SUFFICES ASSUME IInv PROVE RejectsInOrder
    OBVIOUS
  <2>0. /\ walk.n \in Nat /\ Rule \subseteq Nat /\ tried \in Seq(Rule \X Length)
        /\ Len(tried) \in Nat /\ DOMAIN tried = 1 .. Len(tried)
        /\ pc \in {"walk", "choose", "action", "none"}
    BY WalkFacts DEF IInv, TypeOK, Rule
  <2>1. CASE ~uses_reject
    <3>1. CASE pc = "action"
      <4>1. tried = << <<rule, len>> >> /\ rule \in Rule /\ OrdinaryChoice = <<rule, len>>
        BY <2>1, <3>1 DEF IInv, OrdinaryInv, TextInv
      <4>2. OrdinaryChoice[1] # None
        BY <2>0, <4>1 DEF None
      <4>3. Matching(OrdinaryChoice[1], OrdinaryChoice[2])
        BY <2>1, <3>1, <4>2, OrdinaryIsBest
      <4>4. Matching(rule, len)
        BY <4>1, <4>3
      <4>5. \A i \in DOMAIN tried : /\ tried[i][1] = rule /\ tried[i][2] = len
                                     /\ 1 .. i - 1 = {}
        BY <4>1
      <4> QED
        BY <2>1, <4>4, <4>5 DEF RejectsInOrder
    <3>2. CASE pc # "action"
      <4>1. tried = <<>>
        BY <2>1, <3>2 DEF IInv, OrdinaryInv
      <4> QED
        BY <2>1, <4>1 DEF RejectsInOrder
    <3> QED
      BY <3>1, <3>2
  <2>2. CASE uses_reject
    <3>1. (\A i \in 1 .. Len(tried) : Longest(walk, tried[i])) /\ InOrder(tried)
      <4>1. CASE pc = "walk"
        <5>1. tried = <<>>
          BY <2>2, <4>1 DEF IInv, RejectInv
        <5> QED
          BY <5>1 DEF InOrder
      <4>2. CASE pc # "walk"
        BY <2>0, <2>2, <4>2 DEF IInv, RejectInv, Fallback
      <4> QED
        BY <4>1, <4>2
    <3>2. ASSUME NEW i \in DOMAIN tried
          PROVE  /\ Matching(tried[i][1], tried[i][2])
                 /\ \A j \in 1 .. i - 1 : /\ Beats(tried[j], tried[i][1], tried[i][2])
                                          /\ tried[j] # tried[i]
      BY <2>0, <3>1, MatchingCounts DEF Longest, InOrder
    <3>3. ASSUME pc = "none", NEW r \in Rule, NEW k \in 1 .. walk.n, Matching(r, k)
          PROVE  \E i \in DOMAIN tried : tried[i][1] = r
      <4>1. /\ match_lens[r] <= 0 /\ match_lens[r] \in Int
            /\ Fallback(walk, match_lens, tried, Len(tried))
        BY <2>2, <3>3, WalkFacts DEF IInv, RejectInv, TypeOK, None
      <4>2. k \in CountsOf(walk, r) /\ k \in 1 .. walk.n
        BY <3>3, MatchingCounts
      <4>3. ~LastIn(CountsOf(walk, r), walk.n, match_lens[r])
        BY <2>0, <4>1, <4>2 DEF LastIn, None
      <4>4. Gone(tried, Len(tried), r)
        BY <4>1, <4>3 DEF Fallback
      <4> QED
        BY <2>0, <4>4 DEF Gone
    <3> QED
      BY <3>2, <3>3 DEF RejectsInOrder
  <2> QED
    BY <2>1, <2>2
<1> QED
  BY <1>1, Invariance, PTL

(* Trailing context is never part of the text: a fixed one is given back,  *)
(* and with a variable one the text ends at the only boundary there is     *)
(* (yylex: trailing context).                                              *)
THEOREM TextEnds == Spec => []TextEndsHead
<1>1. IInv => TextEndsHead
  <2> SUFFICES ASSUME IInv, pc = "action" PROVE TextEndsHead
    BY DEF TextEndsHead
  <2>1. /\ rule \in Rule /\ text = TextLength(rule, len) /\ walk \in Walks
        /\ len \in 0 .. scan /\ scan = walk.n /\ walk.n \in Nat
        /\ walk.trail[rule] \in Length \cup {Variable} /\ Consistent(walk)
        /\ MaxLength \in Nat /\ boundary[rule] \in 0 .. scan \cup {None}
    BY WalkFacts DEF IInv, TypeOK, TextInv
  <2>2. Matching(rule, len)
    <3>1. CASE ~uses_reject
      <4>1. OrdinaryChoice = <<rule, len>>
        BY <3>1 DEF IInv, OrdinaryInv
      <4>2. OrdinaryChoice[1] # None
        BY <2>1, <4>1, WalkFacts DEF Rule, None
      <4>3. Matching(OrdinaryChoice[1], OrdinaryChoice[2])
        BY <3>1, <4>2, OrdinaryIsBest
      <4> QED
        BY <4>1, <4>3
    <3>2. CASE uses_reject
      <4>1. /\ Fallback(walk, match_lens, tried, Len(tried) - 1) /\ Len(tried) > 0
            /\ tried[Len(tried)] = <<rule, len>> /\ tried \in Seq(Rule \X Length)
        BY <3>2 DEF IInv, RejectInv, TypeOK
      <4>2. Longest(walk, <<rule, len>>)
        BY <4>1 DEF Fallback
      <4> QED
        BY <4>2, MatchingCounts DEF Longest
    <3> QED
      BY <3>1, <3>2
  <2>3. rule \in walk.list[len] /\ len \in 0 .. walk.n
    BY <2>1, <2>2 DEF Matching
  <2>4. CASE walk.trail[rule] # Variable
    <3>1. walk.trail[rule] \in Nat /\ walk.trail[rule] <= len
      <4>1. walk.trail[rule] \in Length
        BY <2>1, <2>4
      <4>2. walk.trail[rule] <= len
        BY <2>1, <2>3, <2>4 DEF Consistent
      <4> QED
        BY <2>1, <4>1, <4>2 DEF Length
    <3>2. text = len - walk.trail[rule]
      BY <2>1, <2>4, <3>1 DEF TextLength
    <3> QED
      BY <2>4, <3>2 DEF TextEndsHead
  <2>5. CASE walk.trail[rule] = Variable
    <3>1. PICK j \in 0 .. len : rule \in walk.heads[j]
      BY <2>1, <2>3, <2>5 DEF Consistent
    <3>2. ~uses_reject
      BY <2>1, <2>5 DEF IInv, RejectInv
    <3>3. LastIn(HeadsOf(walk, rule), walk.n, boundary[rule])
      BY <2>1, <3>2 DEF IInv, OrdinaryInv
    <3>4. j \in HeadsOf(walk, rule) /\ j \in 0 .. walk.n
      BY <2>1, <3>1 DEF HeadsOf
    <3>5. boundary[rule] \in HeadsOf(walk, rule) /\ boundary[rule] \in 0 .. walk.n
      BY <3>3, <3>4 DEF LastIn
    <3>6. rule \in walk.heads[boundary[rule]] /\ boundary[rule] # None
      BY <3>5 DEF HeadsOf, None
    <3>7. CASE boundary[rule] <= len
      <4>1. text = boundary[rule]
        BY <2>1, <2>5, <3>6, <3>7 DEF TextLength, Variable
      <4> QED
        BY <2>5, <3>6, <3>7, <4>1 DEF TextEndsHead
    <3>8. CASE ~(boundary[rule] <= len)
      <4>1. text = len
        BY <2>1, <2>5, <3>8 DEF TextLength, Variable
      <4>2. ~OneBoundary(rule)
        BY <2>1, <3>1, <3>4, <3>5, <3>6, <3>8 DEF OneBoundary
      <4> QED
        BY <2>1, <2>5, <4>1, <4>2 DEF TextEndsHead
    <3> QED
      BY <3>7, <3>8
  <2> QED
    BY <2>4, <2>5
<1> QED
  BY <1>1, Invariance, PTL
=============================================================================
