---------------------------- MODULE MCTablesFile ----------------------------
(* The scanners of TablesFile's run: two compressed ones of one shape, a   *)
(* third with a larger pool; two with full tables of one shape, one with   *)
(* another number of conditions, one with more states, one without rules.  *)
(* One scanner of each of these shapes uses REJECT, the one with a         *)
(* variable trailing context has boundaries.                               *)
EXTENDS TablesFile

(* The rules of the states as lists, at most one for a state here.         *)
IsRule(r) == r >= 0
Off(rules) == [i \in 1 .. Len(rules) + 1 |-> Len(SelectSeq(SubSeq(rules, 1, i - 1), IsRule))]
PoolOf(rules) == SelectSeq(rules, IsRule)

Comb(reject, ec, base, nxt, chk, acc, cond) ==
    [compressed |-> TRUE, reject |-> reject, ec |-> ec, meta |-> <<0, 1>>,
     base |-> base, def |-> <<-1, -1>>, nxt |-> nxt, chk |-> chk,
     acc_n |-> acc, acc_e |-> <<-1, -1>>, cond_n |-> cond, cond_b |-> cond,
     trail |-> <<0, 1>>, rule_line |-> <<3, 3 + base[1]>>, rule_eol |-> <<0, 0>>,
     accept_off |-> Off(acc), accept_pool |-> PoolOf(acc),
     boundary_off |-> <<0, 0, 0>>, boundary_pool |-> <<>>]
Full(reject, ec, nxt, acc, cond, trail) ==
    LET bounds == [i \in DOMAIN acc |-> IF i = 1 /\ trail # <<>> /\ trail[2] < 0 THEN 1 ELSE -1]
    IN  [compressed |-> FALSE, reject |-> reject, ec |-> ec, meta |-> <<>>, nxt |-> nxt,
         acc_n |-> acc, acc_e |-> [i \in DOMAIN acc |-> -1],
         cond_n |-> cond, cond_b |-> cond,
         trail |-> trail, rule_line |-> [r \in DOMAIN trail |-> r],
         rule_eol |-> [r \in DOMAIN trail |-> 0],
         accept_off |-> Off(acc), accept_pool |-> PoolOf(acc),
         boundary_off |-> Off(bounds), boundary_pool |-> PoolOf(bounds)]

CombA == Comb(TRUE, <<0, 1, 1, 0>>, <<0, 1>>, <<1, 1, 0>>, <<0, 0, 1>>, <<-1, 1>>, <<0>>)
CombB == Comb(TRUE, <<1, 0, 1, 1>>, <<1, 0>>, <<0, 1, -1>>, <<1, 0, -1>>, <<0, -1>>, <<1>>)
CombC == Comb(FALSE, <<0, 0, 1, 0>>, <<0, 2>>, <<1, 0, 1, 0>>, <<0, 0, 1, 1>>, <<-1, 0>>, <<0>>)
FullA == Full(TRUE, <<0, 1, 1, 0>>, <<1, 1, -1, 0>>, <<-1, 1>>, <<0>>, <<0, 1>>)
FullB == Full(FALSE, <<1, 0, 0, 0>>, <<-1, 1, 0, 0>>, <<1, 0>>, <<1>>, <<0, -1>>)
FullC == Full(FALSE, <<0, 1, 0, 0>>, <<1, 1, -1, 2, 0, 2>>, <<-1, 1, 0>>, <<0, 2>>, <<0, 0>>)
FullD == Full(FALSE, <<1, 1, 1, 0>>, <<0, 1, 1, -1>>, <<-1, 0>>, <<0, 1>>, <<0, 0>>)
NoRules == Full(TRUE, <<0, 1, 1, 1>>, <<-1, -1, -1, -1>>, <<-1, -1>>, <<0>>, <<>>)

AllScanners == {CombA, CombB, CombC, FullA, FullB, FullC, FullD, NoRules}

(* Behind every header, inside and at the ends of the arrays, and inside   *)
(* of words.                                                               *)
SomeCuts == {0, 11, 30, 36, 39, 42, 47, 60, 73, 88, 100, 110}
=============================================================================
