---------------------------- MODULE MCScanMatch -----------------------------
(* The walks of ScanMatch's runs.  Rule 0 has a $, rule 2 a trailing        *)
(* context, fixed or marked; rule 1 is either plain or has a $ too.        *)
EXTENDS ScanMatch, FiniteSets

First(s) == IF s = {} THEN None ELSE CHOOSE r \in s : \A q \in s : r <= q

(* BOUND: every walk has the greatest length, and before its first byte     *)
(* every rule accepts or none does.                                        *)
Lists == {f \in [Length -> SUBSET Rule] : f[0] \in {{}, Rule}}
LineEnds == {e \in [Length -> BOOLEAN] : e[0] = FALSE}
Heads == [Length -> {{}, {2}}]
Dollars == {{0}, {0, 1}}
Trails == {[r \in Rule |-> IF r = 2 THEN t ELSE 0] : t \in {0, 1, Variable}}

Walk(n, list, e, h, d, t) ==
    [n |-> n, list |-> list,
     normal |-> [k \in Length |-> First(list[k] \ d)],
     eol |-> [k \in Length |-> First(list[k] \cap d)],
     heads |-> h, at_eol |-> e, dollar |-> d, trail |-> t]

AllWalks ==
    {w \in {Walk(MaxLength, list, e, h, d, t) :
                list \in Lists, e \in LineEnds, h \in Heads, d \in Dollars, t \in Trails} :
        Consistent(w)}
=============================================================================
