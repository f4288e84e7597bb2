------------------------ MODULE MCSubsetConstruction ------------------------
(* The NFAs of SubsetConstruction's run: the start states of one condition  *)
(* or of two, the entries of a rule for all lines and of one with ^, and    *)
(* any edges between the states behind, as rules in a row, with | and with  *)
(* stars in circles can leave them.                                         *)
EXTENDS SubsetConstruction, FiniteSetsExt

Labels == {{}, {0}, {0, 1}}    \* BOUND: epsilon, and two sets that overlap

(* The coarsest class table, numbered by the first bytes, and the identity. *)
Same(E, b1, b2) == \A e \in E : b1 \in e[2] <=> b2 \in e[2]
Firsts(E) == {b \in Byte : \A d \in 0 .. b - 1 : ~Same(E, d, b)}
Coarsest(E) ==
    [b \in Byte |-> Cardinality({d \in Firsts(E) : \E f \in Firsts(E) :
                                    Same(E, f, b) /\ d < f})]
WithTable(E, starts, ec) ==
    [edges |-> E, starts |-> starts, ec |-> ec, nclasses |-> 1 + Max({ec[b] : b \in Byte})]
WithTables(E, starts) ==
    {WithTable(E, starts, Coarsest(E)), WithTable(E, starts, [b \in Byte |-> b])}

Entries(starts, bol) ==
    {<<s, {}, 2>> : s \in starts} \cup {<<s, {}, 3>> : s \in bol}
UpTo2(X) == {{}} \cup {{e, f} : e \in X, f \in X}
UpTo3(X) == UpTo2(X) \cup {{e, f, g} : e \in X, f \in X, g \in X}
InnerEdges(states) == states \X Labels \X states

(* BOUND: three edges behind the entries of one condition, two of two.      *)
OneCondition ==
    UNION {WithTables(Entries({0, 1}, {1}) \cup E, <<0, 1>>) : E \in UpTo3(InnerEdges(2 .. 4))}
TwoConditions ==
    UNION {WithTables(Entries({0, 1, 4, 5}, {1, 5}) \cup E, <<0, 1, 4, 5>>) :
               E \in UpTo2(InnerEdges(2 .. 3))}

AllNfas == OneCondition \cup TwoConditions
=============================================================================
