---------------------------- MODULE MCCombTables ----------------------------
(* The tables of CombTables' run: any rows for the live states, with none,  *)
(* the dead state or one live state as targets.                            *)
EXTENDS CombTables

Targets == {None, 0, 2}    \* BOUND: targets in the tables

AllTables ==
    {t \in [State -> [Class -> Targets]] : t[0] = [ec \in Class |-> None]}
=============================================================================
