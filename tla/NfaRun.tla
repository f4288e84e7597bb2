------------------------------- MODULE NfaRun -------------------------------
(***************************************************************************)
(* What the tables of a scanner promise: to follow the NFA.  A walk begins *)
(* in the states that a start state reaches without reading, and each byte *)
(* leads to all the states the NFA can then be in, until there are none.   *)
(***************************************************************************)
CONSTANTS
    NfaState, Byte,
    Nfas         \* records with the edges <<from, bytes, to>> and the start states

VARIABLES
    nfa,
    reached,     \* the states the NFA can be in; none when it is not walking
    last         \* the start it took or the byte it read last

(* The states that the states of S reach by the byte b; an edge without    *)
(* bytes is an epsilon edge.                                               *)
Moved(E, S, b) == {s \in NfaState : \E e \in E : e[1] \in S /\ b \in e[2] /\ e[3] = s}

(* The least set of states that holds S and is closed under epsilon edges. *)
Closed(E, T) == \A e \in E : e[1] \in T /\ e[2] = {} => e[3] \in T
Closure(E, S) ==
    {s \in NfaState : \A T \in SUBSET NfaState : S \subseteq T /\ Closed(E, T) => s \in T}

Init == nfa \in Nfas /\ reached = {} /\ last = <<>>

Begin == \E k \in DOMAIN nfa.starts :
             /\ reached' = Closure(nfa.edges, {nfa.starts[k]})
             /\ last' = <<"start", k>>

Read == /\ reached # {}
        /\ \E b \in Byte :
               /\ reached' = Closure(nfa.edges, Moved(nfa.edges, reached, b))
               /\ last' = <<"byte", b>>

Next == (Begin \/ Read) /\ UNCHANGED nfa

Spec == Init /\ [][Next]_<<nfa, reached, last>>
=============================================================================
