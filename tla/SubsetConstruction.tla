------------------------- MODULE SubsetConstruction -------------------------
(***************************************************************************)
(* build_dfa(), step by step: eps_closure() with its stack, get_state()    *)
(* with its index of the sets numbered so far, the queue of states without *)
(* a row, and compute_meta_classes(); then the walk of the scanner over    *)
(* the finished table.  RuleTables takes the rows of the same construction *)
(* whole, to compose them with the rules they come from.                   *)
(***************************************************************************)
EXTENDS Integers, Sequences

CONSTANTS
    NfaState,
    N,           \* bytes (256)
    Nfas         \* the NFAs, each with the class table it is built with

Byte == 0 .. N - 1
None == -1       \* no transition

(* The class table has a byte in each class and tells apart all the bytes  *)
(* that an edge tells apart, as compute_eclasses() (ByteClasses) and       *)
(* identity_eclasses() leave it.                                           *)
ASSUME NfaAssumption ==
    /\ N \in Nat \ {0}
    /\ \A a \in Nfas :
           /\ a.edges \subseteq NfaState \X (SUBSET Byte) \X NfaState
           /\ a.starts \in Seq(NfaState)
           /\ a.nclasses \in 1 .. N
           /\ a.ec \in [Byte -> 0 .. a.nclasses - 1]
           /\ \A c \in 0 .. a.nclasses - 1 : \E b \in Byte : a.ec[b] = c
           /\ \A b1 \in Byte : \A b2 \in Byte : a.ec[b1] = a.ec[b2] =>
                  \A e \in a.edges : b1 \in e[2] <=> b2 \in e[2]

VARIABLES
    nfa,         \* its edges, its start states (two for each condition), ec, nclasses
    sets,        \* id_to_set: the NFA sets of the states 1, 2, ...; 0 is the dead state
    next,        \* their rows: for each class a state or None
    cond_starts, \* the state of each start state met so far
    work,        \* the queue
    cur, cl,     \* the state whose row is computed, 0 while seeding, and the class
    set, stack,  \* eps_closure(): the set so far, and its states not looked at yet
    meta, nmeta, \* the meta class of each class
    at,          \* the scanner: the state it is in, or None,
    last,        \* and the start it took or the byte it read last
    pc           \* "loop", "close", "meta" or "walk"

buildVars == <<sets, next, cond_starts, work>>
metaVars == <<meta, nmeta>>
walkVars == <<at, last>>
vars == <<nfa, buildVars, cur, cl, set, stack, metaVars, walkVars, pc>>

Class == 0 .. nfa.nclasses - 1

EpsTargetsAny(E, s) == {e[3] : e \in {f \in E : f[1] = s}}
EpsTargets(E, s) == {e[3] : e \in {f \in E : f[1] = s /\ f[2] = {}}}
Targets(E, S, b) == {e[3] : e \in {f \in E : f[1] \in S /\ b \in f[2]}}

(* class_reps(): the first byte of a class.                                *)
RepSame(c) == c
Rep(c) == CHOOSE b \in Byte : nfa.ec[b] = c /\ \A d \in Byte : nfa.ec[d] = c => b <= d

(* The number get_state() gives the set, and what it adds to the tables.   *)
KnownButLast == \E i \in 1 .. Len(sets) - 1 : sets[i] = set
Known == \E i \in DOMAIN sets : sets[i] = set
Id == IF Known THEN CHOOSE i \in DOMAIN sets : sets[i] = set ELSE Len(sets) + 1
Numbered == IF Known THEN sets ELSE Append(sets, set)
Rows == IF Known THEN next ELSE Append(next, [c \in Class |-> None])

Init == /\ nfa \in Nfas
        /\ sets = <<>> /\ next = <<>> /\ cond_starts = <<>> /\ work = <<>>
        /\ cur = 0 /\ cl = nfa.nclasses
        /\ set = {} /\ stack = {}
        /\ meta = <<>> /\ nmeta = 0
        /\ at = None /\ last = <<>> /\ pc = "loop"

(* eps_closure(S) is entered.                                              *)
Enter(S) == set' = S /\ stack' = S /\ pc' = "close"

(* A start state; then the queue is worked off class by class.             *)
AllSeeded == Len(cond_starts) = Len(nfa.starts)
Seed == /\ pc = "loop" /\ ~AllSeeded
        /\ Enter({nfa.starts[Len(cond_starts) + 1]})
        /\ UNCHANGED <<nfa, buildVars, cur, cl, metaVars, walkVars>>

Take == /\ pc = "loop" /\ AllSeeded /\ cl = nfa.nclasses /\ work # <<>>
        /\ cur' = Head(work) /\ work' = Tail(work) /\ cl' = 0
        /\ UNCHANGED <<nfa, sets, next, cond_starts, set, stack, metaVars, walkVars, pc>>

Step == /\ pc = "loop" /\ cl < nfa.nclasses
        /\ Enter(Targets(nfa.edges, sets[cur], Rep(cl)))
        /\ UNCHANGED <<nfa, buildVars, cur, cl, metaVars, walkVars>>

(* One state from the stack; its place there does not matter to the set.   *)
UnseenOrSeen(s) == EpsTargets(nfa.edges, s)
Unseen(s) == EpsTargets(nfa.edges, s) \ set
Close == /\ pc = "close"
         /\ \E s \in stack : /\ set' = set \cup Unseen(s)
                             /\ stack' = (stack \ {s}) \cup Unseen(s)
         /\ UNCHANGED <<nfa, buildVars, cur, cl, metaVars, walkVars, pc>>

(* The closure of a start state is numbered and queued.                    *)
SeedState == /\ pc = "close" /\ stack = {} /\ cur = 0
             /\ sets' = Numbered /\ next' = Rows
             /\ cond_starts' = Append(cond_starts, Id)
             /\ work' = Append(work, Id)
             /\ pc' = "loop"
             /\ UNCHANGED <<nfa, cur, cl, set, stack, metaVars, walkVars>>

(* The class leads nowhere, or to a state, which is queued if it is new.   *)
NoTarget == /\ pc = "close" /\ stack = {} /\ cur # 0 /\ set = {}
            /\ cl' = cl + 1 /\ pc' = "loop"
            /\ UNCHANGED <<nfa, buildVars, cur, set, stack, metaVars, walkVars>>

QueuedSeedsOnly == work
Queued == IF Known THEN work ELSE Append(work, Id)
Target == /\ pc = "close" /\ stack = {} /\ cur # 0 /\ set # {}
          /\ sets' = Numbered
          /\ next' = [Rows EXCEPT ![cur][cl] = Id]
          /\ work' = Queued
          /\ cl' = cl + 1 /\ pc' = "loop"
          /\ UNCHANGED <<nfa, cond_starts, cur, set, stack, metaVars, walkVars>>

(* compute_meta_classes(), if it is asked for, gives the classes with the  *)
(* same column one number, which is a uint8_t.                             *)
Finish == /\ pc = "loop" /\ AllSeeded /\ cl = nfa.nclasses /\ work = <<>>
          /\ \/ pc' = "walk" /\ UNCHANGED <<cl, meta>>
             \/ pc' = "meta" /\ cl' = 0 /\ meta' = [c \in Class |-> 0]
          /\ UNCHANGED <<nfa, buildVars, cur, set, stack, nmeta, walkVars>>

SameColumn(c, d) == \A i \in DOMAIN next : next[i][c] = next[i][d]
MetaKnown == /\ pc = "meta" /\ cl < nfa.nclasses
             /\ \E d \in 0 .. cl - 1 : /\ SameColumn(d, cl)
                                       /\ meta' = [meta EXCEPT ![cl] = meta[d]]
             /\ cl' = cl + 1
             /\ UNCHANGED <<nfa, buildVars, cur, set, stack, nmeta, walkVars, pc>>

MetaNew == /\ pc = "meta" /\ cl < nfa.nclasses
           /\ \A d \in 0 .. cl - 1 : ~SameColumn(d, cl)
           /\ meta' = [meta EXCEPT ![cl] = nmeta % N] /\ nmeta' = nmeta + 1
           /\ cl' = cl + 1
           /\ UNCHANGED <<nfa, buildVars, cur, set, stack, walkVars, pc>>

MetaDone == /\ pc = "meta" /\ cl = nfa.nclasses
            /\ pc' = "walk"
            /\ UNCHANGED <<nfa, buildVars, cur, cl, set, stack, metaVars, walkVars>>

(* The scanner takes a start state, then a transition for each byte.       *)
Begin == /\ pc = "walk"
         /\ \E k \in DOMAIN cond_starts : at' = cond_starts[k] /\ last' = <<"start", k>>
         /\ UNCHANGED <<nfa, buildVars, cur, cl, set, stack, metaVars, pc>>

Transition(s, b) == next[s][nfa.ec[b]]
Read == /\ pc = "walk" /\ at # None
        /\ \E b \in Byte : at' = Transition(at, b) /\ last' = <<"byte", b>>
        /\ UNCHANGED <<nfa, buildVars, cur, cl, set, stack, metaVars, pc>>

Build == Seed \/ Take \/ Step \/ Close \/ SeedState \/ NoTarget \/ Target
         \/ Finish \/ MetaKnown \/ MetaNew \/ MetaDone
Next == Build \/ Begin \/ Read

Spec == Init /\ [][Next]_vars

(* The program goes on while build_dfa() runs.                             *)
FairSpec == Spec /\ WF_vars(Build)

-----------------------------------------------------------------------------
(* Properties.                                                             *)

(* The tables hold sets, rows and state numbers.                           *)
LastType ==
    \/ last = <<>>
    \/ \E k \in DOMAIN nfa.starts : last = <<"start", k>>
    \/ \E b \in Byte : last = <<"byte", b>>
TypeOK ==
    /\ nfa \in Nfas
    /\ sets \in Seq(SUBSET NfaState)
    /\ next \in Seq([Class -> DOMAIN sets \cup {None}]) /\ Len(next) = Len(sets)
    /\ cond_starts \in Seq(DOMAIN sets) /\ Len(cond_starts) <= Len(nfa.starts)
    /\ work \in Seq(DOMAIN sets)
    /\ cur \in {0} \cup DOMAIN sets /\ cl \in 0 .. nfa.nclasses
    /\ set \in SUBSET NfaState /\ stack \in SUBSET set
    /\ pc = "meta" => meta \in [Class -> Byte]
    /\ nmeta \in Nat
    /\ at \in DOMAIN sets \cup {None}
    /\ LastType
    /\ pc \in {"loop", "close", "meta", "walk"}

(* The scanner follows the NFA.                                            *)
Reached == IF at = None THEN {} ELSE sets[at]
Run == INSTANCE NfaRun WITH reached <- Reached

(* What eps_closure() was entered with, and the closure it is to compute.  *)
From == IF cur = 0 THEN {nfa.starts[Len(cond_starts) + 1]}
        ELSE Targets(nfa.edges, sets[cur], Rep(cl))

(* eps_closure() returns all the states that epsilon edges reach, however  *)
(* they run in circles, and no other.                                      *)
ClosureExact == pc = "close" /\ stack = {} => set = Run!Closure(nfa.edges, From)

(* No set gets two numbers, although get_state() and the loop over the     *)
(* queue look it up apart.                                                 *)
SetsDistinct == \A i \in DOMAIN sets : \A j \in DOMAIN sets : sets[i] = sets[j] => i = j

(* Each state has a way from a start state: it is one, or one with a       *)
(* smaller number leads to it.                                             *)
StatesReached ==
    \A i \in DOMAIN sets :
        \/ \E k \in DOMAIN cond_starts : cond_starts[k] = i
        \/ \E j \in 1 .. i - 1 : \E c \in Class : next[j][c] = i

(* The row of a state is right for every byte, not only for those that     *)
(* stood for their class when it was computed; no state is left out.       *)
RowsExact ==
    pc \in {"meta", "walk"} =>
        \A i \in DOMAIN sets : \A b \in Byte :
            LET n == Run!Closure(nfa.edges, Run!Moved(nfa.edges, sets[i], b))
                t == Transition(i, b)
            IN  IF n = {} THEN t = None ELSE t # None /\ sets[t] = n

(* Two classes have one meta class iff no state tells them apart, and the  *)
(* numbers run from 0 without a gap in what a uint8_t can hold.            *)
MetaExact ==
    pc = "meta" =>
        /\ \A c \in 0 .. cl - 1 : \A d \in 0 .. cl - 1 :
               meta[c] = meta[d] <=> \A i \in DOMAIN next : next[i][c] = next[i][d]
        /\ nmeta <= cl
        /\ \A c \in 0 .. cl - 1 : meta[c] < nmeta
        /\ \A m \in 0 .. nmeta - 1 : \E c \in 0 .. cl - 1 : meta[c] = m

(* The numbers that the rows, the starts and the queue hold stay those of  *)
(* the same sets, and a transition, once set, stays, also when a state is  *)
(* queued a second time.                                                   *)
NumbersStay ==
    [][/\ \A i \in DOMAIN sets : i \in DOMAIN sets' /\ sets'[i] = sets[i]
       /\ \A i \in DOMAIN next : \A c \in Class :
              next[i][c] # None => next'[i][c] = next[i][c]]_vars

(* A walk over the table is in the sets of states that the NFA is in.      *)
FollowsNfa == Run!Spec

(* build_dfa() returns.                                                    *)
Returns == <>(pc = "walk")
=============================================================================
