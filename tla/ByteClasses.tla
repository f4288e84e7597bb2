---------------------------- MODULE ByteClasses ----------------------------
(***************************************************************************)
(* compute_eclasses(): the alphabet is divided into classes of bytes that  *)
(* no edge of the NFA tells apart.  The class table starts with one class  *)
(* and is refined by each edge's byte set in turn; a refinement first      *)
(* scans the classes, giving each that the set cuts in two a new number,   *)
(* and then moves the bytes of the set to the new numbers.                 *)
(***************************************************************************)
EXTENDS Integers, Sequences, FiniteSets

CONSTANTS
    N,          \* bytes, and so the values a table entry can hold (256)
    EdgeLists   \* the byte sets of an NFA's edges, in the order of its states

Byte == 0 .. N - 1

ASSUME ClassAssumption ==
    N \in Nat \ {0} /\ EdgeLists \subseteq Seq(SUBSET Byte)

VARIABLES
    edges,      \* the byte sets of the edges
    next,       \* the edge compute_eclasses() is at
    ec,         \* the class of each byte, a uint8_t
    nclasses,
    remap,      \* refine(): the new number of a class, or -1
    size,       \* how many entries remap has
    class,      \* refine(): the class the scan is at
    pc          \* "edges": between two refinements; "scan": in one; "done"

vars == <<edges, next, ec, nclasses, remap, size, class, pc>>

(* An entry holds a number modulo the range of a uint8_t.                  *)
Entry(n) == n % N

(* refine() cuts class c by the set B: some of its bytes are in B, and     *)
(* some are not.                                                           *)
CutNotHalved(c, B) == \E b \in B : ec[b] = Entry(c)
Cut(c, B) == /\ \E b \in B : ec[b] = Entry(c)
             /\ \E b \in Byte \ B : ec[b] = Entry(c)

(* The table after the bytes of B in classes that were cut are moved.      *)
MovedWhole(B) ==
    [b \in Byte |-> IF remap[ec[b]] >= 0 THEN Entry(remap[ec[b]]) ELSE ec[b]]
Moved(B) ==
    [b \in Byte |-> IF remap[ec[b]] >= 0 /\ b \in B
                    THEN Entry(remap[ec[b]]) ELSE ec[b]]

Init == /\ edges \in EdgeLists /\ next = 1
        /\ ec = [b \in Byte |-> 0] /\ nclasses = 1
        /\ remap = <<>> /\ size = 0 /\ class = 0
        /\ pc = "edges"

(* The next edge is an epsilon edge.                                       *)
Skip == /\ pc = "edges" /\ next <= Len(edges)
        /\ edges[next] = {}
        /\ next' = next + 1
        /\ UNCHANGED <<edges, ec, nclasses, remap, size, class, pc>>

(* refine() is entered.                                                    *)
Refine == /\ pc = "edges" /\ next <= Len(edges)
          /\ edges[next] # {}
          /\ remap' = [c \in 0 .. nclasses - 1 |-> -1] /\ size' = nclasses
          /\ class' = 0
          /\ pc' = "scan"
          /\ UNCHANGED <<edges, next, ec, nclasses>>

(* The scan leaves a class whole.  Its bound is nclasses itself, so it     *)
(* goes on to the numbers given on the way.                                *)
Keep == /\ pc = "scan" /\ class < nclasses
        /\ ~Cut(class, edges[next])
        /\ class' = class + 1
        /\ UNCHANGED <<edges, next, ec, nclasses, remap, size, pc>>

(* The scan gives one half of a class a new number.  If there are more     *)
(* numbers than bytes, refine() and compute_eclasses() return at once.     *)
Split == /\ pc = "scan" /\ class < nclasses
         /\ Cut(class, edges[next])
         /\ remap' = [remap EXCEPT ![class] = nclasses]
         /\ nclasses' = nclasses + 1
         /\ IF nclasses' > N THEN pc' = "done" /\ UNCHANGED class
                             ELSE class' = class + 1 /\ UNCHANGED pc
         /\ UNCHANGED <<edges, next, ec, size>>

(* The scan is over.  With as many classes as bytes no edge can add any.   *)
Move == /\ pc = "scan" /\ class >= nclasses
        /\ ec' = Moved(edges[next])
        /\ next' = next + 1
        /\ pc' = IF nclasses >= N THEN "done" ELSE "edges"
        /\ UNCHANGED <<edges, nclasses, remap, size, class>>

Finish == /\ pc = "edges" /\ next > Len(edges)
          /\ pc' = "done"
          /\ UNCHANGED <<edges, next, ec, nclasses, remap, size, class>>

Next == Skip \/ Refine \/ Keep \/ Split \/ Move \/ Finish

Spec == Init /\ [][Next]_vars

-----------------------------------------------------------------------------
(* Properties.                                                             *)

(* The loop variables and tables keep their types.                         *)
TypeOK == /\ edges \in EdgeLists /\ next \in 1 .. Len(edges) + 1
          /\ ec \in [Byte -> Byte] /\ nclasses \in 1 .. N
          /\ size \in 0 .. N /\ remap \in [0 .. size - 1 -> Int]
          /\ class \in Nat
          /\ pc \in {"edges", "scan", "done"}
          /\ pc = "scan" => next <= Len(edges)

(* "Two bytes share a class iff every NFA edge either covers both or       *)
(* neither" (eclass.hpp:20), of the edges handled so far, and of all when  *)
(* compute_eclasses() returns, also when it returns early.                 *)
Together(b1, b2, n) == \A i \in 1 .. n : b1 \in edges[i] <=> b2 \in edges[i]
ClassesSeparate ==
    \A b1, b2 \in Byte :
        ec[b1] = ec[b2] <=>
            Together(b1, b2, IF pc = "done" THEN Len(edges) ELSE next - 1)

(* No class number is without a byte: class_reps() finds one for each, and *)
(* build_dfa() drops no column of its table.                               *)
EveryClassUsed ==
    pc # "scan" => \A c \in 0 .. nclasses - 1 : \E b \in Byte : ec[b] = c

(* A class that is cut has an entry in remap, which was sized before the   *)
(* scan, and its new half gets a number that a uint8_t can hold.           *)
SplitsFit ==
    pc = "scan" /\ class < nclasses /\ Cut(class, edges[next]) =>
        class < size /\ nclasses < N
=============================================================================
