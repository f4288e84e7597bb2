--------------------------- MODULE MCByteClasses ---------------------------
(* The edge lists of ByteClasses' run: up to MaxEdges sets, in any order.   *)
EXTENDS ByteClasses

CONSTANT MaxEdges    \* BOUND: edges of the NFA

AllEdgeLists == UNION {[1 .. n -> SUBSET Byte] : n \in 0 .. MaxEdges}
=============================================================================
