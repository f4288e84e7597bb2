--------------------------- MODULE MCBufferStack ---------------------------
EXTENDS BufferStack, TLC

(* Buffers are interchangeable.                                            *)
BufferSymmetry == Permutations(Buffer)

(* BOUND: the start-condition stack shares no state with yytext, so it is *)
(* left to the programs that are not tidy.                                 *)
Depths == [t \in BOOLEAN |-> IF t THEN 0 ELSE 2]
=============================================================================
