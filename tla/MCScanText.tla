----------------------------- MODULE MCScanText -----------------------------
(* The inputs of ScanText's runs: every text of up to MaxInput bytes.      *)
EXTENDS ScanText

CONSTANT MaxInput    \* BOUND: length of an input

AllInputs == UNION {[1 .. n -> Byte] : n \in 0 .. MaxInput}
=============================================================================
