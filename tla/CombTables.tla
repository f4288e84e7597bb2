----------------------------- MODULE CombTables -----------------------------
(***************************************************************************)
(* compress_dfa(): the rows of the transition table are packed into one    *)
(* pool of (yy_chk, yy_nxt) pairs, each row at an offset yy_base where its *)
(* transitions fall on free entries.  The generated scanner looks a        *)
(* transition up with YY_TRANSITION, without any bounds check.             *)
(***************************************************************************)
EXTENDS Integers, FiniteSets

CONSTANTS
    NStates,     \* states of the DFA; 0 is the dead state
    NClasses,    \* byte classes
    Tables       \* the transition tables a DFA can have

State == 0 .. NStates - 1
Live  == 1 .. NStates - 1
Class == 0 .. NClasses - 1
None  == -1      \* no transition; an entry no state owns

(* A target is None or a state, and the dead state has no transition.      *)
ASSUME CombAssumption ==
    /\ NStates \in Nat \ {0} /\ NClasses \in Nat \ {0}
    /\ Tables \subseteq [State -> [Class -> State \cup {None}]]
    /\ \A t \in Tables : \A ec \in Class : t[0][ec] = None

VARIABLES
    next,      \* the table to compress
    yy_base, yy_chk, yy_nxt,
    size,      \* entries of the pool
    order,     \* the states still to be packed
    cur,       \* the state being packed, or the dead state between two
    try,       \* the offset the search is at
    pc         \* "pack" or "done"

vars == <<next, yy_base, yy_chk, yy_nxt, size, order, cur, try, pc>>

(* The classes on which a state has a transition to a live state.          *)
Exceptions(s) == {ec \in Class : next[s][ec] > 0}

(* No transition of s, put at offset b, falls on an owned entry.           *)
FitsSomewhere(b, s) ==
    \E ec \in Exceptions(s) : b + ec < size => yy_chk[b + ec] = None
Fits(b, s) == \A ec \in Exceptions(s) : b + ec < size => yy_chk[b + ec] = None
Misses == try <= size /\ ~Fits(try, cur)

(* The pool grows to the longest of these lengths: to place s at offset b, *)
(* and at the end for any class to be looked up in any state.              *)
LongestOf(lengths, n) == n \in lengths /\ \A m \in lengths : m <= n
PlaceLengths(b, s) == {size} \cup {b + ec + 1 : ec \in Exceptions(s)}
PadLengthsShort == {size} \cup {yy_base[s] + NClasses - 1 : s \in State}
PadLengths == {size} \cup {yy_base[s] + NClasses : s \in State}

Init == /\ next \in Tables
        /\ yy_base = [s \in State |-> 0]
        /\ yy_chk = [i \in Class |-> None] /\ yy_nxt = [i \in Class |-> 0]
        /\ size = NClasses
        /\ order = {s \in Live : Exceptions(s) # {}}
        /\ cur = 0 /\ try = 0 /\ pc = "pack"

(* A state with the most transitions comes first, whichever of several     *)
(* std::sort() leaves in front; the search for its offset begins.          *)
Pick == /\ pc = "pack" /\ cur = 0
        /\ \E s \in order :
               /\ \A t \in order : Cardinality(Exceptions(t)) <= Cardinality(Exceptions(s))
               /\ cur' = s /\ order' = order \ {s}
        /\ try' = 0
        /\ UNCHANGED <<next, yy_base, yy_chk, yy_nxt, size, pc>>

(* It does not fit here.                                                   *)
Advance == /\ cur # 0
           /\ Misses
           /\ try' = try + 1
           /\ UNCHANGED <<next, yy_base, yy_chk, yy_nxt, size, order, cur, pc>>

(* It fits, or the search came to its end and its offset stays 0.          *)
Place ==
    LET b == IF try <= size THEN try ELSE 0
        mine(i) == i - b \in Exceptions(cur)
    IN  /\ cur # 0
        /\ ~Misses
        /\ yy_base' = [yy_base EXCEPT ![cur] = b]
        /\ \E n \in PlaceLengths(b, cur) :
               /\ LongestOf(PlaceLengths(b, cur), n)
               /\ size' = n
               /\ yy_chk' = [i \in 0 .. n - 1 |-> IF mine(i) THEN cur
                                ELSE IF i < size THEN yy_chk[i] ELSE None]
               /\ yy_nxt' = [i \in 0 .. n - 1 |-> IF mine(i) THEN next[cur][i - b]
                                ELSE IF i < size THEN yy_nxt[i] ELSE 0]
        /\ cur' = 0
        /\ UNCHANGED <<next, order, try, pc>>

(* All are packed; the pool is padded.                                     *)
Pad == /\ pc = "pack" /\ cur = 0 /\ order = {}
       /\ \E n \in PadLengths :
              /\ LongestOf(PadLengths, n)
              /\ size' = n
              /\ yy_chk' = [i \in 0 .. n - 1 |-> IF i < size THEN yy_chk[i] ELSE None]
              /\ yy_nxt' = [i \in 0 .. n - 1 |-> IF i < size THEN yy_nxt[i] ELSE 0]
       /\ pc' = "done"
       /\ UNCHANGED <<next, yy_base, order, cur, try>>

Next == Pick \/ Advance \/ Place \/ Pad

Spec == Init /\ [][Next]_vars

(* YY_TRANSITION of a scanner with compressed tables.                      *)
LookupUnchecked(s, ec) == yy_nxt[yy_base[s] + ec]
Lookup(s, ec) == IF yy_chk[yy_base[s] + ec] = s THEN yy_nxt[yy_base[s] + ec] ELSE None

-----------------------------------------------------------------------------
(* Properties.                                                             *)

(* The tables keep their types and the pool at least one row of entries.   *)
TypeOK == /\ next \in Tables
          /\ size \in Nat /\ size >= NClasses
          /\ yy_base \in [State -> Nat]
          /\ yy_chk \in [0 .. size - 1 -> Live \cup {None}]
          /\ yy_nxt \in [0 .. size - 1 -> State]
          /\ order \subseteq Live /\ cur \in State /\ try \in Nat
          /\ pc \in {"pack", "done"}

(* No lookup of the scanner reads past the end of the pool.                *)
LookupsInside ==
    pc = "done" => \A s \in State, ec \in Class : yy_base[s] + ec < size

(* The scanner finds in the compressed tables the transitions of the DFA;  *)
(* a transition to the dead state has become none at all.                  *)
LookupsAgree ==
    pc = "done" => \A s \in State, ec \in Class :
        Lookup(s, ec) = IF next[s][ec] > 0 THEN next[s][ec] ELSE None

(* The search never fails: the place behind the pool fits any row, so no   *)
(* row is put at offset 0 over another.                                    *)
SearchSucceeds == cur # 0 => try <= size
=============================================================================
