----------------------------- MODULE ScanMatch ------------------------------
(***************************************************************************)
(* How yylex() chooses the rule of a match.  The DFA is walked over the    *)
(* input as far as it goes; on the way one of two bodies keeps what it     *)
(* needs: the ordinary one the last accepting state with and the last one  *)
(* without a $ rule, the one for scanners that use REJECT the longest      *)
(* match of every rule.  Trailing context is then cut off.                 *)
(*                                                                         *)
(* What the walk meets is an input: the rules that accept after each of    *)
(* its bytes (RuleTables shows that these are the right ones), the rules   *)
(* whose head ends there, and whether a newline or the end of the input    *)
(* comes next.                                                             *)
(***************************************************************************)
EXTENDS Integers, Sequences

CONSTANTS
    NRules,      \* rules of the scanner
    MaxLength,   \* BOUND: bytes of the longest walk
    Walks        \* the walks that can happen

Rule == 0 .. NRules - 1
None == -1
Length == 0 .. MaxLength
Variable == -1          \* yy_rule_trail_len of a rule with a marked boundary

WalkType ==
    [n : Length,                              \* bytes until the DFA stops
     list : [Length -> SUBSET Rule],          \* rules accepting after k bytes
     normal : [Length -> Rule \cup {None}],   \* the first of them without a $
     eol : [Length -> Rule \cup {None}],      \* and the first with one
     heads : [Length -> SUBSET Rule],         \* rules with a boundary here
     at_eol : [Length -> BOOLEAN],            \* newline or end comes next
     dollar : SUBSET Rule,
     trail : [Rule -> Length \cup {Variable}]]

IsFirst(r, s) == IF s = {} THEN r = None ELSE r \in s /\ \A q \in s : r <= q

(* accept_normal and accept_eol are the first rules of either kind, a rule *)
(* accepts only behind its trailing context, and boundaries belong to      *)
(* rules that have them.                                                   *)
Consistent(w) ==
    /\ \A k \in 0 .. w.n :
          /\ IsFirst(w.normal[k], w.list[k] \ w.dollar)
          /\ IsFirst(w.eol[k], w.list[k] \cap w.dollar)
          /\ \A r \in w.heads[k] : w.trail[r] = Variable
          /\ \A r \in w.list[k] :
                IF w.trail[r] = Variable THEN \E j \in 0 .. k : r \in w.heads[j]
                ELSE w.trail[r] <= k
    /\ \A r \in w.dollar : w.trail[r] = 0

ASSUME WalkAssumption ==
    /\ NRules \in Nat /\ MaxLength \in Nat
    /\ Walks \subseteq {w \in WalkType : Consistent(w)}

VARIABLES
    walk,         \* the input
    uses_reject,  \* which of the two bodies was generated
    scan,         \* bytes walked
    acc_n, acc_n_len, acc_e, acc_e_len, boundary,    \* the ordinary body
    match_lens,                                      \* the REJECT body
    rule, len,    \* the chosen rule and the length of its whole match
    text,         \* yyleng: without the trailing context
    tried,        \* the matches whose actions have run, in order
    pc            \* "walk", "choose", "action" or "none"

found == <<acc_n, acc_n_len, acc_e, acc_e_len, boundary, match_lens>>
vars == <<walk, uses_reject, scan, found, rule, len, text, tried, pc>>

(* What the two bodies keep of the state after k bytes.                    *)
KeepNormal(k) == walk.normal[k] # None
KeepEol(k) == walk.eol[k] # None
Counts(r, k) == r \in walk.list[k] /\ (r \in walk.dollar => walk.at_eol[k])

Init == /\ walk \in Walks /\ uses_reject \in BOOLEAN
        /\ uses_reject => \A r \in Rule : walk.trail[r] # Variable
        /\ scan = 0
        /\ acc_n = walk.normal[0] /\ acc_n_len = 0
        /\ acc_e = walk.eol[0] /\ acc_e_len = 0
        /\ boundary = [r \in Rule |-> IF r \in walk.heads[0] THEN 0 ELSE None]
        /\ match_lens = [r \in Rule |-> IF Counts(r, 0) THEN 0 ELSE None]
        /\ rule = None /\ len = 0 /\ text = 0 /\ tried = <<>> /\ pc = "walk"

(* One byte more, in the ordinary body.                                    *)
Advance == /\ pc = "walk" /\ scan < walk.n /\ ~uses_reject
           /\ scan' = scan + 1
           /\ boundary' = [r \in Rule |-> IF r \in walk.heads[scan + 1] THEN scan + 1
                                          ELSE boundary[r]]
           /\ IF KeepNormal(scan + 1)
              THEN acc_n' = walk.normal[scan + 1] /\ acc_n_len' = scan + 1
              ELSE UNCHANGED <<acc_n, acc_n_len>>
           /\ IF KeepEol(scan + 1)
              THEN acc_e' = walk.eol[scan + 1] /\ acc_e_len' = scan + 1
              ELSE UNCHANGED <<acc_e, acc_e_len>>
           /\ UNCHANGED <<walk, uses_reject, match_lens, rule, len, text, tried, pc>>

(* One byte more, in the REJECT body.                                      *)
LensAfter(k) == [r \in Rule |-> IF Counts(r, k) THEN k ELSE match_lens[r]]
Collect == /\ pc = "walk" /\ scan < walk.n /\ uses_reject
           /\ scan' = scan + 1
           /\ match_lens' = LensAfter(scan + 1)
           /\ UNCHANGED <<walk, uses_reject, acc_n, acc_n_len, acc_e, acc_e_len, boundary,
                          rule, len, text, tried, pc>>

Stop == /\ pc = "walk" /\ scan = walk.n
        /\ pc' = "choose"
        /\ UNCHANGED <<walk, uses_reject, scan, found, rule, len, text, tried>>

(* The ordinary body takes the match without $ if it is longer, or as long *)
(* and of an earlier rule; the match with a $ only at the end of a line.   *)
EolOk == acc_e # None /\ acc_e_len > 0 /\ walk.at_eol[acc_e_len]
NormalOk == acc_n # None /\ acc_n_len > 0
NormalWinsTies == acc_n_len >= acc_e_len
NormalWins == \/ acc_n_len > acc_e_len
              \/ acc_n_len = acc_e_len /\ acc_n # None /\ acc_n < acc_e
OrdinaryChoice ==
    IF EolOk /\ ~NormalWins THEN <<acc_e, acc_e_len>>
    ELSE IF NormalOk THEN <<acc_n, acc_n_len>>
    ELSE <<None, 0>>

(* The REJECT body takes the longest of what is left, the first of equals. *)
IsBest(r) == /\ match_lens[r] > 0
             /\ \A q \in Rule : \/ match_lens[q] < match_lens[r]
                                \/ match_lens[q] = match_lens[r] /\ r <= q
RejectChoices ==
    {<<r, match_lens[r]>> : r \in {q \in Rule : IsBest(q)}}
    \cup IF \A r \in Rule : match_lens[r] <= 0 THEN {<<None, 0>>} ELSE {}

(* The length of the text: a fixed context is given back, with a variable  *)
(* one the text ends at the boundary last seen, if that is not behind it.  *)
TextLengthWhole(r, n) ==
    IF walk.trail[r] > 0 /\ walk.trail[r] <= n THEN n - walk.trail[r] ELSE n
TextLength(r, n) ==
    IF walk.trail[r] > 0 /\ walk.trail[r] <= n THEN n - walk.trail[r]
    ELSE IF walk.trail[r] = Variable /\ boundary[r] # None /\ boundary[r] <= n THEN boundary[r]
    ELSE n

Take(choice) ==
    IF choice[1] = None
    THEN /\ pc' = "none" /\ rule' = None /\ len' = 0 /\ UNCHANGED <<text, tried>>
    ELSE /\ pc' = "action" /\ rule' = choice[1] /\ len' = choice[2]
         /\ text' = TextLength(choice[1], choice[2])
         /\ tried' = Append(tried, choice)

Choose == /\ pc = "choose" /\ ~uses_reject
          /\ Take(OrdinaryChoice)
          /\ UNCHANGED <<walk, uses_reject, scan, found>>

FindBest == /\ pc = "choose" /\ uses_reject
            /\ \E choice \in RejectChoices : Take(choice)
            /\ UNCHANGED <<walk, uses_reject, scan, found>>

(* An action rejects its match: the rule is out, the others keep theirs.   *)
LensWithoutLength(r) == [q \in Rule |-> IF match_lens[q] = match_lens[r] THEN None ELSE match_lens[q]]
LensWithout(r) == [match_lens EXCEPT ![r] = None]
Reject == /\ pc = "action" /\ uses_reject
          /\ match_lens' = LensWithout(rule)
          /\ pc' = "choose"
          /\ UNCHANGED <<walk, uses_reject, scan, acc_n, acc_n_len, acc_e, acc_e_len, boundary,
                         rule, len, text, tried>>

Next == Advance \/ Collect \/ Stop \/ Choose \/ FindBest \/ Reject

Spec == Init /\ [][Next]_vars

(***************************************************************************)
(* Properties.                                                             *)
(***************************************************************************)
TypeOK ==
    /\ walk \in WalkType /\ uses_reject \in BOOLEAN
    /\ scan \in 0 .. walk.n
    /\ acc_n \in Rule \cup {None} /\ acc_n_len \in 0 .. scan
    /\ acc_e \in Rule \cup {None} /\ acc_e_len \in 0 .. scan
    /\ boundary \in [Rule -> 0 .. scan \cup {None}]
    /\ match_lens \in [Rule -> 0 .. scan \cup {None}]
    /\ rule \in Rule \cup {None} /\ len \in 0 .. scan /\ text \in 0 .. scan
    /\ tried \in Seq(Rule \X Length)
    /\ pc \in {"walk", "choose", "action", "none"}

(* What a rule may match: a prefix that is not empty, in front of the end  *)
(* of a line if the rule has a $.                                          *)
Matching(r, k) ==
    /\ k \in 1 .. walk.n /\ r \in walk.list[k]
    /\ r \in walk.dollar => walk.at_eol[k]
Beats(m, r, k) == m[2] > k \/ (m[2] = k /\ m[1] <= r)

(* The one thing the ordinary body loses: the last accepting state with a  *)
(* $ rule was not at the end of a line, so no $ rule matches, though       *)
(* one may have matched before.                                            *)
DollarOverrun == ~uses_reject /\ acc_e_len > 0 /\ ~walk.at_eol[acc_e_len]
InTheRunning(r) == DollarOverrun => r \notin walk.dollar

(* The longest match, of the first of the rules that have it, is the one   *)
(* whose action runs first, in both bodies; the default rule only gets     *)
(* what no rule matches.  (yylex: choice of the rule.)                     *)
FirstIsBest ==
    /\ pc = "action" /\ Len(tried) = 1 =>
          /\ Matching(rule, len)
          /\ \A r \in Rule, k \in 1 .. walk.n :
                Matching(r, k) /\ InTheRunning(r) => Beats(<<rule, len>>, r, k)
    /\ pc = "none" /\ tried = <<>> =>
          \A r \in Rule, k \in 1 .. walk.n : InTheRunning(r) => ~Matching(r, k)

(* However often the actions reject, no match runs twice and none runs     *)
(* before a better one: the matches tried are real ones, from the best to  *)
(* the worst.  Nothing is left only when every rule that matches anything  *)
(* has had its turn.                                                       *)
RejectsInOrder ==
    /\ \A i \in DOMAIN tried :
          /\ Matching(tried[i][1], tried[i][2])
          /\ \A j \in 1 .. i - 1 : /\ Beats(tried[j], tried[i][1], tried[i][2])
                                   /\ tried[j] # tried[i]
    /\ uses_reject /\ pc = "none" =>
          \A r \in Rule, k \in 1 .. walk.n :
              Matching(r, k) => \E i \in DOMAIN tried : tried[i][1] = r

(* "`REJECT`: full priority-list fallback (rule-id ASC, length DESC)"      *)
(* (README.md:116): nothing is left only when every match, of every length *)
(* of every rule, has had its turn.  The code keeps one length for a rule  *)
(* and clears it with the rule, so the shorter matches are lost.           *)
RejectOffersAll ==
    uses_reject /\ pc = "none" =>
        \A r \in Rule, k \in 1 .. walk.n :
            Matching(r, k) => \E i \in DOMAIN tried : tried[i] = <<r, k>>

(* The text of a rule with trailing context ends where its head does: a    *)
(* fixed length before the end of the match, or at a marked boundary, if   *)
(* there is only one place for it.  (When head and context both vary, lex  *)
(* warns of a dangerous trailing context and the last boundary counts.)    *)
OneBoundary(r) ==
    \A j, k \in 0 .. walk.n : r \in walk.heads[j] /\ r \in walk.heads[k] => j = k
TextEndsHead ==
    pc = "action" =>
        IF walk.trail[rule] = Variable
        THEN text <= len /\ (OneBoundary(rule) => rule \in walk.heads[text])
        ELSE text = len - walk.trail[rule]
=============================================================================
