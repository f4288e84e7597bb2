----------------------------- MODULE WrittenFile ----------------------------
(***************************************************************************)
(* What a .l file says, line by line, without a parser: the reference for  *)
(* Generator.  A file is [decls, rules, code]: the lines of its first two  *)
(* sections and the text of the third.  A line has a text and says what it *)
(* is:                                                                     *)
(*   "conds"  declares the conditions names, exclusive or not;             *)
(*   "top", "code"  keeps code, a text; in the rules, early code (an       *)
(*            indented line) only in front of the first rule;              *)
(*   "rule", "eof"  has a scope of its own or not, an action, which calls  *)
(*            REJECT or not, and, if it is a rule, a pattern (of Patterns);*)
(*   "open", "close"  starts a block with a scope and ends it;             *)
(*   "wrong"  must be refused;   "other"  says nothing to the scanner.     *)
(***************************************************************************)
EXTENDS Languages, Characters

Everywhere == [any |-> TRUE, conds |-> <<>>]
NoScope == [any |-> FALSE, conds |-> <<>>]
NextAction == <<"|">>

DividerLine == <<"%", "%", NL>>
TextOf(lines) == FlattenSeq([i \in DOMAIN lines |-> lines[i].text])
SourceOf(f) == TextOf(f.decls) \o DividerLine \o TextOf(f.rules)
               \o (IF f.code = <<>> THEN <<>> ELSE DividerLine \o f.code)

(* The lines of some kinds, in order.                                      *)
Only(lines, kinds) == SelectSeq(lines, LAMBDA l : l.is \in kinds)
Where(lines, kinds) == SelectSeq([i \in DOMAIN lines |-> i], LAMBDA i : lines[i].is \in kinds)
KeptBy(lines) == FlattenSeq([i \in DOMAIN lines |-> lines[i].keeps])

(* The innermost block around line i: no more blocks were closed than      *)
(* opened on the way from its first line to i.                             *)
Count(lines, i, j, kind) == Cardinality({k \in i .. j : lines[k].is = kind})
Around(lines, i) ==
    {j \in 1 .. i - 1 :
        /\ lines[j].is = "open"
        /\ \A k \in j + 1 .. i - 1 :
              Count(lines, j + 1, k, "close") <= Count(lines, j + 1, k, "open")}
ScopeWritten(lines, i) ==
    IF lines[i].own THEN lines[i].scope
    ELSE IF Around(lines, i) = {} THEN NoScope
    ELSE lines[Max(Around(lines, i))].scope

(* The code at the head of yylex().                                        *)
PrologueWritten(lines) ==
    KeptBy(SelectSeq([i \in DOMAIN lines |->
                        [lines[i] EXCEPT !.is =
                            IF @ = "code" /\ lines[i].early
                               /\ \E j \in 1 .. i : lines[j].is \in {"rule", "eof"}
                            THEN "other" ELSE @]],
                     LAMBDA l : l.is = "code"))

LineNumber(f, i) ==
    1 + Cardinality({k \in DOMAIN (TextOf(f.decls) \o DividerLine
                                   \o TextOf(SubSeq(f.rules, 1, i - 1))) : SourceOf(f)[k] = NL})

(* The declared conditions, of those with the same name the last, and      *)
(* whether a scope takes in one of them.                                   *)
Declared(f) ==
    <<[name |-> "INITIAL", exclusive |-> FALSE]>>
    \o FlattenSeq([i \in DOMAIN Only(f.decls, {"conds"}) |->
            LET l == Only(f.decls, {"conds"})[i]
            IN [k \in DOMAIN l.names |-> [name |-> l.names[k], exclusive |-> l.exclusive]]])
CondsWritten(f) ==
    {Declared(f)[i] : i \in {j \in DOMAIN Declared(f) :
                                \A k \in j + 1 .. Len(Declared(f)) :
                                    Declared(f)[k].name # Declared(f)[j].name}}
TakesIn(scope, cond) ==
    scope.any \/ cond.name \in Range(scope.conds) \/ (scope.conds = <<>> /\ ~cond.exclusive)

(* What must be refused.                                                   *)
Wrong(f) == \/ \E i \in DOMAIN f.decls : f.decls[i].is = "wrong"
            \/ \E i \in DOMAIN f.rules : f.rules[i].is = "wrong"
            \/ /\ \E l \in Range(Only(f.rules, {"rule", "eof"})) : l.rejects
               /\ \E l \in Range(Only(f.rules, {"rule"})) : VariableTrail(l.pat)
=============================================================================
