------------------------------ MODULE Generator -----------------------------
(***************************************************************************)
(* core_main() from the text of a .l file to the tables and the switches   *)
(* of the scanner: LexFile parses the text, RegexParser the patterns, and  *)
(* RuleTables compiles them.  Reading and writing of files is TablesFile's *)
(* part.                                                                   *)
(***************************************************************************)
EXTENDS LexFile, RegexParser, RuleTables, WrittenFile

CONSTANT Jobs       \* what lex is run on: records [chunks, file, args, full]

VARIABLES
    job,            \* the texts of the input files (chunks), what they say together (file, as
                    \* WrittenFile describes it), the options set by args, tables in full or not
    index,          \* the rule of out.rules that is compiled next
    uses_reject

vars == <<fileVars, tableVars, job, index, uses_reject>>

(***************************************************************************)
(* The input files, one behind the other, each ending a line; without a    *)
(* byte order mark and the carriage returns in front of line ends.         *)
(***************************************************************************)
CR == "\r"
BOM == "byte order mark"
EndingLine(text) == IF text # <<>> /\ Last(text) # NL THEN Append(text, NL) ELSE text
Joined(chunks) == FoldLeft(LAMBDA text, c : EndingLine(text) \o c, <<>>, chunks)
Normalised(text) ==
    LET kept == SelectSeq([i \in DOMAIN text |-> i],
                          LAMBDA i : ~(i = 1 /\ text[i] = BOM) /\ ~Pair(text, i, CR, NL))
    IN [k \in DOMAIN kept |-> text[kept[k]]]

Init == /\ job \in Jobs
        /\ Begin(Normalised(Joined(job.chunks)))
        /\ NoTables
        /\ use_eclasses = ~job.full
        /\ index = 1 /\ uses_reject = FALSE

Parse == /\ pc = "file"
         /\ ParseStep
         /\ UNCHANGED <<tableVars, job, index, uses_reject>>

(***************************************************************************)
(* The conditions: cond_id keeps the last number of a name.                *)
(***************************************************************************)
CondNamesOf(file) == <<"INITIAL">> \o [i \in DOMAIN file.conds |-> file.conds[i].name]
CondId(name) == Max({i \in DOMAIN CondNamesOf(out) : CondNamesOf(out)[i] = name}) - 1

(* REJECT as a whole word of an action.                                    *)
ContainsReject(action) ==
    \E i \in DOMAIN action :
        /\ action[i] = "REJECT"
        /\ {Peek(action, i - 1), Peek(action, i + 1)} \cap (IdentCont \ {"-"}) = {}

BeginRules == /\ pc = "file" /\ section = 4 /\ ok
              /\ out' = [out EXCEPT !.options = [o \in DOMAIN @ |-> @[o] \/ o \in job.args]]
              /\ uses_reject' = \E i \in DOMAIN out.rules : ContainsReject(out.rules[i].action)
              /\ InitNfa(<<FALSE>> \o [i \in DOMAIN out.conds |-> out.conds[i].exclusive])
              /\ pc' = "rules"
              /\ UNCHANGED <<src, pos, line, section, sc_blocks, ok, accept_rule, rule_bol,
                             rule_eol, rule_boundary_states, rule_trail, dfaVars, use_eclasses,
                             job, index>>

Fail == /\ pc' = "failed"
        /\ UNCHANGED <<fileVars, nfaVars, dfaVars, use_eclasses, job, index, uses_reject>>
RefuseFile == pc = "file" /\ section = 4 /\ ~ok /\ Fail

(***************************************************************************)
(* The loop over the rules.                                                *)
(***************************************************************************)
Compiling == pc = "rules" /\ index <= Len(out.rules)
ThisRule == out.rules[index]
Known == Range(ThisRule.scope.conds) \subseteq Range(CondNamesOf(out))
Sites == [any_state |-> ThisRule.scope.any,
          conds |-> {CondId(n) : n \in Range(ThisRule.scope.conds)}]
Env == [defs |-> out.defs, ci |-> out.options.case_insensitive, expanding |-> {}]
ThisPattern == ParsePattern(ThisRule.pattern, Env)

UnknownCondition == Compiling /\ ~Known /\ Fail
EofRule == /\ Compiling /\ Known /\ ThisRule.eof
           /\ AddEofRule(index, Sites)
           /\ index' = index + 1
           /\ UNCHANGED <<fileVars, dfaVars, use_eclasses, pc, job, uses_reject>>
PatternRule == /\ Compiling /\ Known /\ ~ThisRule.eof
               /\ \E pp \in {ThisPattern} :
                     /\ pp.tree # NoTree
                     /\ AddRule(pp.tree, pp.trail, Sites)
                     /\ ok' = (ok /\ pp.ok)
               /\ index' = index + 1
               /\ UNCHANGED <<src, pos, line, section, sc_blocks, out, dfaVars, use_eclasses,
                              pc, job, uses_reject>>
BadPattern == Compiling /\ Known /\ ~ThisRule.eof /\ ThisPattern.tree = NoTree /\ Fail

(* After the loop: errors, and REJECT with variable trailing context.      *)
Compiled == pc = "rules" /\ index > Len(out.rules)
RefusedIfErrors == ~ok
Refused == ~ok \/ (uses_reject /\ \E i \in DOMAIN rule_trail : rule_trail[i] < 0)
RefuseRules == Compiled /\ Refused /\ Fail
BuildDfa == /\ Compiled /\ ~Refused
            /\ Seed
            /\ UNCHANGED <<fileVars, use_eclasses, job, index, uses_reject>>
Determinise == /\ Expand \/ Finish
               /\ UNCHANGED <<fileVars, job, index, uses_reject>>

Exited == pc \in {"done", "failed"} /\ UNCHANGED vars

Next == \/ Parse \/ RefuseFile \/ BeginRules
        \/ UnknownCondition \/ EofRule \/ PatternRule \/ BadPattern
        \/ RefuseRules \/ BuildDfa \/ Determinise \/ Exited

Spec == Init /\ [][Next]_vars

(***************************************************************************)
(* What emit_c() prints from it: the numbers behind the names of the       *)
(* conditions, the switch over the rules, where | falls through to the     *)
(* next case, and the switch over the conditions at the end of the input.  *)
(***************************************************************************)
CondDefine(name) ==
    IF \E i \in DOMAIN out.conds : out.conds[i].name = name
    THEN Max({i \in DOMAIN out.conds : out.conds[i].name = name}) ELSE 0

NfaId(i) == IF out.rules[i].eof THEN -1
            ELSE Cardinality({j \in 1 .. i - 1 : ~out.rules[j].eof})
Cases == SelectSeq([i \in DOMAIN out.rules |->
                        [label |-> NfaId(i), action |-> out.rules[i].action]],
                   LAMBDA c : c.label >= 0)
Nothing == <<"nothing">>
Executed(yy_rule) ==
    LET entry == CHOOSE k \in DOMAIN Cases : Cases[k].label = yy_rule
        reached == {k \in entry .. Len(Cases) : Cases[k].action # Share}
    IN IF reached = {} THEN Nothing ELSE Cases[Min(reached)].action
ExecutedAtEofLast(c) == IF eof_rules[c + 1] = <<>> THEN Nothing
                        ELSE out.rules[Last(eof_rules[c + 1])].action
ExecutedAtEof(c) == IF eof_rules[c + 1] = <<>> THEN Nothing
                    ELSE out.rules[eof_rules[c + 1][1]].action

(***************************************************************************)
(* Properties.  Rule r of the tables is the line LineOf(r) of the file.    *)
(***************************************************************************)
Lines == job.file.rules
LineOf(r) == Where(Lines, {"rule"})[r + 1]
PatternOf(r) == Lines[LineOf(r)].pat
Active(r, cond, bol) == /\ TakesIn(ScopeWritten(Lines, LineOf(r)), cond)
                        /\ PatternOf(r).bol => bol
Dollar(r) == PatternOf(r).eol /\ ~HasTrail(PatternOf(r))
StateAfter(cond, bol, w) == After(Start(CondDefine(cond.name), bol), w)

(* What the parser of .l files hands on is what the file says: the rules   *)
(* in their order with the right scope (blocks end where their brace       *)
(* closes), action and line, the code in front of and between them, the    *)
(* conditions; and every pattern has the tree it was written for, with the *)
(* length of its trailing context (source.cpp parse_section1, 2 and 3,     *)
(* regex.cpp parse_pattern).  The line numbers are not claimed when a line *)
(* of section 1 begins with %% and goes on, which resets the count.        *)
Resets == \E l \in Range(job.file.decls) : Pair(l.text, 1, "%", "%")
ReadAs(r, i) ==
    /\ r.scope = ScopeWritten(Lines, i) /\ r.action = Lines[i].action
    /\ r.eof = (Lines[i].is = "eof")
    /\ ~Resets => r.line = LineNumber(job.file, i)
    /\ ~r.eof => ParsePattern(r.pattern, Env) =
                    [tree |-> Tree(Lines[i].pat), trail |-> TrailLength(Lines[i].pat), ok |-> TRUE]
ReadAsWritten ==
    pc = "rules" /\ index = 1 /\ ~Wrong(job.file) =>
        LET written == Where(Lines, {"rule", "eof"})
        IN /\ Len(out.rules) = Len(written)
           /\ \A k \in DOMAIN written : ReadAs(out.rules[k], written[k])
           /\ out.conds = Tail(Declared(job.file))
           /\ out.section_top = KeptBy(Only(job.file.decls, {"top"}))
           /\ out.section1_verbatim = KeptBy(Only(job.file.decls, {"code"}))
           /\ out.section2_prologue = PrologueWritten(Lines)
           /\ out.section3 = job.file.code

(* In the condition that BEGIN(name) enters, at the beginning of a line or *)
(* not, the state of the DFA after any word accepts exactly the rules that *)
(* the file activates there and whose pattern matches the word; its        *)
(* winners are the first of them with and without a $ (the whole pipeline  *)
(* from the text over nfa.cpp add_rule_to_nfa to dfa.cpp build_dfa).       *)
AcceptsExactly ==
    pc = "done" =>
        /\ \A r \in RuleId :
              LET words == Matches(PatternOf(r))
              IN \A cond \in CondsWritten(job.file), bol \in BOOLEAN, w \in Word :
                    LET id == StateAfter(cond, bol, w)
                    IN (id # None /\ r \in AcceptList(id)) <=> (Active(r, cond, bol) /\ w \in words)
        /\ \A id \in DOMAIN sets :
              /\ AcceptNormal(id) = Least({r \in AcceptList(id) : ~Dollar(r)})
              /\ AcceptEol(id) = Least({r \in AcceptList(id) : Dollar(r)})

(* The scanner notes the end of a head wherever the head of a rule with    *)
(* variable trailing context matches what was read, and nowhere else       *)
(* (accept_for's boundary rules).                                          *)
BoundariesExact ==
    pc = "done" =>
        \A r \in RuleId :
            LET heads == IF VariableTrail(PatternOf(r)) THEN Language(PatternOf(r).r) ELSE {}
            IN \A cond \in CondsWritten(job.file), bol \in BOOLEAN, w \in Word :
                  LET id == StateAfter(cond, bol, w)
                  IN id # None =>
                        (r \in BoundaryRules(id) <=> (Active(r, cond, bol) /\ w \in heads))

(* Giving back the length that parse_pattern() computed leaves a head that *)
(* the pattern's head matches before a rest that its context matches; with *)
(* a boundary, if the head has a fixed length, there is one place for it.  *)
TrailGivesBack ==
    pc = "done" =>
        \A r \in RuleId :
            LET p == PatternOf(r)
                trail == rule_trail[r + 1]
                Splits(w, k) == /\ SubSeq(w, 1, k) \in Language(p.r)
                                /\ SubSeq(w, k + 1, Len(w)) \in TailWords(p)
            IN \A w \in Matches(p) :
                  /\ trail >= 0 => Splits(w, Len(w) - trail)
                  /\ trail < 0 /\ FixedLength(p.r) >= 0 => Splits(w, FixedLength(p.r))

(* The case of a rule runs the action written for it, or, for |, that of   *)
(* the next rule that has one of its own, if that is not an <<EOF>> rule;  *)
(* and at the end of the input a condition runs its first <<EOF>> rule     *)
(* (codegen.cpp emit_action_dispatch, emit_eof_dispatch): the numbers of   *)
(* main.cpp's loop and of make_rule_map() agree.                           *)
ActionsAsWritten ==
    pc = "done" =>
        /\ \A r \in RuleId :
              LET own == {i \in LineOf(r) .. Len(Lines) :
                            Lines[i].is \in {"rule", "eof"} /\ Lines[i].action # NextAction}
              IN IF own = {} THEN Executed(r) = Nothing
                 ELSE Lines[Min(own)].is = "rule" => Executed(r) = Lines[Min(own)].action
        /\ \A cond \in CondsWritten(job.file) :
              LET here == {i \in DOMAIN Lines : Lines[i].is = "eof"
                                                /\ TakesIn(ScopeWritten(Lines, i), cond)}
              IN ExecutedAtEof(CondDefine(cond.name)) =
                    IF here = {} THEN Nothing ELSE Lines[Min(here)].action

(* A file with a mistake never becomes a scanner, and a file without one   *)
(* always does (the checks of main.cpp and the errors of both parsers).    *)
WrongRefused == pc \in {"done", "failed"} => (pc = "failed" <=> Wrong(job.file))

(* Every step of lex takes it further: the parser's rewinds never bring it *)
(* back to where it was, and each step of build_dfa() completes a row that *)
(* was missing.  With at most one row for each set of NFA states, and no   *)
(* deadlock, lex comes to an end with every file (parse_section2's rewinds *)
(* and build_dfa's queue).                                                 *)
Rows == Cardinality({i \in DOMAIN next : DOMAIN next[i] # {}})
AlwaysFurther ==
    [][\/ pc' # pc \/ section' > section \/ pos' > pos \/ index' > index
       \/ Rows' > Rows /\ IsInjective(sets')]_vars
=============================================================================
