----------------------------- MODULE MCGenerator ----------------------------
(***************************************************************************)
(* The files of Generator's run, written out with what they mean.  Two     *)
(* bytes, the newline and a.                                               *)
(***************************************************************************)
EXTENDS Generator

a == Code["a"]

(***************************************************************************)
(* Regexes: a text with the tree it means; level says what it must be put  *)
(* in parentheses for: 0 an operand, 1 with an operator behind it, 2 a     *)
(* concatenation, 3 alternatives.                                          *)
(***************************************************************************)
Spelled(text, t, level) == [text |-> text, t |-> t, level |-> level]
Up(x, level) == IF x.level <= level THEN x.text ELSE <<"(">> \o x.text \o <<")">>
Suffix(x, mark, t) == Spelled(Up(x, 0) \o mark, t, 1)
Seq2(x, y) == Spelled(Up(x, 2) \o Up(y, 1), Concat(x.t, y.t), 2)
Or2(x, y) == Spelled(Up(x, 3) \o <<"|">> \o Up(y, 2), Alt(x.t, y.t), 3)
Stars(x) == Suffix(x, <<"*">>, Star(x.t))
Pluses(x) == Suffix(x, <<"+">>, Plus(x.t))
Maybe(x) == Suffix(x, <<"?">>, Question(x.t))
Times2(x) == Suffix(x, <<"{", "2", "}">>, Repeat(x.t, 2, 2))
AtLeast1(x) == Suffix(x, <<"{", "1", ",", "}">>, Repeat(x.t, 1, kInf))
Between(x, m) == Suffix(x, <<"{", m, ",", "2", "}">>, Repeat(x.t, DigitValue(m), 2))

Plain == Spelled(<<"a">>, Class({a}), 0)
NewlineByte == Spelled(<<"\\", "n">>, Class({Newline}), 0)
AnyByte == Spelled(<<"[", "a", "\\", "n", "]">>, Class(Byte), 0)
NoText == Spelled(<<"(", ")">>, Empty, 0)
NoTail == Spelled(<<>>, NoTree, 0)

(* A pattern and its text.                                                 *)
Mark(on, c) == IF on THEN <<c>> ELSE <<>>
Pat(bol, r, s, eol) ==
    [text |-> Mark(bol, "^") \o r.text \o (IF s = NoTail THEN <<>> ELSE <<"/">> \o s.text)
              \o Mark(eol, "$"),
     pat  |-> [bol |-> bol, r |-> r.t, s |-> s.t, eol |-> eol]]
Bare(r) == Pat(FALSE, r, NoTail, FALSE)

(***************************************************************************)
(* Lines of the rules.  A prefix is a text with a scope; an action is a    *)
(* text with the action that lex must take from it.                        *)
(***************************************************************************)
In1(name) == [own |-> TRUE, scope |-> [any |-> FALSE, conds |-> <<name>>],
              text |-> <<"<", name, ">">>]
InBoth == [own |-> TRUE, scope |-> [any |-> FALSE, conds |-> <<"A", "INITIAL">>],
           text |-> <<"<", "A", ",", " ", "INITIAL", ">">>]
InAll == [own |-> TRUE, scope |-> Everywhere, text |-> <<"<", "*", ">">>]
NoPrefix == [own |-> FALSE, scope |-> NoScope, text |-> <<>>]

Does(text, value) == [text |-> text \o <<NL>>, value |-> value]
Do(c) == Does(<<c>>, <<c>>)
Pipe == Does(<<"|", " ">>, <<"|">>)
BracedText == <<"{", "\"", "}", "\"", "/", "/", "}", NL, "'", "{", "'", "/", "*", "{", "*", "/",
                "{", "x", "}", "}">>
Braced == Does(BracedText, BracedText)
NotPipe == Does(<<"|", " ", "x">>, <<"|", " ", "x">>)
Reject == Does(<<"REJECT", ";">>, <<"REJECT", ";">>)
Rejects(d) == d = Reject

RuleOf(indent, prefix, p, does) ==
    [is |-> "rule", text |-> indent \o prefix.text \o p.text \o <<" ">> \o does.text,
     own |-> prefix.own, scope |-> prefix.scope, pat |-> p.pat,
     action |-> does.value, rejects |-> Rejects(does)]
EofOf(prefix, does) ==
    [is |-> "eof", text |-> prefix.text \o <<"<", "<", "EOF", ">", ">", " ">> \o does.text,
     own |-> prefix.own, scope |-> prefix.scope,
     action |-> does.value, rejects |-> Rejects(does)]
Open(prefix, brace) == [is |-> "open", text |-> prefix.text \o brace \o <<NL>>,
                        scope |-> prefix.scope]
Close(indent) == [is |-> "close", text |-> indent \o <<"}", " ", NL>>]
Says(is, text) == [is |-> is, text |-> text]
Keeps(is, early, text, keeps) ==
    [is |-> is, text |-> text, early |-> early, keeps |-> keeps]

File(decls, rules, code) == [decls |-> decls, rules |-> rules, code |-> code]
Caseless == "case_insensitive"
JobOf(chunks, f, args, full) ==
    [chunks |-> chunks, file |-> f, args |-> args, full |-> full]
Job(f, args, full) == JobOf(<<SourceOf(f)>>, f, args, full)

(* The same file as lines with carriage returns in two input files, the    *)
(* first without the end of its last line.                                 *)
Dos(text) == FlattenSeq([i \in DOMAIN text |-> IF text[i] = NL THEN <<CR, NL>> ELSE <<text[i]>>])
Split(f) == LET n == Len(TextOf(f.decls))
            IN <<<<BOM>> \o Dos(SubSeq(SourceOf(f), 1, n - 1)),
                 Dos(SubSeq(SourceOf(f), n + 1, Len(SourceOf(f))))>>

(***************************************************************************)
(* BOUND, first family: two rules in two conditions; the first has any of  *)
(* the heads and contexts below, the second is one of two that overlap it. *)
(***************************************************************************)
Indent2 == <<" ", "\t">>
ExclusiveA == [is |-> "conds", text |-> <<"%", "x", " ", "A", NL>>,
               names |-> <<"A">>, exclusive |-> TRUE]
Operand == {Plain, AnyByte, NoText} \cup {Stars(Plain), Pluses(Plain), Maybe(Plain), Times2(Plain),
            AtLeast1(Plain), Between(Plain, "1"), Between(Plain, "0")}
Heads == Operand
         \cup UNION {{Seq2(x, y), Or2(x, y), Stars(Seq2(x, y)), AtLeast1(Or2(x, y))} :
                        x \in Operand, y \in {Plain, AnyByte, Stars(AnyByte)}}
Tails == {NoTail, Plain, Pluses(Plain), Or2(Plain, Seq2(Plain, Plain)), Times2(AnyByte),
          Or2(Seq2(NewlineByte, Plain), Times2(Plain))}
SecondRules ==
    {<<NoPrefix, RuleOf(<<>>, In1("A"), Pat(FALSE, Plain, NoTail, TRUE), Do("y"))>>,
     <<InBoth, RuleOf(<<>>, InAll, Pat(TRUE, Pluses(AnyByte), NoTail, FALSE), Do("y"))>>}
TableFiles ==
    {File(<<ExclusiveA>>, <<RuleOf(<<>>, q[1], Pat(bol, r, s, eol), Do("x")), q[2]>>, <<>>) :
        bol \in BOOLEAN, r \in Heads, s \in Tails, eol \in BOOLEAN, q \in SecondRules}

(***************************************************************************)
(* BOUND, second family: one rule, with everything that can stand for      *)
(* itself or for a class, alone, before an operator, next to and against   *)
(* another, and in front of a context.  The macro N is a|\n.               *)
(***************************************************************************)
LetterA(ci) == Class(WithCase({a}, ci))
Quote == "\""
Atoms(ci) ==
    {Spelled(<<"a">>, LetterA(ci), 0), Spelled(<<"A">>, Class(WithCase({65}, ci)), 0),
     Spelled(<<".">>, Class({a}), 0),
     Spelled(<<Quote, "a", " ", "/", "\\", Quote, Quote>>,
             Concat(Concat(Concat(LetterA(ci), Class({32})), Class({47})), Class({34})), 0),
     Spelled(<<Quote, Quote>>, Empty, 0),
     Spelled(<<"{", "N", "}">>, Alt(LetterA(ci), Class({Newline})), 0),
     Spelled(<<"{", ",">>, Concat(Class({123}), Class({44})), 2),
     Spelled(<<"\\", "x", "6", "1">>, LetterA(ci), 0),
     Spelled(<<"\\", "1", "4", "1">>, LetterA(ci), 0),
     Spelled(<<"\\", "/">>, Class({47}), 0),
     Spelled(<<"[", "b", "-", "a", "]">>, Class(WithCase({97, 98}, ci)), 0),
     Spelled(<<"[", "^", "]", "\\", "]", "\\", "n", "-", "]">>, Class(Byte \ {Newline, 93, 45}), 0),
     Spelled(<<"[", " ", "/", Quote, "]">>, Class({32, 47, 34}), 0),
     Spelled(<<"[", "[", ":", "upper", ":", "]", "]">>,
             Class(IF ci THEN Upper \cup Lower ELSE Upper), 0),
     Spelled(<<"[", "^", "[", ":", "digit", ":", "]", "]">>, Class(Byte), 0)}
Operators(x) == {x, Stars(x), Pluses(x), Maybe(x), Times2(x)}
Regexes(ci) ==
    Atoms(ci) \cup UNION {Operators(x) : x \in Atoms(ci)}
    \cup UNION {{Seq2(x, y), Or2(x, y), Stars(Or2(x, y)), Seq2(y, Or2(y, x))} :
                    x \in Atoms(ci), y \in Operators(Spelled(<<"a">>, LetterA(ci), 0))}
DefN == Says("other", <<"N", " ", "a", "|", "\\", "n", "\t", NL>>)
CaselessLine == Says("other", <<"%", "option", " ", "nodebug", " ", "i", NL>>)
OldN == Says("other", <<"N", " ", "(", NL>>)
SyntaxJobs ==
    {Job(File(<<OldN, DefN>>, <<RuleOf(<<>>, NoPrefix, p, Braced)>>, <<>>), {}, FALSE) :
        p \in {Bare(x) : x \in Regexes(FALSE)}
              \cup UNION {{Pat(TRUE, x, Plain, TRUE), Pat(FALSE, Plain, x, TRUE)} :
                              x \in Atoms(FALSE)}}
    \cup {Job(File(<<DefN>>, <<RuleOf(<<>>, NoPrefix, Bare(x), Do("x"))>>, <<>>),
              {Caseless, "yylineno"}, FALSE) : x \in Regexes(TRUE)}
    \cup {Job(File(<<CaselessLine, DefN>>, <<RuleOf(<<>>, NoPrefix, Bare(x), Do("x"))>>, <<>>),
              {}, FALSE) : x \in Atoms(TRUE)}

(***************************************************************************)
(* BOUND, third family: up to MaxLines lines of section 2 in any order in  *)
(* which no block is closed that is not open, no code is in a block, and   *)
(* nothing comes behind what is not closed (the next line might close it). *)
(***************************************************************************)
MaxLines == 3
PlainRule(indent, prefix, does) == RuleOf(indent, prefix, Bare(Plain), does)
RuleLines == {
    PlainRule(<<>>, NoPrefix, Do("x")), PlainRule(<<>>, NoPrefix, Pipe),
    PlainRule(Indent2, In1("A"), Braced), PlainRule(<<>>, InAll, NotPipe),
    EofOf(NoPrefix, Do("e")), EofOf(In1("A"), Do("f")),
    Open(In1("A"), <<"{">>), Open(InAll, <<NL, " ", "{", " ", "/", "*", "}", "*", "/">>),
    Close(<<>>), Close(Indent2)}
OtherLines == {
    Says("other", Indent2 \o <<NL>>), Says("other", <<NL>>),
    Says("other", <<"/", "*", NL, "%", "%", "*", "/", NL>>),
    Says("other", Indent2 \o <<"/", "*", "}", "*", "/", NL>>),
    Keeps("code", TRUE, <<" ", "}", NL>>, <<" ", "}", NL>>),
    Keeps("code", FALSE, <<"%", "{", " ", NL, "c", NL, "%", "}", NL>>, <<"c", NL>>)}
Unclosed == {Says("wrong", t) : t \in {
    <<"(", "a", NL>>, <<"[", "a", " ", "x", NL>>, <<Quote, "a", " ", "x", NL>>}}
WrongLines == {Says("wrong", t) : t \in {
    <<"<", "A", ">", NL>>, <<"<", "B", ">", "a", " ", "x", NL>>,
    <<"a", ")", " ", "x", NL>>, <<"a", "$", "/", "a", " ", "x", NL>>, <<"{", "U", "}", NL>>,
    <<"{", "R", "}", NL>>}}
    \cup Unclosed
    \cup {RuleOf(<<>>, NoPrefix, Pat(FALSE, Plain, Pluses(Plain), FALSE), Do("v")),
          PlainRule(<<>>, NoPrefix, Reject)}

Sensible(lines) ==
    \A i \in DOMAIN lines :
        /\ Count(lines, 1, i, "close") <= Count(lines, 1, i, "open")
        /\ lines[i].is = "code" /\ lines[i].early =>
              Count(lines, 1, i, "close") = Count(lines, 1, i, "open")
Inside(lines) == lines \o <<PlainRule(Indent2, NoPrefix, Do("z"))>>
Layouts == {s \in UNION {[1 .. n -> RuleLines] : n \in 1 .. MaxLines} : Sensible(s)}
Mixed == {s \in [1 .. 2 -> RuleLines \cup OtherLines \cup WrongLines] :
            Sensible(s) /\ s[1] \notin Unclosed}
Ends == {<<PlainRule(<<>>, NoPrefix, Do("y"))>>}
RecursiveR == Says("other", <<"R", " ", "{", "R", "}", NL>>)
LayoutJobs ==
    {Job(File(<<ExclusiveA>>, s \o t, <<>>), {}, FALSE) : s \in Layouts, t \in Ends}
    \cup UNION {LET f == File(<<ExclusiveA, RecursiveR>>, s, <<"c", NL>>)
                IN {Job(f, {}, FALSE), JobOf(Split(f), f, {}, FALSE)} : s \in Mixed}
    \cup {Job(File(<<ExclusiveA>>, Inside(s), <<>>), {}, FALSE) :
            s \in {t \in Layouts : Len(t) < MaxLines
                        /\ Count(t, 1, Len(t), "close") < Count(t, 1, Len(t), "open")}}

(***************************************************************************)
(* BOUND, fourth family: up to two lines of section 1.                     *)
(***************************************************************************)
Decls == {
    ExclusiveA, Says("other", <<NL>>), Says("other", <<"/", "*", NL, "*", "/">>),
    [is |-> "conds", text |-> <<"%", "s", "\t", "B", " ", "A", NL>>,
     names |-> <<"B", "A">>, exclusive |-> FALSE],
    Keeps("code", FALSE, <<"%", "%", "c", NL>>, <<"%", "%", "c", NL>>),
    Keeps("code", FALSE, <<" ", "c", NL>>, <<" ", "c", NL>>),
    Keeps("code", FALSE, <<"%", "{", NL, "c", NL, "%", "}", NL>>, <<"c", NL>>),
    Keeps("top", FALSE, <<"%", "top", " ", "{", "{", "}", "c", "}", NL>>, <<"{", "}", "c">>),
    Says("other", <<"%", "top", NL>>), Says("other", <<"N", " ", NL>>),
    Says("other", <<"%", "option", " ", "nocaseless", " ", "stack", NL>>),
    Says("wrong", <<"%", "option", " ", "c++", NL>>)}
InitialRules == <<PlainRule(<<>>, NoPrefix, Do("x")), EofOf(InAll, Do("e")),
                  PlainRule(<<>>, In1("INITIAL"), Do("y"))>>
RulesInA(decls) ==
    IF \E l \in Range(Only(decls, {"conds"})) : "A" \in Range(l.names)
    THEN <<PlainRule(<<>>, In1("A"), Do("z"))>> ELSE <<>>
DeclJobs ==
    {Job(File(d, InitialRules \o RulesInA(d), <<>>), {}, FALSE) :
        d \in UNION {[1 .. n -> Decls] : n \in 0 .. 2}}

AllJobs == {Job(f, {}, FALSE) : f \in TableFiles}
           \cup {Job(f, {}, TRUE) : f \in {g \in TableFiles : g.rules[1].own /\ g.rules[1].pat.eol}}
           \cup SyntaxJobs \cup LayoutJobs \cup DeclJobs
=============================================================================
