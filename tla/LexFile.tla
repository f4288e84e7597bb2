------------------------------- MODULE LexFile ------------------------------
(***************************************************************************)
(* The parser of .l files: parse_section1(), parse_section2() and          *)
(* parse_section3() over the text src.  One action is one round of a       *)
(* section's loop, which looks at the start of a line, or behind the brace *)
(* that closed an action.  Columns and the texts of diagnostics are left   *)
(* out.  A name is one symbol in a list of start conditions.               *)
(***************************************************************************)
EXTENDS Characters, FiniteSets

VARIABLES
    src, pos, line,    \* the text, where the parser is, the line it counts
    section,           \* 1, 2 or 3; 4 behind the end
    sc_blocks,         \* the scopes of the open <sc>{ blocks, outermost first
    out,               \* the LexFile
    ok                 \* no error was reported

fileVars == <<src, pos, line, section, sc_blocks, out, ok>>

EveryWhere == [any |-> TRUE, conds |-> <<>>]
Default == [any |-> FALSE, conds |-> <<>>]
Share == <<"|">>

(***************************************************************************)
(* Options.  A key sets one option; some are refused, the rest are ignored *)
(* (those that lex does not know with a warning).                          *)
(***************************************************************************)
Sets(keys, option, value) == [keys |-> keys, option |-> option, value |-> value]
OptionTable == {
    Sets({"noyywrap"}, "noyywrap", TRUE), Sets({"yywrap"}, "noyywrap", FALSE),
    Sets({"yylineno"}, "yylineno", TRUE), Sets({"noyylineno"}, "yylineno", FALSE),
    Sets({"case-insensitive", "caseless", "i"}, "case_insensitive", TRUE),
    Sets({"case-sensitive", "nocaseless"}, "case_insensitive", FALSE),
    Sets({"nodefault", "s"}, "nodefault", TRUE), Sets({"default"}, "nodefault", FALSE),
    Sets({"debug", "d"}, "debug", TRUE), Sets({"nodebug"}, "debug", FALSE),
    Sets({"reentrant"}, "reentrant", TRUE), Sets({"noreentrant"}, "reentrant", FALSE),
    Sets({"bison-bridge"}, "bison_bridge", TRUE),
    Sets({"bison-locations"}, "bison_locations", TRUE),
    Sets({"array"}, "array", TRUE), Sets({"pointer"}, "array", FALSE),
    Sets({"noyyalloc"}, "noyyalloc", TRUE), Sets({"noyyrealloc"}, "noyyrealloc", TRUE),
    Sets({"noyyfree"}, "noyyfree", TRUE)}
Unsupported == {"c++", "lex-compat", "posix-compat", "header"}
NoOptions == [o \in {e.option : e \in OptionTable} |-> FALSE]
ApplyOption(options, key) ==
    [o \in DOMAIN options |->
        IF \E e \in OptionTable : e.option = o /\ key \in e.keys
        THEN (CHOOSE e \in OptionTable : key \in e.keys).value
        ELSE options[o]]

(***************************************************************************)
(* Moving through the text.                                                *)
(***************************************************************************)
EndOfLine(p) == UpTo(src, p, {NL})
PastEol(p) == IF Peek(src, p) = NL THEN p + 1 ELSE p
NextLine(p) == PastEol(EndOfLine(p))
EndsLine(p) == Peek(src, p) \in {NL, End}

PastComment(p) ==
    LET ends == {q \in p + 2 .. Len(src) - 1 : Pair(src, q, "*", "/")}
    IN IF ends = {} THEN Len(src) + 1 ELSE Min(ends) + 2

(* The line that starts with %} behind the one with %{ at p.               *)
VerbatimEnd(p) ==
    LET ends == {q \in NextLine(p) .. Len(src) : src[q - 1] = NL /\ Pair(src, q, "%", "}")}
    IN IF ends = {} THEN Len(src) + 1 ELSE Min(ends)
Verbatim(p) == Cut(src, NextLine(p), VerbatimEnd(p))

(* The brace that closes the one at p, of a %top block.                    *)
Braces(p, q, c) == Cardinality({i \in p .. q : Peek(src, i) = c})
ClosingBrace(p) ==
    LET ends == {q \in p .. Len(src) : src[q] = "}" /\ Braces(p, q, "{") = Braces(p, q, "}")}
    IN IF ends = {} THEN Len(src) + 1 ELSE Min(ends)

Begin(text) == /\ src = text /\ pos = 1 /\ line = 1 /\ section = 1 /\ sc_blocks = <<>>
               /\ out = [conds |-> <<>>, defs |-> <<>>, options |-> NoOptions, rules |-> <<>>,
                         section_top |-> <<>>, section1_verbatim |-> <<>>,
                         section2_prologue |-> <<>>, section3 |-> <<>>]
               /\ ok = TRUE

Newlines(p, q) == Cardinality({i \in p .. q - 1 : src[i] = NL})
GoTo(q) == /\ pos' = q
           /\ line' = line + Newlines(pos, q)
           /\ UNCHANGED src
Keep(field, text) == out' = [out EXCEPT ![field] = @ \o text]

(***************************************************************************)
(* Section 1.  A line of it by its first symbols.                          *)
(***************************************************************************)
Divider(p) == Pair(src, p, "%", "%")
DividerEnd(p) == Over(src, p + 2, Blank)
IsTop == Pair(src, pos, "%", "top") /\ Peek(src, Over(src, pos + 2, Blank)) = "{"
IsOption == Pair(src, pos, "%", "option")
IsCondDecl == /\ Peek(src, pos) = "%" /\ Peek(src, pos + 1) \in {"s", "x"}
              /\ Peek(src, pos + 2) \in Blank
In(sections) == section \in sections /\ pos <= Len(src)

SkipNewline == /\ In({1, 2}) /\ src[pos] = NL
               /\ GoTo(pos + 1)
               /\ UNCHANGED <<section, sc_blocks, out, ok>>

EndSection1 == /\ In({1}) /\ Divider(pos) /\ EndsLine(DividerEnd(pos))
               /\ GoTo(PastEol(DividerEnd(pos)))
               /\ section' = 2
               /\ UNCHANGED <<sc_blocks, out, ok>>

(* The rewind of a line that only begins like a divider sets the line      *)
(* number back to 1.                                                       *)
NotDivider == /\ In({1}) /\ Divider(pos) /\ ~EndsLine(DividerEnd(pos))
              /\ pos' = NextLine(pos)
              /\ line' = 1 + Newlines(pos, NextLine(pos))
              /\ Keep("section1_verbatim", Cut(src, pos, NextLine(pos)))
              /\ UNCHANGED <<src, section, sc_blocks, ok>>

TopBlock == /\ In({1}) /\ IsTop
            /\ LET p == Over(src, pos + 2, Blank)
               IN /\ GoTo(NextLine(ClosingBrace(p)))
                  /\ Keep("section_top", Cut(src, p + 1, ClosingBrace(p)))
            /\ UNCHANGED <<section, sc_blocks, ok>>

(* %{ ... %}, also of section 2.                                           *)
VerbatimBlock == /\ In({1, 2}) /\ Pair(src, pos, "%", "{")
                 /\ GoTo(NextLine(VerbatimEnd(pos)))
                 /\ Keep(IF section = 1 THEN "section1_verbatim" ELSE "section2_prologue",
                         Verbatim(pos))
                 /\ UNCHANGED <<section, sc_blocks, ok>>

OptionLine == /\ In({1}) /\ IsOption
              /\ LET keys == SelectSeq(Cut(src, pos + 2, EndOfLine(pos)),
                                       LAMBDA k : k \notin Blank)
                 IN /\ out' = [out EXCEPT !.options = FoldLeft(ApplyOption, @, keys)]
                    /\ ok' = (ok /\ Range(keys) \cap Unsupported = {})
              /\ GoTo(NextLine(pos))
              /\ UNCHANGED <<section, sc_blocks>>

CondNames(p) ==
    SelectSeq(Cut(src, p, Over(src, p, Letter \cup Digit \cup {"_"} \cup Blank)),
              LAMBDA c : c \notin Blank)
CondDecl == /\ In({1}) /\ IsCondDecl
            /\ LET names == CondNames(pos + 2)
               IN Keep("conds", [i \in DOMAIN names |->
                                    [name |-> names[i], exclusive |-> src[pos + 1] = "x"]])
            /\ GoTo(NextLine(pos))
            /\ UNCHANGED <<section, sc_blocks, ok>>

CommentLine == /\ In({1, 2}) /\ Pair(src, pos, "/", "*")
               /\ GoTo(PastComment(pos))
               /\ UNCHANGED <<section, sc_blocks, out, ok>>

IndentedLine == /\ In({1}) /\ src[pos] \in Blank
                /\ GoTo(NextLine(pos))
                /\ Keep("section1_verbatim", Cut(src, pos, NextLine(pos)))
                /\ UNCHANGED <<section, sc_blocks, ok>>

RECURSIVE Rstrip(_)
Rstrip(text) == IF text # <<>> /\ Last(text) \in Space THEN Rstrip(Front(text)) ELSE text
Definition == /\ In({1}) /\ src[pos] \in IdentStart
              /\ LET q   == Over(src, pos, IdentCont)
                     pat == Rstrip(Cut(src, Over(src, q, Blank), EndOfLine(pos)))
                 IN IF pat = <<>> THEN UNCHANGED out
                    ELSE Keep("defs", <<<<Cut(src, pos, q), pat>>>>)
              /\ GoTo(NextLine(pos))
              /\ UNCHANGED <<section, sc_blocks, ok>>

UnknownLine == /\ In({1}) /\ src[pos] \notin IdentStart \cup Space
               /\ ~Divider(pos) /\ ~IsTop /\ ~IsOption /\ ~IsCondDecl
               /\ ~Pair(src, pos, "%", "{") /\ ~Pair(src, pos, "/", "*")
               /\ GoTo(NextLine(pos))
               /\ UNCHANGED <<section, sc_blocks, out, ok>>

(***************************************************************************)
(* Section 2.  <A,B> or <*> at p, and whether it opens a block: a brace    *)
(* follows, perhaps on another line, with at most a comment behind it.     *)
(***************************************************************************)
HasPrefix(p) == Peek(src, p) = "<" /\ Peek(src, p + 1) # "<"
PrefixEnd(p) == LET q == UpTo(src, p + 1, {">", NL})
                IN IF Peek(src, q) = ">" THEN q + 1 ELSE q
Prefix(p) ==
    IF Pair(src, p + 1, "*", ">") THEN EveryWhere
    ELSE [any |-> FALSE, conds |-> SelectSeq(Cut(src, p + 1, UpTo(src, p + 1, {">", NL})),
                                             LAMBDA c : c \notin Blank \cup {","})]

BraceAfter(p) == Over(src, PrefixEnd(p), Space)
OpenerEnd(p) ==
    LET q == Over(src, BraceAfter(p) + 1, Blank)
    IN IF ~Pair(src, q, "/", "*") THEN q
       ELSE Over(src, Min({PastComment(q), EndOfLine(q)}), Blank)
OpensBlock(p) == HasPrefix(p) /\ Peek(src, BraceAfter(p)) = "{" /\ EndsLine(OpenerEnd(p))

ClosesBlock(p) ==
    sc_blocks # <<>> /\ Peek(src, p) = "}" /\ EndsLine(Over(src, p + 1, Blank))

(* The end of the pattern at p: the first blank outside of parentheses,    *)
(* classes and strings.                                                    *)
RECURSIVE PatternEnd(_, _, _)
PatternEnd(p, paren, within) ==
    LET c == Peek(src, p)
        On(d, w) == PatternEnd(p + 1, d, w)
    IN IF c = End \/ (within = "" /\ paren = 0 /\ c \in Space) THEN p
       ELSE IF c = "\\" /\ p < Len(src) THEN PatternEnd(p + 2, paren, within)
       ELSE IF within # "" THEN On(paren, IF c = within THEN "" ELSE within)
       ELSE CASE c = "\"" -> On(paren, "\"")
              [] c = "["  -> On(paren, "]")
              [] c = "("  -> On(paren + 1, "")
              [] c = ")"  -> On(IF paren = 0 THEN 0 ELSE paren - 1, "")
              [] OTHER    -> On(paren, "")

(* The end of the block at p: the brace that closes it outside of strings, *)
(* characters and comments.                                                *)
RECURSIVE BlockEnd(_, _, _)
BlockEnd(p, depth, within) ==
    LET c == Peek(src, p)
        On(n, d, w) == BlockEnd(p + n, d, w)
    IN IF c = End \/ depth = 0 THEN p
       ELSE CASE within = "//" -> On(1, depth, IF c = NL THEN "" ELSE within)
              [] within = "/*" -> IF Pair(src, p, "*", "/") THEN On(2, depth, "")
                                  ELSE On(1, depth, within)
              [] within \in {"\"", "'"} ->
                    IF c = "\\" /\ p < Len(src) THEN On(2, depth, within)
                    ELSE On(1, depth, IF c = within THEN "" ELSE within)
              [] within = "" ->
                    CASE c = "/" /\ Peek(src, p + 1) \in {"/", "*"} ->
                            On(2, depth, IF Peek(src, p + 1) = "/" THEN "//" ELSE "/*")
                      [] c \in {"\"", "'"} -> On(1, depth, c)
                      [] c = "{" -> On(1, depth + 1, "")
                      [] c = "}" -> On(1, depth - 1, "")
                      [] OTHER   -> On(1, depth, "")

(* The action at p and the place behind it.                                *)
SharesNext(p) == Peek(src, p) = "|" /\ EndsLine(Over(src, p + 1, Blank))
ReadAction(p) ==
    IF SharesNext(p) THEN [text |-> Share, next |-> PastEol(Over(src, p + 1, Blank))]
    ELSE IF Peek(src, p) = "{"
    THEN LET q == BlockEnd(p + 1, 1, "") IN [text |-> Cut(src, p, q), next |-> PastEol(q)]
    ELSE [text |-> Cut(src, p, EndOfLine(p)), next |-> NextLine(p)]

IsEofMark(p) == /\ Pair(src, p, "<", "<") /\ Pair(src, p + 2, "EOF", ">")
                /\ Peek(src, p + 4) = ">"
InheritedOuter == IF sc_blocks = <<>> THEN Default ELSE Head(sc_blocks)
Inherited == IF sc_blocks = <<>> THEN Default ELSE Last(sc_blocks)
ScopeAt(p) == IF HasPrefix(p) THEN Prefix(p) ELSE Inherited
PatternStart(p) == IF HasPrefix(p) THEN PrefixEnd(p) ELSE p
EmptyPattern(p) == EndsLine(PatternStart(p)) \/ Peek(src, PatternStart(p)) \in Blank
ParseRule(p) ==
    LET q   == PatternStart(p)
        eof == IsEofMark(q)
        e   == IF eof THEN q + 5 ELSE PatternEnd(q, 0, "")
        a   == ReadAction(Over(src, e, Blank))
    IN /\ GoTo(a.next)
       /\ Keep("rules", <<[line |-> line, scope |-> ScopeAt(p), eof |-> eof,
                          pattern |-> IF eof THEN <<>> ELSE Cut(src, q, e),
                          action |-> a.text]>>)
       /\ UNCHANGED ok

(* Where a round of section 2 looks: an indented prefix or the brace that  *)
(* closes a block counts like one at the start of the line.                *)
Indent == Over(src, pos, Blank)
Indented == src[pos] \in Blank
Structural == Peek(src, Indent) = "<" \/ (Peek(src, Indent) = "}" /\ sc_blocks # <<>>)
Here == IF Indented /\ Structural THEN Indent ELSE pos

EndSection2 == /\ In({2}) /\ Divider(pos)
               /\ GoTo(NextLine(pos))
               /\ section' = 3
               /\ UNCHANGED <<sc_blocks, out, ok>>

IndentedBlank == /\ In({2}) /\ Indented /\ EndsLine(Indent)
                 /\ GoTo(PastEol(Indent))
                 /\ UNCHANGED <<section, sc_blocks, out, ok>>

IndentedComment == /\ In({2}) /\ Indented /\ Pair(src, Indent, "/", "*")
                   /\ GoTo(PastComment(Indent))
                   /\ UNCHANGED <<section, sc_blocks, out, ok>>

IsIndentedText == /\ In({2}) /\ Indented /\ ~EndsLine(Indent) /\ ~Structural
                  /\ ~Pair(src, Indent, "/", "*")

(* An indented line is a rule in a block; elsewhere it is code, which is   *)
(* dropped once there is a rule.  Its pattern is not empty.                *)
IndentedRule == /\ IsIndentedText /\ sc_blocks # <<>>
                /\ ParseRule(Indent)
                /\ UNCHANGED <<section, sc_blocks>>
IndentedCode == /\ IsIndentedText /\ sc_blocks = <<>>
                /\ GoTo(NextLine(pos))
                /\ IF out.rules = <<>> THEN Keep("section2_prologue", Cut(src, pos, NextLine(pos)))
                   ELSE UNCHANGED out
                /\ UNCHANGED <<section, sc_blocks, ok>>

IsRuleText == /\ In({2}) /\ (Indented => Structural)
              /\ src[pos] # NL /\ ~Divider(pos)
              /\ ~Pair(src, pos, "%", "{") /\ ~Pair(src, pos, "/", "*")

CloseBlock == /\ IsRuleText /\ ClosesBlock(Here)
              /\ GoTo(PastEol(Over(src, Here + 1, Blank)))
              /\ sc_blocks' = Front(sc_blocks)
              /\ UNCHANGED <<section, out, ok>>
OpenBlock == /\ IsRuleText /\ OpensBlock(Here)
             /\ GoTo(PastEol(OpenerEnd(Here)))
             /\ sc_blocks' = Append(sc_blocks, Prefix(Here))
             /\ UNCHANGED <<section, out, ok>>
RuleLine == /\ IsRuleText /\ ~ClosesBlock(Here) /\ ~OpensBlock(Here)
            /\ ~EmptyPattern(Here)
            /\ ParseRule(Here)
            /\ UNCHANGED <<section, sc_blocks>>
OnlyPrefix == /\ IsRuleText /\ ~OpensBlock(Here)
              /\ EmptyPattern(Here)
              /\ GoTo(NextLine(PatternStart(Here)))
              /\ ok' = FALSE
              /\ UNCHANGED <<section, sc_blocks, out>>

(* Section 3 is kept as it is, and a file may end in any section.          *)
Section3 == /\ In({3})
            /\ GoTo(Len(src) + 1)
            /\ Keep("section3", Cut(src, pos, Len(src) + 1))
            /\ UNCHANGED <<section, sc_blocks, ok>>
EndOfText == /\ section < 4 /\ pos > Len(src)
             /\ section' = 4
             /\ UNCHANGED <<src, pos, line, sc_blocks, out, ok>>

ParseStep ==
    \/ SkipNewline \/ EndSection1 \/ NotDivider \/ TopBlock \/ VerbatimBlock \/ OptionLine
    \/ CondDecl \/ CommentLine \/ IndentedLine \/ Definition \/ UnknownLine
    \/ EndSection2 \/ IndentedBlank \/ IndentedComment \/ IndentedRule \/ IndentedCode
    \/ CloseBlock \/ OpenBlock \/ RuleLine \/ OnlyPrefix \/ Section3 \/ EndOfText
=============================================================================
