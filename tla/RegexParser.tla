---------------------------- MODULE RegexParser -----------------------------
(***************************************************************************)
(* The recursive-descent parser of patterns and parse_pattern().  A method *)
(* of the parser is an operator from a text and a position in it to a      *)
(* record: the tree t it returns (NoTree for a null pointer), the position *)
(* p where it leaves the text, and whether it went without an error.  env  *)
(* holds what does not change while a text is parsed: the definitions of   *)
(* the file, the option for ignoring case, the macros being expanded.      *)
(***************************************************************************)
EXTENDS Patterns, Characters

Parsed(t, p, ok) == [t |-> t, p |-> p, ok |-> ok]
OrEmpty(t) == IF t = NoTree THEN Empty ELSE t
Concatenated(x, y) == IF x = NoTree THEN y ELSE IF y = NoTree THEN x ELSE Concat(x, y)

(***************************************************************************)
(* Single bytes: with case ignored, a letter stands for both its cases.    *)
(***************************************************************************)
WithCase(bytes, ci) ==
    bytes \cup IF ~ci THEN {}
               ELSE {b + 32 : b \in bytes \cap Upper} \cup {b - 32 : b \in bytes \cap Lower}
Literal(b, env) == Class(WithCase({b}, env.ci))
AnyByteExceptNl == Class(Byte \ {Newline})

(* An escape starts at p: a letter with a meaning, up to three octal or    *)
(* two hexadecimal digits, or any character for itself.                    *)
Named == [c \in {"n", "t", "r", "f", "v", "a", "b"} |->
            CASE c = "n" -> 10 [] c = "t" -> 9 [] c = "r" -> 13 [] c = "f" -> 12
              [] c = "v" -> 11 [] c = "a" -> 7 [] c = "b" -> 8]
DigitsEnd(text, p, set, most) == Min({Over(text, p, set), p + most})
ByteOf(text, p, q, radix) == [b |-> Number(Cut(text, p, q), radix) % 256, p |-> q]
EscapeOf(text, p, c) ==
    IF c = End THEN [b |-> 0, p |-> p]
    ELSE IF c \in DOMAIN Named THEN [b |-> Named[c], p |-> p + 1]
    ELSE IF c \in OctalDigit THEN ByteOf(text, p, DigitsEnd(text, p, OctalDigit, 3), 8)
    ELSE IF c = "x" THEN ByteOf(text, p + 1, DigitsEnd(text, p + 1, HexDigit, 2), 16)
    ELSE [b |-> Code[c], p |-> p + 1]
Escape(text, p) == EscapeOf(text, p + 1, Peek(text, p + 1))
ReadByte(text, p) ==
    IF Peek(text, p) = "\\" THEN Escape(text, p) ELSE [b |-> Code[text[p]], p |-> p + 1]

(***************************************************************************)
(* Character classes.                                                      *)
(***************************************************************************)
Posix(name, ci) ==
    LET digits == 48 .. 57 IN
    CASE name = "alpha"  -> Upper \cup Lower
      [] name = "upper"  -> IF ci THEN Upper \cup Lower ELSE Upper
      [] name = "lower"  -> IF ci THEN Upper \cup Lower ELSE Lower
      [] name = "digit"  -> digits
      [] name = "xdigit" -> digits \cup (65 .. 70) \cup (97 .. 102)
      [] name = "alnum"  -> Upper \cup Lower \cup digits
      [] name = "space"  -> (9 .. 13) \cup {32}
      [] name = "blank"  -> {9, 32}
      [] name = "cntrl"  -> (0 .. 31) \cup {127}
      [] name = "print"  -> 32 .. 126
      [] name = "graph"  -> 33 .. 126
      [] name = "punct"  -> (33 .. 126) \ (Upper \cup Lower \cup digits)
      [] OTHER           -> {}
IsPosix(text, p) == /\ Pair(text, p, "[", ":") /\ Pair(text, p + 3, ":", "]")
                    /\ Posix(text[p + 2], FALSE) # {}

(* The member that starts with the byte x, a byte or a range, and the      *)
(* members from p on; the first may be a bracket that closes nothing.      *)
RangeOf(x, y) == IF x <= y THEN x .. y ELSE y .. x
Span(x, y, env) == [cls |-> WithCase(RangeOf(x.b, y.b), env.ci), p |-> y.p]
Member(text, x, env) ==
    IF Peek(text, x.p) = "-" /\ Peek(text, x.p + 1) \notin {"]", End}
    THEN Span(x, ReadByte(text, x.p + 1), env)
    ELSE [cls |-> WithCase({x.b}, env.ci), p |-> x.p]
MemberAt(text, p, env) ==
    IF IsPosix(text, p) THEN [cls |-> Posix(text[p + 2], env.ci), p |-> p + 5]
    ELSE Member(text, ReadByte(text, p), env)
RECURSIVE Members(_, _, _, _)
Members(text, m, first, env) ==
    IF Peek(text, m.p) = End \/ (~first /\ text[m.p] = "]") THEN m
    ELSE LET More(x) == [x EXCEPT !.cls = @ \cup m.cls]
         IN Members(text, More(MemberAt(text, m.p, env)), FALSE, env)
Denied(set) == Byte \ set
ClosedClass(text, neg, m) ==
    IF Peek(text, m.p) # "]" THEN Parsed(Class(m.cls), m.p, FALSE)
    ELSE Parsed(Class(IF neg THEN Denied(m.cls) ELSE m.cls), m.p + 1, TRUE)
ParseClass(text, p, env) ==
    LET neg == Peek(text, p + 1) = "^"
    IN ClosedClass(text, neg,
                   Members(text, [cls |-> {}, p |-> IF neg THEN p + 2 ELSE p + 1], TRUE, env))

(* A quoted string, read into x so far from behind its first quote on.     *)
RECURSIVE Quoted(_, _, _)
Quoted(text, x, env) ==
    IF Peek(text, x.p) = End THEN Parsed(OrEmpty(x.t), x.p, FALSE)
    ELSE IF text[x.p] = "\"" THEN Parsed(OrEmpty(x.t), x.p + 1, TRUE)
    ELSE LET More(y) == Parsed(Concatenated(x.t, Literal(y.b, env)), y.p, TRUE)
         IN Quoted(text, More(ReadByte(text, x.p)), env)

(* {n}, {n,} or {n,m} behind x, whose digits n are from p up to q;         *)
(* anything else there is left unread.                                     *)
UpperBound(text, p, q) == [hi |-> IF q = p THEN kInf ELSE Number(Cut(text, p, q), 10), p |-> q]
Repeated(text, x, lo, m) ==
    IF Peek(text, m.p) # "}" THEN x
    ELSE [x EXCEPT !.t = Repeat(x.t, lo, m.hi), !.p = m.p + 1]
Bounded(text, x, lo, q) ==
    Repeated(text, x, lo, IF Peek(text, q) # "," THEN [hi |-> lo, p |-> q]
                          ELSE UpperBound(text, q + 1, Over(text, q + 1, Digit)))
ParseRepeat(text, x) ==
    LET LowerBound(p, q) == Bounded(text, x, Number(Cut(text, p, q), 10), q)
    IN LowerBound(x.p + 1, Over(text, x.p + 1, Digit))

(* At most one operator behind an operand x.                               *)
Postfixed(text, x) ==
    LET c == Peek(text, x.p)
        Applied(t) == [x EXCEPT !.t = t, !.p = x.p + 1]
    IN IF x.t = NoTree THEN x ELSE
       CASE c = "*" -> Applied(Star(x.t))
         [] c = "+" -> Applied(Plus(x.t))
         [] c = "?" -> Applied(Question(x.t))
         [] c = "{" /\ Peek(text, x.p + 1) \in Digit -> ParseRepeat(text, x)
         [] OTHER   -> x

(***************************************************************************)
(* Alternatives of concatenations of operands.  A definition is parsed on  *)
(* its own, in parentheses; what is left of its text is not looked at.     *)
(***************************************************************************)
Terminators == {"|", ")", "$", End}
RECURSIVE ParseAlt(_, _, _)
RECURSIVE Alternatives(_, _, _)
RECURSIVE Operands(_, _, _)

Grouped(text, x) ==
    IF Peek(text, x.p) # ")" THEN Parsed(NoTree, x.p, FALSE) ELSE [x EXCEPT !.p = @ + 1]
ParseGroup(text, p, env) == Grouped(text, ParseAlt(text, p + 1, env))

DefinedAs(name, defs) == {d[2] : d \in {e \in Range(defs) : e[1] = name}}
LastDefinition(name, defs) ==
    defs[Max({i \in DOMAIN defs : defs[i][1] = name})][2]
Resolved(name, defs) == <<"(">> \o LastDefinition(name, defs) \o <<")">>
Expanded(name, q, env) ==
    IF name \in env.expanding \/ DefinedAs(name, env.defs) = {} THEN Parsed(Empty, q, FALSE)
    ELSE [ParseAlt(Resolved(name, env.defs), 1, [env EXCEPT !.expanding = @ \cup {name}])
          EXCEPT !.p = q]
ParseMacro(text, p, env) ==
    LET Name(q) == IF q = p + 1 \/ Peek(text, q) # "}"
                   THEN Parsed(Literal(Code["{"], env), p + 1, TRUE)
                   ELSE Expanded(Cut(text, p + 1, q), q + 1, env)
    IN Name(Over(text, p + 1, IdentCont))

ByteNode(x, env) == Parsed(Literal(x.b, env), x.p, TRUE)
ParsePrimary(text, p, env) ==
    LET c == Peek(text, p) IN
    CASE c = "("  -> ParseGroup(text, p, env)
      [] c = "["  -> ParseClass(text, p, env)
      [] c = "\"" -> Quoted(text, Parsed(NoTree, p + 1, TRUE), env)
      [] c = "{"  -> ParseMacro(text, p, env)
      [] c = "."  -> Parsed(AnyByteExceptNl, p + 1, TRUE)
      [] OTHER    -> ByteNode(ReadByte(text, p), env)

(* The operands of a concatenation, read into x so far; and alternatives.  *)
Joining(x, y) == Parsed(Concatenated(x.t, y.t), y.p, x.ok /\ y.ok)
Operands(text, x, env) ==
    LET On(y) == IF y.t = NoTree THEN Parsed(OrEmpty(x.t), y.p, x.ok /\ y.ok)
                 ELSE Operands(text, Joining(x, y), env)
    IN IF Peek(text, x.p) \in Terminators THEN [x EXCEPT !.t = OrEmpty(@)]
       ELSE On(Postfixed(text, ParsePrimary(text, x.p, env)))
ParseConcat(text, p, env) == Operands(text, Parsed(NoTree, p, TRUE), env)

Alternatives(text, x, env) ==
    LET Or(y) == Parsed(Alt(x.t, y.t), y.p, x.ok /\ y.ok)
    IN IF Peek(text, x.p) # "|" THEN x
       ELSE Alternatives(text, Or(ParseConcat(text, x.p + 1, env)), env)
ParseAlt(text, p, env) == Alternatives(text, ParseConcat(text, p, env), env)

(* A whole regex: its body x, with ^ in front and $ behind.                *)
Whole(text, bol, x) ==
    LET eol == Peek(text, x.p) = "$"
        all == x.p + (IF eol THEN 1 ELSE 0) > Len(text)
    IN [bol |-> bol, eol |-> eol, t |-> IF all THEN x.t ELSE NoTree, ok |-> x.ok /\ all]
ParseTop(text, env) ==
    LET bol == Peek(text, 1) = "^"
    IN Whole(text, bol, ParseAlt(text, IF bol THEN 2 ELSE 1, env))
Anchored(x) == Tree([bol |-> x.bol, r |-> x.t, s |-> NoTree, eol |-> x.eol])

(***************************************************************************)
(* parse_pattern(): the place of the trailing context, 0 for none, and the *)
(* pattern from its two regexes.  An escape in a class or a string is      *)
(* skipped as one, and so it is outside.                                   *)
(***************************************************************************)
RECURSIVE SlashFrom(_, _, _, _)
SlashFrom(text, p, depth, within) ==
    LET c == Peek(text, p)
        On(d, w) == SlashFrom(text, p + 1, d, w)
    IN IF c = End THEN 0
       ELSE IF c = "\\" /\ p < Len(text) THEN SlashFrom(text, p + 2, depth, within)
       ELSE IF within # "" THEN On(depth, IF c = within THEN "" ELSE within)
       ELSE CASE c = "["  -> On(depth, "]")
         [] c = "\"" -> On(depth, "\"")
         [] c = "("  -> On(depth + 1, "")
         [] c = ")"  -> On(IF depth = 0 THEN 0 ELSE depth - 1, "")
         [] c = "/" /\ depth = 0 -> p
         [] OTHER -> On(depth, "")
FindTopLevelSlash(text) == SlashFrom(text, 1, 0, "")

Failed == [tree |-> NoTree, trail |-> 0, ok |-> FALSE]
NoContext(x) == IF x.t = NoTree THEN Failed
           ELSE [tree |-> Anchored(x), trail |-> 0, ok |-> x.ok]
WithTrail(p, ok) == [tree |-> Tree(p), trail |-> TrailLength(p), ok |-> ok]
InContext(r, s) ==
    IF NoTree \in {r.t, s.t} \/ r.eol THEN Failed
    ELSE WithTrail([bol |-> r.bol, r |-> r.t,
                    s |-> IF s.bol THEN Anchored(s) ELSE s.t, eol |-> s.eol /\ ~s.bol],
                   r.ok /\ s.ok)
SplitAt(text, k, env) ==
    IF k = 0 THEN NoContext(ParseTop(text, env))
    ELSE InContext(ParseTop(SubSeq(text, 1, k - 1), env),
                   ParseTop(SubSeq(text, k + 1, Len(text)), env))
ParsePattern(text, env) == SplitAt(text, FindTopLevelSlash(text), env)
=============================================================================
