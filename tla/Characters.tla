----------------------------- MODULE Characters -----------------------------
(***************************************************************************)
(* The text of a .l file, as its two parsers see it: a sequence of         *)
(* symbols.  A symbol is one ASCII character, or a whole word of letters   *)
(* that no code takes apart (a keyword, the name of an option).            *)
(***************************************************************************)
EXTENDS Integers, Sequences, FiniteSetsExt, SequencesExt

Printable == <<
    " ", "!", "\"", "#", "$", "%", "&", "'", "(", ")", "*", "+", ",", "-", ".", "/",
    "0", "1", "2", "3", "4", "5", "6", "7", "8", "9", ":", ";", "<", "=", ">", "?",
    "@", "A", "B", "C", "D", "E", "F", "G", "H", "I", "J", "K", "L", "M", "N", "O",
    "P", "Q", "R", "S", "T", "U", "V", "W", "X", "Y", "Z", "[", "\\", "]", "^", "_",
    "grave", "a", "b", "c", "d", "e", "f", "g", "h", "i", "j", "k", "l", "m", "n", "o",
    "p", "q", "r", "s", "t", "u", "v", "w", "x", "y", "z", "{", "|", "}", "~">>

NL == "\n"
End == "end of text"        \* what peek() returns behind the last symbol
Blank == {" ", "\t"}
Space == Blank \cup {NL}

Keyword == {"top", "option", "EOF", "INITIAL", "REJECT", "alpha", "upper", "lower", "digit",
            "xdigit", "alnum", "space", "blank", "cntrl", "print", "graph", "punct"}

(* The byte that a character stands for.  A keyword that an unclosed       *)
(* pattern has swallowed counts as one byte that no input has.             *)
Code == [c \in Range(Printable) \cup Space \cup Keyword |->
            CASE c = NL -> 10 [] c = "\t" -> 9 [] c \in Keyword -> 256
              [] OTHER -> 31 + CHOOSE i \in DOMAIN Printable : Printable[i] = c]

Upper == 65 .. 90
Lower == 97 .. 122
Digit == {"0", "1", "2", "3", "4", "5", "6", "7", "8", "9"}
OctalDigit == Digit \ {"8", "9"}
Letter == {c \in DOMAIN Code : Code[c] \in Upper \cup Lower} \cup Keyword
HexDigit == Digit \cup {c \in DOMAIN Code : Code[c] \in (65 .. 70) \cup (97 .. 102)}
IdentStart == Letter \cup {"_"}
IdentCont == IdentStart \cup Digit \cup {"-"}

(* The value of a sequence of digits.                                      *)
DigitValue(c) == IF c \in Digit THEN Code[c] - 48
                 ELSE IF Code[c] \in Upper THEN Code[c] - 55 ELSE Code[c] - 87
Number(text, radix) == FoldLeft(LAMBDA v, c : v * radix + DigitValue(c), 0, text)

(***************************************************************************)
(* Reading in text at position p: the symbol there, the text from p up to  *)
(* before q, and the first position from p on that is outside or inside a  *)
(* set of symbols.                                                         *)
(***************************************************************************)
Peek(text, p) == IF p \in DOMAIN text THEN text[p] ELSE End
Cut(text, p, q) == SubSeq(text, p, q - 1)
RECURSIVE Over(_, _, _)
Over(text, p, set) == IF Peek(text, p) \in set THEN Over(text, p + 1, set) ELSE p
RECURSIVE UpTo(_, _, _)
UpTo(text, p, set) ==
    IF Peek(text, p) \in set \cup {End} THEN p ELSE UpTo(text, p + 1, set)
Pair(text, p, x, y) == Peek(text, p) = x /\ Peek(text, p + 1) = y
=============================================================================
