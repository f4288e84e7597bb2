---------------------------- MODULE InputStream ----------------------------
(***************************************************************************)
(* What a generated scanner promises about its input, with no buffer, no   *)
(* cursor and no terminator: the bytes not read yet are a sequence, a      *)
(* match takes a prefix of it, and the calls an action may make put bytes  *)
(* back or take more.  ScanText, the runtime's text layer, implements it.  *)
(***************************************************************************)
EXTENDS Naturals, Sequences

CONSTANTS Byte,     \* the bytes of an input
          NoText    \* "yytext is not valid now"

VARIABLES rest,     \* the bytes not read yet, in order
          token,    \* the text of the current match, or NoText
          kept,     \* the text yymore() keeps in front of the next match
          asked,    \* yymore() has been called since the last match
          opened    \* how many inputs have been opened

vars == <<rest, token, kept, asked, opened>>

Take(s, n) == SubSeq(s, 1, n)
Drop(s, n) == SubSeq(s, n + 1, Len(s))

Init == /\ rest \in Seq(Byte)
        /\ token = NoText
        /\ kept = <<>>
        /\ asked = FALSE
        /\ opened = 1

(* A rule matches: the next n bytes follow the kept text.                  *)
Match(n) == /\ n \in 0 .. Len(rest)
            /\ token' = kept \o Take(rest, n)
            /\ rest' = Drop(rest, n)
            /\ asked' = FALSE
            /\ UNCHANGED <<kept, opened>>

(* No rule matches: one byte is copied to the output.                      *)
Default == /\ rest # <<>>
           /\ rest' = Tail(rest)
           /\ token' = NoText
           /\ kept' = <<>>
           /\ UNCHANGED <<asked, opened>>

(* No rule matches and there is no default: the scanner gives up.          *)
Jam == /\ rest # <<>>
       /\ token' = NoText
       /\ UNCHANGED <<rest, kept, asked, opened>>

(* An action ends, by return or by falling off its end.                    *)
ActionEnd == /\ kept' = IF asked /\ token # NoText THEN token ELSE <<>>
             /\ UNCHANGED <<rest, token, asked, opened>>

YyMore == asked' = TRUE /\ UNCHANGED <<rest, token, kept, opened>>

(* All but the first n bytes of the text go back in front of the rest.     *)
YyLess(n) == /\ token # NoText
             /\ n \in 0 .. Len(token)
             /\ token' = Take(token, n)
             /\ rest' = Drop(token, n) \o rest
             /\ UNCHANGED <<kept, asked, opened>>

(* input() takes one byte; unput(c) puts one in front.  Both end the       *)
(* validity of the text.                                                   *)
Input == /\ rest' = IF rest = <<>> THEN <<>> ELSE Tail(rest)
         /\ token' = NoText
         /\ kept' = <<>>
         /\ UNCHANGED <<asked, opened>>

Unput(c) == /\ rest' = <<c>> \o rest
            /\ token' = NoText
            /\ kept' = <<>>
            /\ UNCHANGED <<asked, opened>>

(* REJECT: the match is undone; another one follows it.                    *)
Reject == /\ token # NoText
          /\ rest' = Drop(token \o rest, Len(kept))
          /\ token' = NoText
          /\ UNCHANGED <<kept, asked, opened>>

(* The end of the input: <<EOF>> actions see an empty text.                *)
EndOfInput == /\ rest = <<>>
              /\ token' = <<>>
              /\ UNCHANGED <<rest, kept, asked, opened>>

(* More input arrives where the old one ended.                             *)
Supply == /\ rest = <<>>
          /\ rest' \in Seq(Byte)
          /\ token' = NoText
          /\ opened' = opened + 1
          /\ UNCHANGED <<kept, asked>>

(* yyrestart(): whatever was unread is dropped for a new input.            *)
Restart == /\ rest' \in Seq(Byte)
           /\ token' = NoText
           /\ kept' = <<>>
           /\ opened' = opened + 1
           /\ UNCHANGED asked

Next == \/ \E n \in 0 .. Len(rest) : Match(n)
        \/ Default
        \/ Jam
        \/ ActionEnd
        \/ YyMore
        \/ token # NoText /\ \E n \in 0 .. Len(token) : YyLess(n)
        \/ Input
        \/ \E c \in Byte : Unput(c)
        \/ Reject
        \/ EndOfInput
        \/ Supply
        \/ Restart

Spec == Init /\ [][Next]_vars
=============================================================================
