------------------------------ MODULE ScanText ------------------------------
(***************************************************************************)
(* The text layer of a generated scanner: one buffer, its cursor, and the  *)
(* window yytext[0 .. yyleng) that the loop of yylex() terminates in place *)
(* by overwriting the byte after it ("sealing") and later puts back.       *)
(* Memory is modelled as the code has it: data is an array, yytext an      *)
(* offset into it, and the NUL of a seal really replaces an input byte     *)
(* until yy_text_unseal() restores it.                                     *)
(*                                                                         *)
(* Which rule matches is left open (ScanMatch models that): a match takes  *)
(* any number of the unread bytes.  What actions call is a constant.       *)
(***************************************************************************)
EXTENDS Integers, Sequences, FiniteSets

CONSTANTS
    Letter,      \* input bytes other than the newline
    NL,          \* the newline
    NUL,         \* the byte a seal and a sentinel write, not an input byte
    NoText,      \* yytext = 0
    Inputs,      \* the contents an input can have
    Cap,         \* BOUND: bytes a buffer can hold
    MaxOpened,   \* BOUND: inputs opened, the first included
    MaxLine,     \* BOUND: yylineno
    Calls,       \* what rule actions call, a subset of ApiCalls
    FileBacked,  \* the buffer reads yyin; otherwise it is yy_scan_bytes()'s
    Nodefault,   \* %option nodefault
    Yylineno,    \* %option yylineno
    EmptyHead    \* some rule r/s can match with an empty r

Byte == Letter \cup {NL}
ApiCalls == {"input", "unput", "yyless", "yymore", "REJECT", "yyrestart", "return"}

ASSUME TextAssumption ==
    /\ NL \notin Letter /\ NUL \notin Byte
    /\ Cap \in Nat /\ MaxOpened \in Nat /\ MaxLine \in Nat
    /\ NoText \notin Int /\ NoText \notin Seq(Byte)
    /\ Inputs \subseteq {s \in Seq(Byte) : Len(s) <= Cap}
    /\ Calls \subseteq ApiCalls /\ ("yyrestart" \in Calls => FileBacked)
    /\ {FileBacked, Nodefault, Yylineno, EmptyHead} \subseteq BOOLEAN

VARIABLES
    data,        \* yyb_data: the bytes, then two sentinels
    end,         \* yyb_end
    pos,         \* yyb_pos
    atBol,       \* yyb_at_bol
    yytext,      \* an offset into data, or NoText
    yyleng,
    save,        \* yy_text_save
    active,      \* yy_text_active
    moreFlag,    \* yy_more_flag
    moreOffset,  \* yy_more_offset
    yylineno,
    opened,      \* inputs opened so far
    pc           \* where yylex() is

bufVars  == <<data, end, pos, atBol>>
textVars == <<yytext, yyleng, save, active>>
moreVars == <<moreFlag, moreOffset>>
vars     == <<bufVars, textVars, moreVars, yylineno, opened, pc>>

(* The bytes of a buffer are cells 0 .. end - 1; two sentinels follow.     *)
Cell == 0 .. Cap + 1

(* "call": outside yylex(); "loop": at the top of its loop; "action",      *)
(* "eof": in a rule's or an <<EOF>> rule's action; "jam": after a fatal    *)
(* error.                                                                  *)
Place == {"call", "loop", "action", "eof", "jam"}

(* The array after an input is read into an empty buffer.                  *)
Filled(s) == [i \in Cell |-> IF i < Len(s) THEN s[i + 1] ELSE NUL]

(* yy_text_unseal(): the byte under the terminator goes back.              *)
UnsealForgotten == data
Unsealed == IF active THEN [data EXCEPT ![yytext + yyleng] = save] ELSE data

(* The number of newlines in cells i .. j - 1 of an array, and what        *)
(* yylineno counts of them.                                                *)
Newlines(d, i, j) == Cardinality({k \in i .. j - 1 : d[k] = NL})
CountedButLast(d, i, j) == IF Yylineno THEN Newlines(d, i, j - 1) ELSE 0
Counted(d, i, j) == IF Yylineno THEN Newlines(d, i, j) ELSE 0

(* The flag for ^ after a text of n bytes that ends before cell i.         *)
EndsLineLate(d, n, i) == n > 0 /\ d[i] = NL
EndsLine(d, n, i) == n > 0 /\ d[i - 1] = NL

(* The shortest text of a match.                                           *)
ShortestAny == 0
Shortest == IF EmptyHead THEN 0 ELSE 1

(* What the next match keeps of this text.                                 *)
KeptLengthStale == IF moreFlag THEN yyleng ELSE moreOffset
KeptLength == IF moreFlag THEN yyleng ELSE 0

(* Where yyless(n) moves the cursor, and how far input() does.             *)
LessCursorBack(n) == pos - n
LessCursor(n) == pos - (yyleng - n)
GotUnchecked == 1
Got == IF pos < end THEN 1 ELSE 0

(* Every byte of the buffer one cell up.                                   *)
ShiftedUpShort(d) == [i \in Cell |-> IF i \in 1 .. end - 1 THEN d[i - 1] ELSE d[i]]
ShiftedUp(d) == [i \in Cell |-> IF i \in 1 .. end THEN d[i - 1] ELSE d[i]]

InAction == pc \in {"action", "eof"}

-----------------------------------------------------------------------------
(* The first buffer is created and read to the end of its input            *)
(* (yy_init_default_buffer, yy_slurp), or made by yy_scan_bytes().         *)
Init == \E s \in Inputs :
    /\ data = Filled(s) /\ end = Len(s) /\ pos = 0 /\ atBol = TRUE
    /\ yytext = NoText /\ yyleng = 0 /\ save = NUL /\ active = FALSE
    /\ moreFlag = FALSE /\ moreOffset = 0
    /\ yylineno = 1 /\ opened = 1 /\ pc = "call"

(* yyrestart() on a file with contents s: the buffer is emptied and read   *)
(* again, yytext is gone, yymore()'s state stays.                          *)
Reopened(s) ==
    /\ data' = Filled(s) /\ end' = Len(s) /\ pos' = 0 /\ atBol' = TRUE
    /\ yytext' = NoText /\ yyleng' = 0 /\ save' = NUL /\ active' = FALSE
    /\ UNCHANGED <<moreVars, yylineno>>

-----------------------------------------------------------------------------
(* The loop of yylex().                                                    *)

Call == pc = "call" /\ pc' = "loop"
        /\ UNCHANGED <<bufVars, textVars, moreVars, yylineno, opened>>

(* The buffer is exhausted and yyin delivers more.                         *)
AutoRestart(s) ==
    /\ pc = "loop" /\ pos >= end
    /\ FileBacked /\ opened < MaxOpened /\ s # <<>>
    /\ Reopened(s)
    /\ opened' = opened + 1
    /\ UNCHANGED pc

(* The buffer is exhausted and yyin is at its end; a memory buffer is not  *)
(* restarted.  yytext becomes the empty text at the cursor.                *)
EndOfInput ==
    /\ pc = "loop" /\ pos >= end
    /\ IF FileBacked
       THEN data' = Filled(<<>>) /\ end' = 0 /\ pos' = 0 /\ atBol' = TRUE
       ELSE data' = Unsealed /\ UNCHANGED <<end, pos, atBol>>
    /\ yytext' = pos' /\ yyleng' = 0 /\ save' = NUL /\ active' = TRUE
    /\ pc' = "eof"
    /\ UNCHANGED <<moreVars, yylineno, opened>>

(* A rule matches and its text, less any trailing context, is k bytes      *)
(* long: yytext is set, lengthened by what yymore() kept, and sealed.      *)
Match(k) ==
    LET d == Unsealed
        from == pos - moreOffset
        to == pos + k
    IN  /\ pc = "loop" /\ pos < end
        /\ k \in Shortest .. end - pos
        /\ yytext' = from /\ yyleng' = k + moreOffset /\ pos' = to
        /\ save' = d[to] /\ data' = [d EXCEPT ![to] = NUL] /\ active' = TRUE
        /\ moreFlag' = FALSE
        /\ yylineno' = yylineno + Counted(d, from, to)
        /\ yylineno' <= MaxLine
        /\ atBol' = EndsLine(d, yyleng', to)
        /\ pc' = "action"
        /\ UNCHANGED <<end, moreOffset, opened>>

(* No rule matches: one byte is echoed and the loop goes on.               *)
Default ==
    LET d == Unsealed
    IN  /\ pc = "loop" /\ pos < end /\ ~Nodefault
        /\ data' = d /\ active' = FALSE /\ pos' = pos + 1
        /\ yylineno' = yylineno + Counted(d, pos, pos + 1)
        /\ yylineno' <= MaxLine
        /\ atBol' = (d[pos] = NL)
        /\ UNCHANGED <<end, yytext, yyleng, save, moreVars, opened, pc>>

(* The same under %option nodefault: yy_jam_report() ends the program.     *)
Jam == /\ pc = "loop" /\ pos < end /\ Nodefault
       /\ data' = Unsealed /\ active' = FALSE
       /\ pc' = "jam"
       /\ UNCHANGED <<end, pos, atBol, yytext, yyleng, save, moreVars, yylineno, opened>>

(* An action falls off its end, or returns.  Only the first way reaches    *)
(* the statement that sets yy_more_offset.                                 *)
FallOff == /\ pc = "action" /\ pc' = "loop"
           /\ moreOffset' = KeptLength
           /\ UNCHANGED <<bufVars, textVars, moreFlag, yylineno, opened>>

Return == /\ "return" \in Calls
          /\ pc = "action" /\ pc' = "call"
          /\ UNCHANGED <<bufVars, textVars, moreVars, yylineno, opened>>

(* However an <<EOF>> action ends, yylex() returns.                        *)
Terminate == /\ pc = "eof" /\ pc' = "call"
             /\ UNCHANGED <<bufVars, textVars, moreVars, yylineno, opened>>

-----------------------------------------------------------------------------
(* What actions call.  As in flex, unput() and input() end the validity of *)
(* yytext: no yyless(), yymore() or REJECT after them in an action, and    *)
(* none of them after a yymore().                                          *)

Yymore == /\ "yymore" \in Calls
          /\ InAction /\ active
          /\ moreFlag' = TRUE
          /\ UNCHANGED <<bufVars, textVars, moreOffset, yylineno, opened, pc>>

(* yyless(n): the seal moves to the n-th byte and the cursor with it.      *)
Yyless(n) ==
    LET d == [data EXCEPT ![yytext + yyleng] = save]
    IN  /\ "yyless" \in Calls
        /\ InAction /\ active
        /\ n \in 0 .. yyleng
        /\ pos' = LessCursor(n)
        /\ yyleng' = n
        /\ save' = d[yytext + n] /\ data' = [d EXCEPT ![yytext + n] = NUL]
        /\ atBol' = EndsLine(d, n, yytext + n)
        /\ UNCHANGED <<end, yytext, active, moreVars, yylineno, opened, pc>>

(* input(): a buffer here is already read to its end, so yy_refill() adds  *)
(* nothing.  yyb_at_bol is not touched.                                    *)
Input == LET d == Unsealed
         IN  /\ "input" \in Calls
             /\ InAction /\ ~moreFlag
             /\ data' = d /\ active' = FALSE /\ pos' = pos + Got
             /\ yylineno' = yylineno + Counted(d, pos, pos + Got)
             /\ yylineno' <= MaxLine
             /\ UNCHANGED <<end, atBol, yytext, yyleng, save, moreVars, opened, pc>>

(* unput(c): into the cell before the cursor, or, at the start of the      *)
(* buffer, after moving every byte up by one.                              *)
Unput(c) ==
    LET d == Unsealed
    IN  /\ "unput" \in Calls
        /\ InAction /\ ~moreFlag
        /\ \/ /\ pos > 0
              /\ data' = [d EXCEPT ![pos - 1] = c] /\ pos' = pos - 1
              /\ UNCHANGED end
           \/ /\ pos = 0 /\ end < Cap
              /\ data' = [ShiftedUp(d) EXCEPT ![0] = c] /\ end' = end + 1
              /\ UNCHANGED pos
        /\ active' = FALSE
        /\ atBol' = (c = NL)
        /\ UNCHANGED <<yytext, yyleng, save, moreVars, yylineno, opened, pc>>

(* REJECT: the seal is undone and the cursor returns to where the match    *)
(* began (yy_mb, which is yytext + yy_more_offset); the next-best match, or *)
(* the default rule, follows.                                              *)
Reject == /\ "REJECT" \in Calls
          /\ pc = "action" /\ active
          /\ data' = Unsealed /\ active' = FALSE
          /\ pos' = yytext + moreOffset
          /\ pc' = "loop"
          /\ UNCHANGED <<end, atBol, yytext, yyleng, save, moreVars, yylineno, opened>>

(* yyrestart() by an action, or by the program between two calls.          *)
Yyrestart(s) == /\ "yyrestart" \in Calls /\ opened < MaxOpened
                /\ InAction \/ pc = "call"
                /\ Reopened(s)
                /\ opened' = opened + 1
                /\ UNCHANGED pc

Next == \/ Call
        \/ \E s \in Inputs : AutoRestart(s)
        \/ EndOfInput
        \/ \E k \in 0 .. Cap : Match(k)
        \/ Default
        \/ Jam
        \/ FallOff
        \/ Return
        \/ Terminate
        \/ Yymore
        \/ \E n \in 0 .. Cap : Yyless(n)
        \/ Input
        \/ \E c \in Byte : Unput(c)
        \/ Reject
        \/ \E s \in Inputs : Yyrestart(s)

Spec == Init /\ [][Next]_vars

(* yylex() is sequential code and its caller calls it again: what a call   *)
(* does next happens.  What actions call and what arrives is not required. *)
Step == \/ Call \/ EndOfInput \/ \E k \in 0 .. Cap : Match(k) \/ Default
        \/ FallOff \/ Return \/ Terminate
FairSpec == Spec /\ WF_vars(Step)

-----------------------------------------------------------------------------
(* Properties.                                                             *)

(* Types of the buffer's fields and the scanner's static state.            *)
FlagType   == {atBol, active, moreFlag} \subseteq BOOLEAN
BufferType == /\ data \in [Cell -> Byte \cup {NUL}] /\ save \in Byte \cup {NUL}
              /\ end \in 0 .. Cap /\ pos \in 0 .. end
TextType   == /\ yytext \in Int \cup {NoText} /\ yyleng \in Nat
              /\ moreOffset \in Nat
              /\ yylineno \in Nat /\ opened \in Nat /\ pc \in Place
TypeOK == FlagType /\ BufferType /\ TextType

(* While yytext is valid it lies inside the buffer, ends at the cursor and *)
(* is terminated: what yyless(), REJECT and yymore() compute from yyleng,  *)
(* yy_mb and the cursor refers to the same bytes.                          *)
TextEndsAtCursor ==
    active => /\ yytext \in 0 .. pos
              /\ yytext + yyleng = pos
              /\ pc = "action" => data[pos] = NUL

(* No terminator is left behind in the input: with the one seal undone,    *)
(* every cell of the buffer holds an input byte.                           *)
NoStrayNul == \A i \in 0 .. end - 1 : Unsealed[i] \in Byte

(* What the buffer stands for: the unread bytes with the sealed one back,  *)
(* the text, and the bytes yymore() keeps.                                 *)
Segment(i, n) == [j \in 1 .. n |-> Unsealed[i + j - 1]]
Unread == Segment(pos, end - pos)
Text   == IF active THEN Segment(yytext, yyleng) ELSE NoText
Kept   == IF pc = "action"
          THEN IF active THEN Segment(yytext, moreOffset) ELSE <<>>
          ELSE Segment(pos - moreOffset, moreOffset)

(* The text layer implements the input stream: no order of matches,        *)
(* unput(), input(), yyless(), REJECT and yyrestart() loses, repeats or    *)
(* alters a byte, however the seal moves under them.                       *)
Stream == INSTANCE InputStream WITH
    rest <- Unread, token <- Text, kept <- Kept, asked <- moreFlag
ImplementsStream == Stream!Spec

(* "yymore(): prepends the previous match onto the next" (README.md:117):  *)
(* the text of a match is its own bytes, and before them the previous      *)
(* match's text if and only if its action called yymore().                 *)
MorePrependsPrevious ==
    [][pc = "loop" /\ pc' = "action" =>
           yyleng' = (pos' - pos) + IF moreFlag THEN yyleng ELSE 0]_vars

(* "Track line numbers in yylineno" (README.md:65): every newline that the *)
(* scanner moves over, in a match, by the default rule or in input(), is   *)
(* counted once, wherever the seal of the last text stands, and one that   *)
(* yyless(), REJECT or unput() gives back again when it is read again.     *)
(* (What yymore() keeps is counted a second time: moreOffset is 0 here.)   *)
LinenoTracksInput ==
    [][opened' = opened /\ moreOffset = 0 =>
           yylineno' = yylineno + IF pos' > pos THEN Newlines(Unsealed, pos, pos') ELSE 0]_vars

(* Scanning never stalls: yylex() reaches the end of the input or a fatal  *)
(* error, unless the actions give back bytes for ever, so that there are   *)
(* always more to match.                                                   *)
ReachesEnd == []<>(pc \in {"eof", "jam"}) \/ []<><<pos' < pos>>_vars

(* At the top of the loop, where yylex() picks the start state, the flag   *)
(* for ^ is set exactly at the start of the input and after a newline,     *)
(* whatever yymore() keeps and yyless() gives back.  The empty text of     *)
(* yyless(0), or of an empty head, clears it wherever it is.               *)
BolMatchesText ==
    pc = "loop" /\ pos < end =>
        atBol = ((pos = 0 \/ Unsealed[pos - 1] = NL) /\ ~(active /\ yyleng = 0))
=============================================================================
