--------------------------- MODULE ScanTextProofs ---------------------------
(***************************************************************************)
(* For every buffer size, input and set of calls: the seal never leaks     *)
(* into the input and the text always ends at the cursor.                  *)
(***************************************************************************)
EXTENDS ScanText, FiniteSetTheorems, TLAPS

(* yymore() is used only where it is safe: with a memory buffer, and in    *)
(* actions that neither unput() nor return.  Elsewhere yytext can come to  *)
(* lie before the buffer (see the hazards in the README).                  *)
SafeYymore == "yymore" \in Calls => ~FileBacked /\ Calls \cap {"unput", "return"} = {}

(* The offset yymore() keeps stays inside what has been read.              *)
MoreOffsetInBuffer ==
    /\ "yymore" \notin Calls => ~moreFlag /\ moreOffset = 0
    /\ pc # "action" => moreOffset <= pos
    /\ pc = "action" /\ active => yytext + moreOffset <= end
    /\ pc = "action" /\ ~active => ~moreFlag \/ yyleng = 0
    /\ pc = "eof" /\ active => yyleng = 0

IInv == TypeOK /\ TextEndsAtCursor /\ NoStrayNul /\ MoreOffsetInBuffer

-----------------------------------------------------------------------------
(* Counting newlines gives a number, whatever cells are counted.           *)
LEMMA CountedType ==
    ASSUME NEW d, NEW i \in Int, NEW j \in Int
    PROVE  Counted(d, i, j) \in Nat
<1>1. IsFiniteSet(i .. j - 1)
  BY FS_Interval
<1>2. IsFiniteSet({k \in i .. j - 1 : d[k] = NL})
  BY <1>1, FS_Subset
<1> QED
  BY <1>2, FS_CardinalityType DEF Counted, Newlines

(* The array with its seal undone: bytes and sentinels, every byte of the  *)
(* buffer an input byte, and different from data only at the cursor.       *)
LEMMA UnsealedArray ==
    ASSUME IInv
    PROVE  /\ Unsealed \in [Cell -> Byte \cup {NUL}]
           /\ \A i \in 0 .. end - 1 : Unsealed[i] \in Byte
           /\ pos \in Cell /\ end \in Cell
           /\ active => /\ yytext \in 0 .. pos
                        /\ Unsealed = [data EXCEPT ![pos] = save]
<1> USE TextAssumption DEF IInv, TypeOK, FlagType, BufferType, TextType,
        TextEndsAtCursor, NoStrayNul, Cell
<1>1. pos \in Cell /\ end \in Cell
  OBVIOUS
<1>2. active => Unsealed = [data EXCEPT ![pos] = save]
  BY DEF Unsealed
<1>3. Unsealed \in [Cell -> Byte \cup {NUL}]
  BY <1>1, <1>2 DEF Unsealed
<1> QED
  BY <1>1, <1>2, <1>3

(* Filled(s) is an array that holds the bytes of s.                        *)
LEMMA FilledArray ==
    ASSUME NEW s \in Inputs
    PROVE  /\ Filled(s) \in [Cell -> Byte \cup {NUL}]
           /\ Len(s) \in 0 .. Cap
           /\ \A i \in 0 .. Len(s) - 1 : Filled(s)[i] \in Byte
<1>1. s \in Seq(Byte) /\ Len(s) \in Nat /\ Len(s) <= Cap
  BY TextAssumption
<1>2. \A i \in 0 .. Len(s) - 1 : i \in Cell /\ s[i + 1] \in Byte
  BY <1>1, TextAssumption DEF Cell
<1> QED
  BY <1>1, <1>2, TextAssumption DEF Filled, Cell

-----------------------------------------------------------------------------
(* The initial buffer satisfies the invariant.                             *)
LEMMA InitInv == Init => IInv
<1> SUFFICES ASSUME Init PROVE IInv
  OBVIOUS
<1>1. PICK s \in Inputs :
        /\ data = Filled(s) /\ end = Len(s) /\ pos = 0 /\ atBol = TRUE
        /\ yytext = NoText /\ yyleng = 0 /\ save = NUL /\ active = FALSE
        /\ moreFlag = FALSE /\ moreOffset = 0
        /\ yylineno = 1 /\ opened = 1 /\ pc = "call"
  BY DEF Init
<1>2. Filled(s) \in [Cell -> Byte \cup {NUL}] /\ Len(s) \in 0 .. Cap
      /\ \A i \in 0 .. Len(s) - 1 : Filled(s)[i] \in Byte
  BY FilledArray
<1>3. FlagType
  BY <1>1 DEF FlagType
<1>4. BufferType
  BY <1>1, <1>2 DEF BufferType
<1>5. TextType
  BY <1>1 DEF TextType, Place
<1>6. NoStrayNul
  BY <1>1, <1>2 DEF NoStrayNul, Unsealed
<1>7. TextEndsAtCursor /\ MoreOffsetInBuffer
  BY <1>1 DEF TextEndsAtCursor, MoreOffsetInBuffer
<1> QED
  BY <1>3, <1>4, <1>5, <1>6, <1>7 DEF IInv, TypeOK

(* Reopening the buffer, by the loop or by a call, preserves it.           *)
LEMMA ReopenedInv ==
    ASSUME IInv, SafeYymore, FileBacked, NEW s \in Inputs,
           Reopened(s), opened' = opened + 1, UNCHANGED pc
    PROVE  IInv'
<1>1. Filled(s) \in [Cell -> Byte \cup {NUL}] /\ Len(s) \in 0 .. Cap
      /\ \A i \in 0 .. Len(s) - 1 : Filled(s)[i] \in Byte
  BY FilledArray
<1>2. ~moreFlag /\ moreOffset = 0
  BY DEF IInv, MoreOffsetInBuffer, SafeYymore
<1>3. /\ data' = Filled(s) /\ end' = Len(s) /\ pos' = 0 /\ atBol' = TRUE
      /\ yytext' = NoText /\ yyleng' = 0 /\ save' = NUL /\ active' = FALSE
      /\ moreFlag' = moreFlag /\ moreOffset' = moreOffset
      /\ yylineno' = yylineno /\ opened' = opened + 1 /\ pc' = pc
  BY DEF Reopened, moreVars
<1>4. FlagType'
  BY <1>3 DEF IInv, TypeOK, FlagType
<1>5. BufferType'
  BY <1>1, <1>3 DEF BufferType
<1>6. TextType'
  BY <1>3 DEF IInv, TypeOK, TextType
<1>7. TextEndsAtCursor' /\ MoreOffsetInBuffer'
  BY <1>2, <1>3 DEF TextEndsAtCursor, MoreOffsetInBuffer
<1>8. NoStrayNul'
  BY <1>1, <1>3 DEF NoStrayNul, Unsealed
<1> QED
  BY <1>4, <1>5, <1>6, <1>7, <1>8 DEF IInv, TypeOK

(* A step that leaves an unsealed array d of e input bytes.                *)
LEMMA OpenStep ==
    ASSUME IInv, NEW e \in 0 .. Cap,
           NEW d \in [Cell -> Byte \cup {NUL}],
           \A i \in 0 .. e - 1 : d[i] \in Byte,
           data' = d, end' = e, pos' \in 0 .. e, active' = FALSE,
           atBol' \in BOOLEAN, yylineno' \in Nat, pc' \in Place,
           UNCHANGED <<yytext, yyleng, save, moreVars, opened>>,
           MoreOffsetInBuffer'
    PROVE  IInv'
<1>1. /\ yytext' = yytext /\ yyleng' = yyleng /\ save' = save
      /\ moreFlag' = moreFlag /\ moreOffset' = moreOffset /\ opened' = opened
  BY DEF moreVars
<1>2. FlagType'
  BY <1>1 DEF IInv, TypeOK, FlagType
<1>3. BufferType'
  BY <1>1 DEF IInv, TypeOK, BufferType
<1>4. TextType'
  BY <1>1 DEF IInv, TypeOK, TextType
<1>5. NoStrayNul'
  BY DEF NoStrayNul, Unsealed
<1>6. TextEndsAtCursor'
  BY DEF TextEndsAtCursor
<1> QED
  BY <1>2, <1>3, <1>4, <1>5, <1>6 DEF IInv, TypeOK

(* A step that undoes the seal and moves the cursor inside the buffer.     *)
LEMMA UnsealStep ==
    ASSUME IInv,
           data' = Unsealed, active' = FALSE, end' = end, pos' \in 0 .. end,
           atBol' \in BOOLEAN, yylineno' \in Nat, pc' \in Place,
           UNCHANGED <<yytext, yyleng, save, moreVars, opened>>,
           MoreOffsetInBuffer'
    PROVE  IInv'
<1>1. /\ Unsealed \in [Cell -> Byte \cup {NUL}]
      /\ \A i \in 0 .. end - 1 : Unsealed[i] \in Byte
  BY UnsealedArray
<1>2. end \in 0 .. Cap
  BY DEF IInv, TypeOK, BufferType
<1> QED
  BY <1>1, <1>2, OpenStep

(* A step that seals the text at the new cursor, over an array d that      *)
(* holds only input bytes.                                                 *)
LEMMA SealStep ==
    ASSUME IInv,
           NEW d \in [Cell -> Byte \cup {NUL}],
           \A i \in 0 .. end - 1 : d[i] \in Byte,
           end' = end, pos' \in 0 .. end,
           data' = [d EXCEPT ![pos'] = NUL], save' = d[pos'], active' = TRUE,
           yytext' \in 0 .. pos', yyleng' \in Nat, yytext' + yyleng' = pos',
           atBol' \in BOOLEAN, moreFlag' \in BOOLEAN, yylineno' \in Nat,
           pc' \in Place, moreOffset' = moreOffset, opened' = opened,
           MoreOffsetInBuffer'
    PROVE  IInv'
<1>0. pos' \in Cell
  BY TextAssumption DEF IInv, TypeOK, BufferType, Cell
<1>1. FlagType'
  BY DEF FlagType
<1>2. BufferType'
  BY <1>0 DEF IInv, TypeOK, BufferType
<1>3. TextType'
  BY DEF IInv, TypeOK, TextType
<1>4. TextEndsAtCursor'
  BY <1>0 DEF TextEndsAtCursor
<1>5. Unsealed' = d
  <2>1. Unsealed' = [data' EXCEPT ![pos'] = save']
    BY DEF Unsealed
  <2> QED
    BY <1>0, <2>1
<1>6. NoStrayNul'
  BY <1>5 DEF NoStrayNul
<1> QED
  BY <1>1, <1>2, <1>3, <1>4, <1>6 DEF IInv, TypeOK

(* A step that touches neither the buffer nor the text.                    *)
LEMMA ControlStep ==
    ASSUME IInv, UNCHANGED <<bufVars, textVars, yylineno, opened>>,
           moreFlag' \in BOOLEAN, moreOffset' \in Nat, pc' \in Place,
           pc' = "action" => pc = "action",
           MoreOffsetInBuffer'
    PROVE  IInv'
<1>1. /\ data' = data /\ end' = end /\ pos' = pos /\ atBol' = atBol
      /\ yytext' = yytext /\ yyleng' = yyleng /\ save' = save
      /\ active' = active /\ yylineno' = yylineno /\ opened' = opened
  BY DEF bufVars, textVars
<1>2. FlagType'
  BY <1>1 DEF IInv, TypeOK, FlagType
<1>3. BufferType'
  BY <1>1 DEF IInv, TypeOK, BufferType
<1>4. TextType'
  BY <1>1 DEF IInv, TypeOK, TextType
<1>5. NoStrayNul'
  BY <1>1 DEF IInv, NoStrayNul, Unsealed
<1>6. TextEndsAtCursor'
  BY <1>1 DEF IInv, TextEndsAtCursor
<1> QED
  BY <1>2, <1>3, <1>4, <1>5, <1>6 DEF IInv, TypeOK

-----------------------------------------------------------------------------
(* The actions of the loop.                                                *)

(* At the end of the input, over an array d that holds only input bytes:   *)
(* the empty text at the cursor needs no seal, d already ends in a NUL.    *)
LEMMA EofStep ==
    ASSUME IInv, NEW e \in 0 .. Cap,
           NEW d \in [Cell -> Byte \cup {NUL}],
           \A i \in 0 .. e - 1 : d[i] \in Byte,
           data' = d, end' = e, pos' = e, atBol' \in BOOLEAN,
           yytext' = e, yyleng' = 0, save' = NUL, active' = TRUE,
           pc' = "eof", moreOffset <= e,
           UNCHANGED <<moreVars, yylineno, opened>>
    PROVE  IInv'
<1>0. Cap \in Nat /\ e \in Nat /\ e <= Cap
  BY TextAssumption
<1>1. /\ moreFlag' = moreFlag /\ moreOffset' = moreOffset
      /\ yylineno' = yylineno /\ opened' = opened
  BY DEF moreVars
<1>2. FlagType'
  BY <1>1 DEF IInv, TypeOK, FlagType
<1>3. BufferType'
  BY <1>0 DEF BufferType
<1>4. TextType'
  BY <1>0, <1>1 DEF IInv, TypeOK, TextType, Place
<1>5. yytext' + yyleng' = e /\ e + 0 = e
  BY <1>0
<1>6. TextEndsAtCursor'
  BY <1>0, <1>5 DEF TextEndsAtCursor
<1>7. NoStrayNul'
  <2>1. Unsealed' = [d EXCEPT ![e] = NUL]
    BY <1>5 DEF Unsealed
  <2>2. \A i \in 0 .. e - 1 : i \in Cell /\ i # e
    BY <1>0 DEF Cell
  <2> QED
    BY <2>1, <2>2 DEF NoStrayNul
<1>8. MoreOffsetInBuffer'
  BY <1>1 DEF IInv, MoreOffsetInBuffer
<1> QED
  BY <1>2, <1>3, <1>4, <1>6, <1>7, <1>8 DEF IInv, TypeOK

LEMMA EndOfInputInv ==
    ASSUME IInv, SafeYymore, EndOfInput
    PROVE  IInv'
<1>0. /\ Unsealed \in [Cell -> Byte \cup {NUL}]
      /\ \A i \in 0 .. end - 1 : Unsealed[i] \in Byte
  BY UnsealedArray
<1>1. pos = end /\ moreOffset <= pos /\ end \in 0 .. Cap
  BY DEF IInv, TypeOK, BufferType, TextType, MoreOffsetInBuffer, EndOfInput
<1>2. /\ yytext' = pos' /\ yyleng' = 0 /\ save' = NUL /\ active' = TRUE
      /\ pc' = "eof" /\ UNCHANGED <<moreVars, yylineno, opened>>
  BY DEF EndOfInput
<1>3. CASE FileBacked
  <2>1. Filled(<<>>) \in [Cell -> Byte \cup {NUL}]
    BY TextAssumption DEF Filled, Cell
  <2>2. moreOffset = 0
    BY <1>3 DEF IInv, MoreOffsetInBuffer, SafeYymore
  <2>3. data' = Filled(<<>>) /\ end' = 0 /\ pos' = 0 /\ atBol' = TRUE
    BY <1>3 DEF EndOfInput
  <2>4. 0 \in 0 .. Cap /\ moreOffset <= 0 /\ \A i \in 0 .. 0 - 1 : FALSE
    BY <2>2, TextAssumption
  <2>5. yytext' = 0 /\ atBol' \in BOOLEAN
    BY <1>2, <2>3
  <2> QED
    BY <1>2, <2>1, <2>3, <2>4, <2>5, EofStep
<1>4. CASE ~FileBacked
  <2>1. data' = Unsealed /\ end' = end /\ pos' = end /\ atBol' = atBol
    BY <1>1, <1>4 DEF EndOfInput
  <2>2. atBol' \in BOOLEAN
    BY <2>1 DEF IInv, TypeOK, FlagType
  <2>3. yytext' = end /\ moreOffset <= end
    BY <1>1, <1>2, <2>1
  <2> QED
    BY <1>0, <1>1, <1>2, <2>1, <2>2, <2>3, EofStep
<1> QED
  BY <1>3, <1>4

LEMMA MatchInv ==
    ASSUME IInv, NEW k \in 0 .. Cap, Match(k)
    PROVE  IInv'
<1> DEFINE d    == Unsealed
           from == pos - moreOffset
           to   == pos + k
<1>0. d \in [Cell -> Byte \cup {NUL}] /\ \A i \in 0 .. end - 1 : d[i] \in Byte
  BY UnsealedArray
<1>1. /\ pc = "loop" /\ k \in Nat /\ k <= end - pos
      /\ end \in Nat /\ pos \in Nat /\ moreOffset \in Nat /\ moreOffset <= pos
  BY TextAssumption DEF Match, Shortest, IInv, TypeOK, BufferType, TextType,
                        MoreOffsetInBuffer
<1>2. /\ yytext' = from /\ yyleng' = k + moreOffset /\ pos' = to /\ end' = end
      /\ data' = [d EXCEPT ![pos'] = NUL] /\ save' = d[pos']
      /\ active' = TRUE /\ moreFlag' = FALSE /\ moreOffset' = moreOffset
      /\ pc' = "action" /\ opened' = opened
  BY DEF Match
<1>3. yylineno' \in Nat
  BY <1>1, CountedType DEF Match, IInv, TypeOK, TextType
<1>4. atBol' \in BOOLEAN
  BY DEF Match, EndsLine
<1>5. /\ pos' \in 0 .. end /\ yytext' \in 0 .. pos' /\ yyleng' \in Nat
      /\ yytext' + yyleng' = pos' /\ yytext' + moreOffset' <= end'
  BY <1>1, <1>2
<1>6. MoreOffsetInBuffer'
  BY <1>2, <1>5 DEF IInv, MoreOffsetInBuffer
<1>7. pc' \in Place /\ moreFlag' \in BOOLEAN /\ active' = TRUE
  BY <1>2 DEF Place
<1> HIDE DEF d
<1> QED
  BY <1>0, <1>2, <1>3, <1>4, <1>5, <1>6, <1>7, SealStep

LEMMA DefaultInv ==
    ASSUME IInv, Default
    PROVE  IInv'
<1>1. pos \in 0 .. end /\ pos < end /\ end \in Nat /\ pc = "loop" /\ pc' = pc
      /\ pos' = pos + 1 /\ moreFlag' = moreFlag /\ moreOffset' = moreOffset
      /\ moreOffset \in Nat /\ moreOffset <= pos
  BY DEF Default, moreVars, IInv, TypeOK, BufferType, TextType, MoreOffsetInBuffer
<1>2. yylineno' \in Nat
  BY <1>1, CountedType DEF Default, IInv, TypeOK, TextType
<1>3. atBol' \in BOOLEAN /\ pc' \in Place
  BY <1>1 DEF Default, Place
<1>4. MoreOffsetInBuffer'
  BY <1>1 DEF IInv, MoreOffsetInBuffer
<1>5. pos' \in 0 .. end
  BY <1>1
<1> QED
  BY <1>2, <1>3, <1>4, <1>5, UnsealStep DEF Default

LEMMA JamInv ==
    ASSUME IInv, Jam
    PROVE  IInv'
<1>1. /\ pc = "loop" /\ pc' = "jam" /\ pos' = pos /\ atBol' = atBol
      /\ moreFlag' = moreFlag /\ moreOffset' = moreOffset /\ yylineno' = yylineno
  BY DEF Jam, moreVars
<1>2. atBol' \in BOOLEAN
  BY <1>1 DEF IInv, TypeOK, FlagType
<1>3. pos' \in 0 .. end /\ yylineno' \in Nat /\ pc' \in Place
  BY <1>1 DEF IInv, TypeOK, BufferType, TextType, Place
<1>4. MoreOffsetInBuffer'
  BY <1>1 DEF IInv, MoreOffsetInBuffer
<1> QED
  BY <1>2, <1>3, <1>4, UnsealStep DEF Jam

(* Falling off the end of an action, the kept length is the text's.        *)
LEMMA FallOffInv ==
    ASSUME IInv, FallOff
    PROVE  IInv'
<1>1. /\ moreFlag' = moreFlag /\ moreOffset' = KeptLength /\ pos' = pos
      /\ pc = "action" /\ pc' = "loop" /\ active' = active
  BY DEF FallOff, bufVars, textVars
<1>2. moreFlag' \in BOOLEAN
  BY <1>1 DEF IInv, TypeOK, FlagType
<1>3. moreOffset' \in Nat /\ moreOffset' <= pos'
  BY <1>1 DEF IInv, TypeOK, BufferType, TextType, TextEndsAtCursor, KeptLength,
              MoreOffsetInBuffer
<1>4. MoreOffsetInBuffer'
  BY <1>1, <1>3 DEF IInv, MoreOffsetInBuffer, KeptLength
<1> QED
  BY <1>1, <1>2, <1>3, <1>4, ControlStep DEF FallOff, Place

(* Leaving yylex(), entering it, and asking for yymore() change control    *)
(* only.                                                                   *)
LEMMA ControlInv ==
    ASSUME IInv, SafeYymore, Call \/ Return \/ Terminate \/ Yymore
    PROVE  IInv'
<1>1. /\ UNCHANGED <<bufVars, textVars, yylineno, opened>>
      /\ moreOffset' = moreOffset /\ pos' = pos /\ active' = active
      /\ yyleng' = yyleng /\ yytext' = yytext /\ end' = end
  BY DEF Call, Return, Terminate, Yymore, bufVars, textVars, moreVars
<1>2. /\ pc' \in Place /\ (pc' = "action" => pc = "action")
      /\ moreFlag' \in BOOLEAN
  BY DEF Call, Return, Terminate, Yymore, moreVars, Place, InAction,
         IInv, TypeOK, FlagType
<1>3. moreOffset' \in Nat
  BY <1>1 DEF IInv, TypeOK, TextType
<1>4. MoreOffsetInBuffer'
  <2>1. CASE Return
    <3>1. "yymore" \notin Calls
      BY <2>1 DEF Return, SafeYymore
    <3>2. moreOffset' = 0 /\ 0 <= pos' /\ moreFlag' = moreFlag /\ ~moreFlag
      BY <1>1, <2>1, <3>1 DEF Return, moreVars, IInv, TypeOK, BufferType,
                               MoreOffsetInBuffer
    <3> QED
      BY <2>1, <3>2 DEF Return, MoreOffsetInBuffer
  <2>2. CASE Call \/ Terminate
    BY <1>1, <2>2 DEF Call, Terminate, moreVars, IInv, MoreOffsetInBuffer
  <2>3. CASE Yymore
    BY <1>1, <2>3 DEF Yymore, InAction, IInv, MoreOffsetInBuffer
  <2> QED
    BY <2>1, <2>2, <2>3
<1> QED
  BY <1>1, <1>2, <1>3, <1>4, ControlStep

-----------------------------------------------------------------------------
(* What actions call.                                                      *)

LEMMA YylessInv ==
    ASSUME IInv, NEW n \in 0 .. Cap, Yyless(n)
    PROVE  IInv'
<1> DEFINE to == yytext + n
<1>1. /\ active /\ pc \in {"action", "eof"} /\ n \in Nat /\ n <= yyleng
      /\ yytext \in 0 .. pos /\ yyleng \in Nat /\ yytext + yyleng = pos
      /\ pos \in 0 .. end /\ end \in Nat /\ moreOffset \in Nat
  BY TextAssumption DEF Yyless, InAction, IInv, TypeOK, BufferType, TextType,
                        TextEndsAtCursor
<1>2. /\ Unsealed \in [Cell -> Byte \cup {NUL}]
      /\ \A i \in 0 .. end - 1 : Unsealed[i] \in Byte
  BY UnsealedArray
<1>3. pos - (yyleng - n) = to /\ to \in 0 .. pos
  BY <1>1
<1>4. /\ pos' = to /\ yyleng' = n /\ yytext' = yytext /\ end' = end
      /\ active' = TRUE /\ pc' = pc
      /\ moreFlag' = moreFlag /\ moreOffset' = moreOffset
      /\ yylineno' = yylineno /\ opened' = opened
  BY <1>1, <1>3 DEF Yyless, LessCursor, moreVars
<1>5. /\ data' = [Unsealed EXCEPT ![pos'] = NUL] /\ save' = Unsealed[pos']
      /\ atBol' = EndsLine(Unsealed, n, to)
  BY <1>1, <1>4 DEF Yyless, Unsealed
<1>6. /\ atBol' \in BOOLEAN /\ moreFlag' \in BOOLEAN
      /\ yylineno' \in Nat /\ pc' \in Place
  BY <1>4, <1>5 DEF EndsLine, IInv, TypeOK, FlagType, TextType
<1>7. /\ pos' \in 0 .. end /\ yytext' \in 0 .. pos' /\ yyleng' \in Nat
      /\ yytext' + yyleng' = pos'
  BY <1>1, <1>3, <1>4
<1>8. MoreOffsetInBuffer'
  <2>1. CASE pc = "action"
    BY <1>1, <1>4, <2>1 DEF IInv, MoreOffsetInBuffer
  <2>2. CASE pc = "eof"
    <3>1. yyleng = 0
      BY <1>1, <2>2 DEF IInv, MoreOffsetInBuffer
    <3>2. n = 0 /\ to = pos
      BY <1>1, <3>1
    <3> QED
      BY <1>4, <2>2, <3>2 DEF IInv, MoreOffsetInBuffer
  <2> QED
    BY <1>1, <2>1, <2>2
<1> QED
  BY <1>2, <1>4, <1>5, <1>6, <1>7, <1>8, SealStep

LEMMA InputInv ==
    ASSUME IInv, Input
    PROVE  IInv'
<1>1. /\ pos \in 0 .. end /\ end \in Nat /\ Got \in {0, 1}
      /\ moreOffset \in Nat /\ pc \in {"action", "eof"} /\ ~moreFlag
  BY TextAssumption DEF Input, InAction, Got, IInv, TypeOK, BufferType, TextType
<1>2. pos + Got \in 0 .. end /\ pos <= pos + Got
  BY <1>1 DEF Got
<1>3. /\ pos' = pos + Got /\ pc' = pc /\ atBol' = atBol
      /\ active' = FALSE /\ moreFlag' = moreFlag /\ moreOffset' = moreOffset
  BY DEF Input, moreVars
<1>4. yylineno' \in Nat
  <2>1. Counted(Unsealed, pos, pos + Got) \in Nat
    BY <1>1, CountedType
  <2> QED
    BY <2>1 DEF Input, IInv, TypeOK, TextType
<1>5. atBol' \in BOOLEAN /\ pc' \in Place
  BY <1>1, <1>3 DEF IInv, TypeOK, FlagType, Place
<1>6. MoreOffsetInBuffer'
  <2>1. moreOffset <= pos => moreOffset <= pos + Got
    BY <1>1, <1>2
  <2> QED
    BY <1>1, <1>3, <2>1 DEF IInv, MoreOffsetInBuffer
<1> QED
  BY <1>2, <1>3, <1>4, <1>5, <1>6, UnsealStep DEF Input

(* REJECT puts the cursor where the match began, inside the buffer.        *)
LEMMA RejectInv ==
    ASSUME IInv, Reject
    PROVE  IInv'
<1>1. /\ active /\ pc = "action" /\ pc' = "loop"
      /\ pos' = yytext + moreOffset /\ moreFlag' = moreFlag
      /\ moreOffset' = moreOffset /\ atBol' = atBol /\ yylineno' = yylineno
  BY DEF Reject, moreVars
<1>2. /\ yytext \in 0 .. pos /\ pos \in 0 .. end /\ end \in Nat
      /\ moreOffset \in Nat /\ yytext + moreOffset <= end
  BY <1>1, TextAssumption DEF IInv, TypeOK, BufferType, TextType,
                              TextEndsAtCursor, MoreOffsetInBuffer
<1>3. yytext + moreOffset \in 0 .. end /\ moreOffset <= yytext + moreOffset
  BY <1>2
<1>4. MoreOffsetInBuffer'
  BY <1>1, <1>3 DEF IInv, MoreOffsetInBuffer
<1>5. atBol' \in BOOLEAN /\ yylineno' \in Nat /\ pc' \in Place
  BY <1>1 DEF IInv, TypeOK, FlagType, TextType, Place
<1> QED
  BY <1>1, <1>3, <1>4, <1>5, UnsealStep DEF Reject

(* unput(c) writes the cell before the cursor, or cell 0 of the array      *)
(* moved up by one, into which every old byte still fits.                  *)
LEMMA UnputInv ==
    ASSUME IInv, SafeYymore, NEW c \in Byte, Unput(c)
    PROVE  IInv'
<1>1. /\ Unsealed \in [Cell -> Byte \cup {NUL}]
      /\ \A i \in 0 .. end - 1 : Unsealed[i] \in Byte
  BY UnsealedArray
<1>2. /\ Cap \in Nat /\ end \in Nat /\ end <= Cap /\ pos \in Nat /\ pos <= end
      /\ pc' = pc /\ moreOffset' = moreOffset /\ moreFlag' = moreFlag
      /\ active' = FALSE /\ yylineno' = yylineno /\ yyleng' = yyleng
  BY TextAssumption DEF Unput, moreVars, IInv, TypeOK, BufferType
<1>3. "yymore" \notin Calls /\ ~moreFlag /\ moreOffset = 0
  BY DEF Unput, SafeYymore, IInv, MoreOffsetInBuffer
<1>4. atBol' \in BOOLEAN /\ yylineno' \in Nat /\ pc' \in Place
  BY <1>2 DEF Unput, IInv, TypeOK, TextType
<1>5. UNCHANGED <<yytext, yyleng, save, moreVars, opened>>
  BY DEF Unput
<1>6. CASE pos > 0 /\ data' = [Unsealed EXCEPT ![pos - 1] = c]
           /\ pos' = pos - 1 /\ end' = end
  <2> DEFINE d == [Unsealed EXCEPT ![pos - 1] = c]
  <2>1. d \in [Cell -> Byte \cup {NUL}] /\ \A i \in 0 .. end - 1 : d[i] \in Byte
    BY <1>1, <1>2, <1>6 DEF Cell
  <2>2. pos - 1 \in 0 .. end /\ 0 <= pos - 1 /\ end \in 0 .. Cap
    BY <1>2, <1>6
  <2>3. MoreOffsetInBuffer'
    BY <1>2, <1>3, <1>6, <2>2 DEF MoreOffsetInBuffer
  <2>4. data' = d /\ pos' \in 0 .. end /\ end' = end
    BY <1>6, <2>2
  <2> HIDE DEF d
  <2> QED
    BY <1>2, <1>4, <1>5, <2>1, <2>2, <2>3, <2>4, OpenStep
<1>7. CASE pos = 0 /\ end < Cap /\ data' = [ShiftedUp(Unsealed) EXCEPT ![0] = c]
           /\ end' = end + 1 /\ pos' = pos
  <2> DEFINE d == [ShiftedUp(Unsealed) EXCEPT ![0] = c]
             e == end + 1
  <2>1. e \in 0 .. Cap /\ 0 \in 0 .. e
    BY <1>2, <1>7
  <2>2. \A i \in Cell : i \in 1 .. end => i - 1 \in Cell /\ i - 1 \in 0 .. end - 1
    BY <1>2 DEF Cell
  <2>3. ShiftedUp(Unsealed) \in [Cell -> Byte \cup {NUL}]
    BY <1>1, <2>2 DEF ShiftedUp
  <2>4. d \in [Cell -> Byte \cup {NUL}]
    BY <2>3
  <2>5. \A i \in 1 .. end : ShiftedUp(Unsealed)[i] \in Byte
    BY <1>1, <1>2, <2>2 DEF ShiftedUp, Cell
  <2>6. \A i \in 0 .. e - 1 : i \in Cell /\ (i = 0 \/ i \in 1 .. end)
    BY <1>2, <1>7 DEF Cell
  <2>7. \A i \in 0 .. e - 1 : d[i] \in Byte
    BY <2>3, <2>5, <2>6
  <2>8. MoreOffsetInBuffer'
    BY <1>2, <1>3, <1>7 DEF MoreOffsetInBuffer
  <2>9. data' = d /\ pos' \in 0 .. e /\ end' = e
    BY <1>7, <2>1
  <2> HIDE DEF d, e
  <2> QED
    BY <1>2, <1>4, <1>5, <2>1, <2>4, <2>7, <2>8, <2>9, OpenStep
<1> QED
  BY <1>6, <1>7 DEF Unput

-----------------------------------------------------------------------------
(* Every step preserves the invariant.                                     *)
LEMMA NextInv ==
    ASSUME IInv, SafeYymore, [Next]_vars
    PROVE  IInv'
<1>1. CASE Call \/ Return \/ Terminate \/ Yymore
  BY <1>1, ControlInv
<1>2. ASSUME NEW s \in Inputs, AutoRestart(s) PROVE IInv'
  BY <1>2, ReopenedInv DEF AutoRestart
<1>3. CASE EndOfInput
  BY <1>3, EndOfInputInv
<1>4. ASSUME NEW k \in 0 .. Cap, Match(k) PROVE IInv'
  BY <1>4, MatchInv
<1>5. CASE Default
  BY <1>5, DefaultInv
<1>6. CASE Jam
  BY <1>6, JamInv
<1>7. CASE FallOff
  BY <1>7, FallOffInv
<1>8. ASSUME NEW n \in 0 .. Cap, Yyless(n) PROVE IInv'
  BY <1>8, YylessInv
<1>9. CASE Input
  BY <1>9, InputInv
<1>10. ASSUME NEW c \in Byte, Unput(c) PROVE IInv'
  BY <1>10, UnputInv
<1>11. CASE Reject
  BY <1>11, RejectInv
<1>12. ASSUME NEW s \in Inputs, Yyrestart(s) PROVE IInv'
  BY <1>12, ReopenedInv, TextAssumption DEF Yyrestart
<1>13. CASE UNCHANGED vars
  <2>1. /\ data' = data /\ end' = end /\ pos' = pos /\ atBol' = atBol
        /\ yytext' = yytext /\ yyleng' = yyleng /\ save' = save
        /\ active' = active /\ moreFlag' = moreFlag /\ moreOffset' = moreOffset
        /\ yylineno' = yylineno /\ opened' = opened /\ pc' = pc
    BY <1>13 DEF vars, bufVars, textVars, moreVars
  <2> QED
    BY <2>1 DEF IInv, TypeOK, FlagType, BufferType, TextType, TextEndsAtCursor,
                NoStrayNul, Unsealed, MoreOffsetInBuffer
<1> QED
  BY <1>1, <1>2, <1>3, <1>4, <1>5, <1>6, <1>7, <1>8, <1>9, <1>10, <1>11,
     <1>12, <1>13 DEF Next

(* Every reachable state satisfies the inductive invariant, provided       *)
(* yymore() is used where it is safe.                                      *)
THEOREM Invariance == ASSUME SafeYymore PROVE Spec => []IInv
<1>1. IInv /\ [Next]_vars => IInv'
  BY NextInv
<1> QED
  BY <1>1, InitInv, PTL DEF Spec

(* The fields and static variables keep their types; in particular the     *)
(* cursor never leaves the buffer.                                         *)
THEOREM TypeCorrect == ASSUME SafeYymore PROVE Spec => []TypeOK
<1>1. IInv => TypeOK
  BY DEF IInv
<1> QED
  BY <1>1, Invariance, PTL

(* yytext, while valid, lies inside the buffer, is terminated and ends at  *)
(* the cursor.                                                             *)
THEOREM TextPlacement == ASSUME SafeYymore PROVE Spec => []TextEndsAtCursor
<1>1. IInv => TextEndsAtCursor
  BY DEF IInv
<1> QED
  BY <1>1, Invariance, PTL

(* No terminator written by a seal is ever left in the input.              *)
THEOREM SealsUndone == ASSUME SafeYymore PROVE Spec => []NoStrayNul
<1>1. IInv => NoStrayNul
  BY DEF IInv
<1> QED
  BY <1>1, Invariance, PTL

-----------------------------------------------------------------------------
(* What the steps do to the array with its seal undone, which is what the  *)
(* remaining properties are about.                                         *)

(* A match changes no byte.                                                *)
LEMMA MatchArray ==
    ASSUME IInv, NEW k \in 0 .. Cap, Match(k)
    PROVE  /\ Unsealed' = Unsealed /\ end' = end /\ pos' = pos + k
           /\ k \in Nat /\ k <= end - pos /\ (~EmptyHead => k > 0)
           /\ pos \in Nat /\ end \in Nat /\ pos + k \in Cell
           /\ moreOffset \in Nat /\ moreOffset <= pos
<1>1. /\ k \in Nat /\ k <= end - pos /\ (~EmptyHead => k > 0) /\ Cap \in Nat
      /\ end \in Nat /\ end <= Cap /\ pos \in Nat /\ moreOffset \in Nat /\ moreOffset <= pos
  BY TextAssumption DEF Match, Shortest, IInv, TypeOK, BufferType, TextType,
                        MoreOffsetInBuffer
<1>2. pos + k \in Cell /\ (pos - moreOffset) + (k + moreOffset) = pos + k
  BY <1>1 DEF Cell
<1>3. Unsealed \in [Cell -> Byte \cup {NUL}]
  BY UnsealedArray
<1>4. /\ yytext' + yyleng' = pos + k /\ pos' = pos + k /\ end' = end /\ active' = TRUE
      /\ save' = Unsealed[pos + k] /\ data' = [Unsealed EXCEPT ![pos + k] = NUL]
  BY <1>2 DEF Match
<1>5. Unsealed' = [data' EXCEPT ![pos + k] = save']
  BY <1>4 DEF Unsealed
<1> QED BY <1>1, <1>2, <1>3, <1>4, <1>5

(* Neither does yyless(); it moves the cursor into the text.               *)
LEMMA YylessArray ==
    ASSUME IInv, NEW n \in 0 .. Cap, Yyless(n)
    PROVE  /\ Unsealed' = Unsealed /\ end' = end /\ pos' = yytext + n
           /\ n \in Nat /\ n <= yyleng /\ yytext \in Nat /\ yyleng \in Nat
           /\ yytext + yyleng = pos /\ pos <= end /\ end \in Nat /\ active
<1>1. /\ active /\ n \in Nat /\ n <= yyleng /\ yytext \in Nat /\ yyleng \in Nat
      /\ yytext + yyleng = pos /\ pos \in Nat /\ pos <= end /\ end \in Nat
      /\ Cap \in Nat /\ end <= Cap
  BY TextAssumption DEF Yyless, IInv, TypeOK, BufferType, TextType, TextEndsAtCursor
<1>2. pos - (yyleng - n) = yytext + n /\ yytext + n \in Cell
  BY <1>1 DEF Cell
<1>3. Unsealed \in [Cell -> Byte \cup {NUL}] /\ Unsealed = [data EXCEPT ![yytext + yyleng] = save]
  BY <1>1, UnsealedArray DEF Unsealed
<1>4. /\ yytext' + yyleng' = yytext + n /\ pos' = yytext + n /\ end' = end /\ active' = TRUE
      /\ save' = Unsealed[yytext + n] /\ data' = [Unsealed EXCEPT ![yytext + n] = NUL]
  BY <1>1, <1>2, <1>3 DEF Yyless, LessCursor
<1>5. Unsealed' = [data' EXCEPT ![yytext + n] = save']
  BY <1>4 DEF Unsealed
<1> QED BY <1>1, <1>2, <1>3, <1>4, <1>5

(* The end of a memory buffer changes at most the sentinel.                *)
LEMMA EndArray ==
    ASSUME IInv, EndOfInput
    PROVE  /\ pos = end /\ end \in Nat /\ pos' = end' /\ yytext' = pos' /\ yyleng' = 0
           /\ active' /\ pc' = "eof"
           /\ FileBacked => end' = 0 /\ atBol'
           /\ ~FileBacked => /\ end' = end /\ atBol' = atBol
                             /\ \A i \in 0 .. end - 1 : Unsealed'[i] = Unsealed[i]
<1>1. pos = end /\ end \in Nat /\ end <= Cap /\ Cap \in Nat /\ pos + 0 = pos
  BY TextAssumption DEF IInv, TypeOK, BufferType, EndOfInput
<1>2. /\ yytext' = pos' /\ yyleng' = 0 /\ save' = NUL /\ active' = TRUE /\ pc' = "eof"
  BY DEF EndOfInput
<1>3. FileBacked => end' = 0 /\ pos' = 0 /\ atBol'
  BY DEF EndOfInput
<1>4. ASSUME ~FileBacked
      PROVE  /\ end' = end /\ pos' = end' /\ atBol' = atBol
             /\ \A i \in 0 .. end - 1 : Unsealed'[i] = Unsealed[i]
  <2>1. data' = Unsealed /\ end' = end /\ pos' = pos /\ atBol' = atBol
    BY <1>4 DEF EndOfInput
  <2>2. Unsealed' = [Unsealed EXCEPT ![pos] = NUL]
    BY <1>1, <1>2, <2>1 DEF Unsealed
  <2>3. \A i \in 0 .. end - 1 : i # pos /\ i \in Cell
    BY <1>1 DEF Cell
  <2>4. Unsealed \in [Cell -> Byte \cup {NUL}]
    BY UnsealedArray
  <2> QED BY <1>1, <2>1, <2>2, <2>3, <2>4
<1> QED BY <1>1, <1>2, <1>3, <1>4

(* Steps that undo the seal, and steps that leave buffer and text alone.   *)
LEMMA OpenArray ==
    ASSUME data' = Unsealed, active' = FALSE
    PROVE  Unsealed' = Unsealed
BY DEF Unsealed

LEMMA SameArray ==
    ASSUME UNCHANGED <<bufVars, textVars>>
    PROVE  /\ Unsealed' = Unsealed /\ pos' = pos /\ end' = end /\ atBol' = atBol
           /\ yytext' = yytext /\ yyleng' = yyleng /\ active' = active
BY DEF Unsealed, bufVars, textVars

-----------------------------------------------------------------------------
(* The flag for ^.  A match and yyless() set it from their text, and only  *)
(* input(), unput() and REJECT move the cursor without setting it from     *)
(* what is then before the cursor.                                         *)
PlainUse == Calls \subseteq {"return", "yyrestart", "yymore", "yyless"}

BolOfText == atBol = ((pos = 0 \/ Unsealed[pos - 1] = NL) /\ ~(active /\ yyleng = 0))
BolExact == pc # "jam" /\ pos < end => BolOfText

LEMMA StepBol ==
    ASSUME IInv, PlainUse, BolExact, [Next]_vars
    PROVE  BolExact'
<1>1. CASE Call \/ FallOff \/ Return \/ Terminate \/ Yymore \/ UNCHANGED vars
  <2>1. UNCHANGED <<bufVars, textVars>> /\ (pc' # "jam" => pc # "jam")
    BY <1>1 DEF Call, FallOff, Return, Terminate, Yymore, vars
  <2> QED BY <2>1, SameArray DEF BolExact, BolOfText
<1>2. CASE \E s \in Inputs : AutoRestart(s) \/ Yyrestart(s)
  <2>1. pos' = 0 /\ atBol' = TRUE /\ active' = FALSE
    BY <1>2 DEF AutoRestart, Yyrestart, Reopened
  <2> QED BY <2>1 DEF BolExact, BolOfText
<1>3. CASE EndOfInput
  <2>1. pos' = end' /\ end' \in Nat
    BY <1>3, EndArray
  <2> QED BY <2>1 DEF BolExact
<1>4. ASSUME NEW k \in 0 .. Cap, Match(k) PROVE BolExact'
  <2>1. /\ Unsealed' = Unsealed /\ pos' = pos + k /\ k \in Nat /\ pos \in Nat
        /\ moreOffset \in Nat /\ moreOffset <= pos
    BY <1>4, MatchArray
  <2>2. /\ atBol' = EndsLine(Unsealed, k + moreOffset, pos + k)
        /\ yyleng' = k + moreOffset /\ active' = TRUE
    BY <1>4 DEF Match
  <2>3. k + moreOffset > 0 <=> yyleng' # 0
    BY <2>1, <2>2
  <2>4. k + moreOffset > 0 => pos + k # 0
    BY <2>1
  <2>5. BolOfText'
    BY <2>1, <2>2, <2>3, <2>4 DEF BolOfText, EndsLine
  <2> QED BY <2>5 DEF BolExact
<1>5. CASE Default
  <2>1. data' = Unsealed /\ active' = FALSE
    BY <1>5 DEF Default
  <2>2. Unsealed' = Unsealed
    BY <2>1, OpenArray
  <2>3. pos' = pos + 1 /\ atBol' = (Unsealed[pos] = NL) /\ pos \in Nat
    BY <1>5 DEF Default, IInv, TypeOK, BufferType
  <2>4. pos + 1 # 0 /\ (pos + 1) - 1 = pos
    BY <2>3
  <2> QED BY <2>1, <2>2, <2>3, <2>4 DEF BolExact, BolOfText
<1>6. CASE Jam
  BY <1>6 DEF Jam, BolExact
<1>7. ASSUME NEW n \in 0 .. Cap, Yyless(n) PROVE BolExact'
  <2>1. /\ Unsealed' = Unsealed /\ pos' = yytext + n /\ n \in Nat /\ yytext \in Nat
    BY <1>7, YylessArray
  <2>2. active' = TRUE /\ yyleng' = n /\ atBol' = EndsLine(Unsealed, n, yytext + n)
    BY <1>7, YylessArray DEF Yyless, Unsealed
  <2>3. n > 0 => yytext + n # 0
    BY <2>1
  <2>4. n > 0 <=> n # 0
    BY <2>1
  <2>5. BolOfText'
    BY <2>1, <2>2, <2>3, <2>4 DEF BolOfText, EndsLine
  <2> QED BY <2>5 DEF BolExact
<1>8. ~Input /\ ~(\E c \in Byte : Unput(c)) /\ ~Reject
  BY DEF PlainUse, Input, Unput, Reject
<1> QED BY <1>1, <1>2, <1>3, <1>4, <1>5, <1>6, <1>7, <1>8 DEF Next

(* BolMatchesText: yylex() picks the start state for ^ exactly at the      *)
(* start of a line, however matches, empty heads, yyless(), yymore(),      *)
(* defaults, ends of inputs and restarts follow each other.                *)
THEOREM LineStarts == ASSUME SafeYymore, PlainUse PROVE Spec => []BolMatchesText
<1>1. Init => BolExact
  <2> SUFFICES ASSUME Init PROVE BolOfText
    BY DEF BolExact
  <2>1. atBol = TRUE /\ pos = 0 /\ active = FALSE
    BY DEF Init
  <2> QED BY <2>1 DEF BolOfText
<1>2. IInv /\ BolExact /\ [Next]_vars => BolExact'
  BY StepBol
<1>3. BolExact => BolMatchesText
  BY DEF BolExact, BolOfText, BolMatchesText
<1> QED BY <1>1, <1>2, <1>3, Invariance, PTL DEF Spec

-----------------------------------------------------------------------------
(* yymore().  If actions that use it end by falling off and none rejects,  *)
(* the offset at the top of the loop is the length of the text it keeps.   *)
(* At the end of a memory buffer it can be stale, but nothing more is      *)
(* matched there.                                                          *)
PlainMore == "yymore" \in Calls => ~FileBacked /\ Calls \cap {"unput", "return", "REJECT"} = {}

MoreExact ==
    /\ pc \in {"call", "loop"} /\ pos < end =>
           moreOffset = IF moreFlag THEN yyleng ELSE 0
    /\ pc = "eof" => pos = end \/ "yymore" \notin Calls

LEMMA StepMore ==
    ASSUME IInv, PlainMore, MoreExact, [Next]_vars
    PROVE  MoreExact'
<1>0. CASE "yymore" \notin Calls
  <2>1. SafeYymore
    BY <1>0 DEF SafeYymore
  <2>2. ~moreFlag' /\ moreOffset' = 0
    BY <1>0, <2>1, NextInv DEF IInv, MoreOffsetInBuffer
  <2> QED BY <1>0, <2>2 DEF MoreExact
<1> SUFFICES ASSUME "yymore" \in Calls PROVE MoreExact'
  BY <1>0
<1>1. ~FileBacked /\ "unput" \notin Calls /\ "return" \notin Calls /\ "REJECT" \notin Calls
      /\ "yyrestart" \notin Calls
  BY TextAssumption DEF PlainMore
<1>2. CASE Call \/ Yymore \/ Terminate \/ UNCHANGED vars
  <2>1. /\ pos' = pos /\ end' = end /\ yyleng' = yyleng /\ moreOffset' = moreOffset
        /\ (~Yymore => moreFlag' = moreFlag)
    BY <1>2 DEF Call, Yymore, Terminate, vars, bufVars, textVars, moreVars
  <2>2. pos \in Int /\ end \in Int
    BY TextAssumption DEF IInv, TypeOK, BufferType
  <2>3. CASE Call
    BY <2>1, <2>3 DEF Call, MoreExact, moreVars
  <2>4. CASE Yymore
    BY <2>1, <2>4 DEF Yymore, InAction, MoreExact
  <2>5. CASE Terminate
    <3>1. pos = end /\ pc' = "call"
      BY <2>5 DEF Terminate, MoreExact
    <3> QED BY <2>1, <2>2, <3>1 DEF MoreExact
  <2>6. CASE UNCHANGED vars
    BY <2>1, <2>6 DEF MoreExact, vars, moreVars
  <2> QED BY <1>2, <2>3, <2>4, <2>5, <2>6
<1>3. CASE EndOfInput
  BY <1>3, EndArray DEF MoreExact
<1>4. ASSUME NEW k \in 0 .. Cap, Match(k) PROVE MoreExact'
  BY <1>4 DEF Match, MoreExact
<1>5. CASE Default
  <2>1. /\ pos < end /\ pc = "loop" /\ yyleng' = yyleng
        /\ moreFlag' = moreFlag /\ moreOffset' = moreOffset /\ pc' = "loop"
    BY <1>5 DEF Default, moreVars
  <2> QED BY <2>1 DEF MoreExact
<1>6. CASE Jam
  BY <1>6 DEF Jam, MoreExact
<1>7. CASE FallOff
  BY <1>7 DEF FallOff, KeptLength, MoreExact, textVars
<1>8. ASSUME NEW n \in 0 .. Cap, Yyless(n) PROVE MoreExact'
  <2>1. pc' = pc /\ pc \in {"action", "eof"}
    BY <1>8 DEF Yyless, InAction
  <2>2. pc = "eof" => yyleng = 0
    BY <1>8 DEF IInv, MoreOffsetInBuffer, Yyless
  <2>3. pc = "eof" => pos' = end'
    BY <1>8, <2>2, YylessArray DEF MoreExact
  <2> QED BY <2>1, <2>3 DEF MoreExact
<1>9. CASE Input
  <2>1. pc' = pc /\ pc \in {"action", "eof"} /\ end' = end /\ pos' = pos + Got
    BY <1>9 DEF Input, InAction
  <2>2. pc = "eof" => pos' = end'
    BY <2>1 DEF MoreExact, Got, IInv, TypeOK, BufferType
  <2> QED BY <2>1, <2>2 DEF MoreExact
<1>10. ~(\E s \in Inputs : AutoRestart(s) \/ Yyrestart(s)) /\ ~Return
       /\ ~(\E c \in Byte : Unput(c)) /\ ~Reject
  BY <1>1 DEF AutoRestart, Yyrestart, Return, Unput, Reject
<1> QED BY <1>2, <1>3, <1>4, <1>5, <1>6, <1>7, <1>8, <1>9, <1>10 DEF Next

(* MorePrependsPrevious: the text of a match is its own bytes, with the    *)
(* previous text in front exactly if that match's action called yymore().  *)
THEOREM MorePrepends == ASSUME PlainMore PROVE Spec => MorePrependsPrevious
<1>0. SafeYymore
  BY DEF PlainMore, SafeYymore
<1>1. Init => MoreExact
  BY DEF Init, MoreExact
<1>2. IInv /\ MoreExact /\ [Next]_vars => MoreExact'
  BY StepMore
<1>3. ASSUME IInv, MoreExact, Next, pc = "loop", pc' = "action"
      PROVE  yyleng' = (pos' - pos) + IF moreFlag THEN yyleng ELSE 0
  <2>1. PICK k \in 0 .. Cap : Match(k)
    BY <1>3 DEF Next, Call, AutoRestart, Yyrestart, EndOfInput, Default, Jam, FallOff, Return,
                Terminate, Yymore, Yyless, Input, Unput, Reject, InAction
  <2>2. /\ pos' = pos + k /\ yyleng' = k + moreOffset /\ pos < end
        /\ k \in Int /\ pos \in Int /\ moreOffset \in Int
    <3>1. pos' = pos + k /\ k \in Nat /\ pos \in Nat /\ moreOffset \in Nat
      BY <1>3, <2>1, MatchArray
    <3> QED BY <2>1, <3>1 DEF Match
  <2>3. moreOffset = IF moreFlag THEN yyleng ELSE 0
    BY <1>3, <2>2 DEF MoreExact
  <2> QED BY <2>2, <2>3
<1>4. IInv /\ MoreExact /\ [Next]_vars =>
        [pc = "loop" /\ pc' = "action" =>
           yyleng' = (pos' - pos) + IF moreFlag THEN yyleng ELSE 0]_vars
  BY <1>3
<1> QED BY <1>0, <1>1, <1>2, <1>4, Invariance, PTL DEF Spec, MorePrependsPrevious

-----------------------------------------------------------------------------
(* Line numbers.                                                           *)

(* No cells hold no newline.                                               *)
LEMMA NoNewlines ==
    ASSUME NEW d, NEW i \in Int
    PROVE  Newlines(d, i, i) = 0
<1>1. {m \in i .. i - 1 : d[m] = NL} = {}
  OBVIOUS
<1> QED BY <1>1, FS_EmptySet DEF Newlines

(* LinenoTracksInput: a step that moves the cursor on counts the newlines  *)
(* that it moves over, whatever actions call; no other step counts.        *)
THEOREM LinesCounted == ASSUME SafeYymore, Yylineno PROVE Spec => LinenoTracksInput
<1> DEFINE Same == yylineno' = yylineno + IF pos' > pos THEN Newlines(Unsealed, pos, pos') ELSE 0
<1>1. ASSUME IInv, Next, opened' = opened, moreOffset = 0 PROVE Same
  <2>0. /\ pos \in Nat /\ end \in Nat /\ pos <= end /\ yylineno \in Nat /\ opened \in Nat
        /\ active => yytext \in 0 .. pos
    BY <1>1 DEF IInv, TypeOK, BufferType, TextType, TextEndsAtCursor
  <2>1. ASSUME NEW n \in Nat, pos' = pos + n,
               yylineno' = yylineno + Counted(Unsealed, pos, pos + n)
        PROVE  Same
    <3>1. yylineno' = yylineno + Newlines(Unsealed, pos, pos')
      BY <2>1 DEF Counted
    <3>2. CASE n = 0
      <4>1. pos' = pos /\ Newlines(Unsealed, pos, pos) = 0
        BY <2>0, <2>1, <3>2, NoNewlines
      <4> QED BY <2>0, <3>1, <4>1
    <3>3. CASE n > 0
      BY <2>0, <2>1, <3>1, <3>3
    <3> QED BY <2>1, <3>2, <3>3
  <2>2. ASSUME pos' \in Int, pos' <= pos, yylineno' = yylineno PROVE Same
    BY <2>0, <2>2
  <2>3. CASE Call \/ FallOff \/ Return \/ Terminate \/ Yymore \/ Jam
    <3>1. pos' = pos /\ yylineno' = yylineno
      BY <2>3 DEF Call, FallOff, Return, Terminate, Yymore, Jam, bufVars
    <3> QED BY <2>0, <2>2, <3>1
  <2>4. CASE EndOfInput
    <3>1. (pos' = pos \/ pos' = 0) /\ yylineno' = yylineno
      BY <2>4 DEF EndOfInput
    <3> QED BY <2>0, <2>2, <3>1
  <2>5. ASSUME NEW k \in 0 .. Cap, Match(k) PROVE Same
    <3>1. pos' = pos + k /\ k \in Nat
      BY <1>1, <2>5, MatchArray
    <3>2. yylineno' = yylineno + Counted(Unsealed, pos - 0, pos + k) /\ pos - 0 = pos
      BY <1>1, <2>0, <2>5 DEF Match
    <3> QED BY <2>1, <3>1, <3>2
  <2>6. CASE Default
    BY <2>1, <2>6 DEF Default
  <2>7. CASE Input
    <3>1. Got \in Nat
      BY DEF Got
    <3> QED BY <2>1, <2>7, <3>1 DEF Input
  <2>8. ASSUME NEW n \in 0 .. Cap, Yyless(n) PROVE Same
    <3>1. /\ pos' = yytext + n /\ yytext + yyleng = pos /\ n \in Nat /\ n <= yyleng
          /\ yytext \in Nat /\ yyleng \in Nat
      BY <1>1, <2>8, YylessArray
    <3>2. yylineno' = yylineno
      BY <2>8 DEF Yyless
    <3> QED BY <2>2, <3>1, <3>2
  <2>9. ASSUME NEW c \in Byte, Unput(c) PROVE Same
    <3>1. (pos' = pos \/ (pos > 0 /\ pos' = pos - 1)) /\ yylineno' = yylineno
      BY <2>9 DEF Unput
    <3> QED BY <2>0, <2>2, <3>1
  <2>10. CASE Reject
    <3>1. active /\ pos' = yytext + 0 /\ yylineno' = yylineno
      BY <1>1, <2>10 DEF Reject
    <3> QED BY <2>0, <2>2, <3>1
  <2>11. ~(\E s \in Inputs : AutoRestart(s) \/ Yyrestart(s))
    BY <1>1, <2>0 DEF AutoRestart, Yyrestart
  <2> QED BY <1>1, <2>3, <2>4, <2>5, <2>6, <2>7, <2>8, <2>9, <2>10, <2>11 DEF Next
<1>2. IInv /\ [Next]_vars => [opened' = opened /\ moreOffset = 0 => Same]_vars
  BY <1>1
<1> QED BY <1>2, Invariance, PTL DEF Spec, LinenoTracksInput
=============================================================================
