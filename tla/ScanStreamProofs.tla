-------------------------- MODULE ScanStreamProofs --------------------------
(***************************************************************************)
(* The text layer implements the input stream, for every buffer size and   *)
(* input: under the refinement mapping of ScanText every step of the       *)
(* buffer, its seal and its cursor is a step of InputStream or none.       *)
(***************************************************************************)
EXTENDS ScanTextProofs, SequenceTheorems

(* The calls under which it does.  With yymore() the buffer is in memory,  *)
(* there is no default rule (it does not forget what yymore() kept), and   *)
(* actions do not return, read or put back input.                          *)
StreamUse ==
    "yymore" \in Calls =>
        ~FileBacked /\ Nodefault /\ Calls \subseteq {"yymore", "yyless", "REJECT"}

-----------------------------------------------------------------------------
(* n cells of an array from i on, as a sequence.                           *)
Seg(d, i, n) == [j \in 1 .. n |-> d[i + j - 1]]

(* The cells hold input bytes.                                             *)
Bytes(d, i, n) == \A k \in i .. i + n - 1 : d[k] \in Byte

LEMMA SegIsSeq ==
    ASSUME NEW d, NEW i \in Int, NEW n \in Nat, Bytes(d, i, n)
    PROVE  /\ Seg(d, i, n) \in Seq(Byte) /\ Len(Seg(d, i, n)) = n
           /\ \A j \in 1 .. n : Seg(d, i, n)[j] = d[i + j - 1]
<1>1. \A j \in 1 .. n : d[i + j - 1] \in Byte
  BY DEF Bytes
<1>2. Seg(d, i, n) \in [1 .. n -> Byte]
  BY <1>1 DEF Seg
<1> QED BY <1>2 DEF Seg

LEMMA SegEmpty ==
    ASSUME NEW d, NEW i
    PROVE  Seg(d, i, 0) = <<>>
BY DEF Seg

LEMMA SegTake ==
    ASSUME NEW d, NEW i \in Int, NEW n \in Nat, NEW m \in 0 .. n, Bytes(d, i, n)
    PROVE  SubSeq(Seg(d, i, n), 1, m) = Seg(d, i, m)
<1>1. Bytes(d, i, m) /\ m \in Nat
  BY DEF Bytes
<1>2. Seg(d, i, n) \in Seq(Byte) /\ \A j \in 1 .. n : Seg(d, i, n)[j] = d[i + j - 1]
  BY SegIsSeq
<1>3. /\ Seg(d, i, m) \in Seq(Byte) /\ Len(Seg(d, i, m)) = m
      /\ \A j \in 1 .. m : Seg(d, i, m)[j] = d[i + j - 1]
  BY <1>1, SegIsSeq
<1>4. \A j \in 1 .. m : Seg(d, i, n)[j] \in Byte
  BY <1>2 DEF Bytes
<1> DEFINE t == SubSeq(Seg(d, i, n), 1, m)
<1>5. /\ t \in Seq(Byte) /\ Len(t) = (IF 1 <= m THEN m - 1 + 1 ELSE 0)
      /\ \A j \in 1 .. m - 1 + 1 : t[j] = Seg(d, i, n)[1 + j - 1]
  BY <1>1, <1>4, SubSeqProperties
<1>6. Len(t) = m /\ \A j \in 1 .. m : t[j] = Seg(d, i, m)[j]
  <2> HIDE DEF t
  <2>1. Len(t) = m
    BY <1>1, <1>5
  <2>2. ASSUME NEW j \in 1 .. m PROVE t[j] = Seg(d, i, m)[j]
    <3>1. j \in 1 .. m - 1 + 1 /\ j \in 1 .. n /\ 1 + j - 1 = j
      BY <1>1
    <3> QED BY <1>2, <1>3, <1>5, <3>1
  <2> QED BY <2>1, <2>2
<1> HIDE DEF t
<1>7. t = Seg(d, i, m)
  BY <1>3, <1>5, <1>6, SeqEqual
<1> QED BY <1>7 DEF t

LEMMA SegDrop ==
    ASSUME NEW d, NEW i \in Int, NEW n \in Nat, NEW m \in 0 .. n, Bytes(d, i, n)
    PROVE  SubSeq(Seg(d, i, n), m + 1, n) = Seg(d, i + m, n - m)
<1>1. Bytes(d, i + m, n - m) /\ n - m \in Nat /\ i + m \in Int
  BY DEF Bytes
<1>2. Seg(d, i, n) \in Seq(Byte) /\ \A j \in 1 .. n : Seg(d, i, n)[j] = d[i + j - 1]
  BY SegIsSeq
<1>3. /\ Seg(d, i + m, n - m) \in Seq(Byte) /\ Len(Seg(d, i + m, n - m)) = n - m
      /\ \A j \in 1 .. n - m : Seg(d, i + m, n - m)[j] = d[(i + m) + j - 1]
  BY <1>1, SegIsSeq
<1>4. \A j \in m + 1 .. n : Seg(d, i, n)[j] \in Byte
  BY <1>2 DEF Bytes
<1> DEFINE t == SubSeq(Seg(d, i, n), m + 1, n)
<1>5. /\ t \in Seq(Byte) /\ Len(t) = (IF m + 1 <= n THEN n - (m + 1) + 1 ELSE 0)
      /\ \A j \in 1 .. n - (m + 1) + 1 : t[j] = Seg(d, i, n)[(m + 1) + j - 1]
  BY <1>4, SubSeqProperties
<1>6. Len(t) = n - m /\ \A j \in 1 .. n - m : t[j] = Seg(d, i + m, n - m)[j]
  <2> HIDE DEF t
  <2>1. Len(t) = n - m
    BY <1>5
  <2>2. ASSUME NEW j \in 1 .. n - m PROVE t[j] = Seg(d, i + m, n - m)[j]
    <3>1. j \in 1 .. n - (m + 1) + 1 /\ m + j \in 1 .. n /\ (m + 1) + j - 1 = m + j
          /\ i + (m + j) - 1 = (i + m) + j - 1
      OBVIOUS
    <3> QED BY <1>2, <1>3, <1>5, <3>1
  <2> QED BY <2>1, <2>2
<1> HIDE DEF t
<1>7. t = Seg(d, i + m, n - m)
  BY <1>3, <1>5, <1>6, SeqEqual
<1> QED BY <1>7 DEF t

LEMMA SegConcat ==
    ASSUME NEW d, NEW i \in Int, NEW m \in Nat, NEW n \in Nat, Bytes(d, i, m + n)
    PROVE  Seg(d, i, m) \o Seg(d, i + m, n) = Seg(d, i, m + n)
<1>1. Bytes(d, i, m) /\ Bytes(d, i + m, n) /\ m + n \in Nat /\ i + m \in Int
  BY DEF Bytes
<1> DEFINE a == Seg(d, i, m)  b == Seg(d, i + m, n)  c == Seg(d, i, m + n)
<1>2. a \in Seq(Byte) /\ Len(a) = m /\ \A j \in 1 .. m : a[j] = d[i + j - 1]
  BY <1>1, SegIsSeq
<1>3. b \in Seq(Byte) /\ Len(b) = n /\ \A j \in 1 .. n : b[j] = d[(i + m) + j - 1]
  BY <1>1, SegIsSeq
<1>4. c \in Seq(Byte) /\ Len(c) = m + n /\ \A j \in 1 .. m + n : c[j] = d[i + j - 1]
  BY <1>1, SegIsSeq
<1> HIDE DEF a, b, c
<1>5. /\ a \o b \in Seq(Byte) /\ Len(a \o b) = m + n
      /\ \A j \in 1 .. m + n : (a \o b)[j] = IF j <= m THEN a[j] ELSE b[j - m]
  BY <1>2, <1>3, ConcatProperties
<1>6. ASSUME NEW j \in 1 .. m + n PROVE (a \o b)[j] = c[j]
  <2>1. CASE j <= m
    <3>1. j \in 1 .. m
      BY <2>1
    <3> QED BY <1>2, <1>4, <1>5, <2>1, <3>1
  <2>2. CASE ~(j <= m)
    <3>1. j - m \in 1 .. n /\ (i + m) + (j - m) - 1 = i + j - 1
      BY <2>2
    <3> QED BY <1>3, <1>4, <1>5, <2>2, <3>1
  <2> QED BY <2>1, <2>2
<1>7. a \o b = c
  BY <1>4, <1>5, <1>6, SeqEqual
<1> QED BY <1>7 DEF a, b, c

LEMMA SegTail ==
    ASSUME NEW d, NEW i \in Int, NEW n \in Nat, n > 0, Bytes(d, i, n)
    PROVE  Seg(d, i, n) # <<>> /\ Tail(Seg(d, i, n)) = Seg(d, i + 1, n - 1)
<1>1. Seg(d, i, n) \in Seq(Byte) /\ Len(Seg(d, i, n)) = n
  BY SegIsSeq
<1>2. Seg(d, i, n) # <<>>
  BY <1>1
<1>3. Tail(Seg(d, i, n)) = SubSeq(Seg(d, i, n), 2, n)
  BY <1>1, <1>2, TailIsSubSeq
<1>4. SubSeq(Seg(d, i, n), 1 + 1, n) = Seg(d, i + 1, n - 1)
  BY SegDrop
<1> QED BY <1>2, <1>3, <1>4

LEMMA SegOne ==
    ASSUME NEW d, NEW i \in Int
    PROVE  Seg(d, i, 1) = <<d[i]>>
<1>1. Seg(d, i, 1) = [j \in 1 .. 1 |-> d[i]]
  BY DEF Seg
<1> QED BY <1>1

-----------------------------------------------------------------------------
(* The refinement mapping in terms of segments, before and after a step.   *)
KeptSeg(p, a, d, t, c, o) ==
    IF p = "action" THEN IF a THEN Seg(d, t, o) ELSE <<>> ELSE Seg(d, c - o, o)

LEMMA Mapping ==
    /\ Unread = Seg(Unsealed, pos, end - pos)
    /\ active => Text = Seg(Unsealed, yytext, yyleng)
    /\ ~active => Text = NoText
    /\ Kept = KeptSeg(pc, active, Unsealed, yytext, pos, moreOffset)
BY DEF Unread, Text, Kept, KeptSeg, Segment, Seg

LEMMA MappingAfter ==
    /\ Unread' = Seg(Unsealed', pos', end' - pos')
    /\ active' => Text' = Seg(Unsealed', yytext', yyleng')
    /\ ~active' => Text' = NoText
    /\ Kept' = KeptSeg(pc', active', Unsealed', yytext', pos', moreOffset')
BY DEF Unread, Text, Kept, KeptSeg, Segment, Seg

(* What is known of a state: the numbers are in range and the three        *)
(* segments hold input bytes.                                              *)
LEMMA InRange ==
    ASSUME IInv
    PROVE  /\ pos \in Nat /\ end \in Nat /\ pos <= end /\ end - pos \in Nat
           /\ end <= Cap /\ Cap \in Nat /\ moreOffset \in Nat /\ yyleng \in Nat
           /\ Bytes(Unsealed, pos, end - pos)
           /\ active => /\ yytext \in Nat /\ yytext + yyleng = pos
                        /\ Bytes(Unsealed, yytext, yyleng)
           /\ pc # "action" => moreOffset <= pos /\ Bytes(Unsealed, pos - moreOffset, moreOffset)
           /\ pc = "action" /\ active => /\ yytext + moreOffset <= end
                                         /\ Bytes(Unsealed, yytext, moreOffset)
<1>1. /\ pos \in Nat /\ end \in Nat /\ pos <= end /\ end - pos \in Nat
      /\ end <= Cap /\ Cap \in Nat /\ moreOffset \in Nat /\ yyleng \in Nat
  BY TextAssumption DEF IInv, TypeOK, BufferType, TextType
<1>2. \A i \in 0 .. end - 1 : Unsealed[i] \in Byte
  BY DEF IInv, NoStrayNul
<1>3. active => yytext \in Nat /\ yytext + yyleng = pos
  BY <1>1 DEF IInv, TextEndsAtCursor
<1>4. /\ pc # "action" => moreOffset <= pos
      /\ pc = "action" /\ active => yytext + moreOffset <= end
  BY DEF IInv, MoreOffsetInBuffer
<1>5. Bytes(Unsealed, pos, end - pos)
  BY <1>1, <1>2 DEF Bytes
<1>6. active => Bytes(Unsealed, yytext, yyleng)
  BY <1>1, <1>2, <1>3 DEF Bytes
<1>7. pc # "action" => Bytes(Unsealed, pos - moreOffset, moreOffset)
  BY <1>1, <1>2, <1>4 DEF Bytes
<1>8. pc = "action" /\ active => Bytes(Unsealed, yytext, moreOffset)
  BY <1>1, <1>2, <1>3, <1>4 DEF Bytes
<1> QED BY <1>1, <1>3, <1>4, <1>5, <1>6, <1>7, <1>8

(* A valid text is a sequence, so it is not the sentinel for none.         *)
LEMMA TextIsText ==
    ASSUME IInv, active
    PROVE  Text = Seg(Unsealed, yytext, yyleng) /\ Text # NoText /\ Len(Text) = yyleng
<1>1. Text = Seg(Unsealed, yytext, yyleng)
  BY Mapping
<1>2. yytext \in Int /\ yyleng \in Nat /\ Bytes(Unsealed, yytext, yyleng)
  BY InRange
<1>3. Seg(Unsealed, yytext, yyleng) \in Seq(Byte) /\ Len(Seg(Unsealed, yytext, yyleng)) = yyleng
  BY <1>2, SegIsSeq
<1> QED BY <1>1, <1>3, TextAssumption

(* Where yymore() is not used, nothing is ever kept.                       *)
LEMMA NothingKept ==
    ASSUME moreOffset = 0
    PROVE  Kept = <<>>
BY Mapping, SegEmpty DEF KeptSeg

LEMMA NothingKeptAfter ==
    ASSUME moreOffset' = 0 \/ (pc' = "action" /\ active' = FALSE)
    PROVE  Kept' = <<>>
BY MappingAfter, SegEmpty DEF KeptSeg

-----------------------------------------------------------------------------
(* The loop.                                                               *)

(* A new input, whoever opened it.                                         *)
LEMMA ReopenedStream ==
    ASSUME NEW s \in Inputs, Reopened(s)
    PROVE  Unread' \in Seq(Byte) /\ Text' = NoText /\ moreFlag' = moreFlag
           /\ moreOffset' = moreOffset
<1>1. /\ data' = Filled(s) /\ end' = Len(s) /\ pos' = 0 /\ active' = FALSE
      /\ moreFlag' = moreFlag /\ moreOffset' = moreOffset
  BY DEF Reopened, moreVars
<1>2. Unsealed' = Filled(s)
  BY <1>1 DEF Unsealed
<1>3. Len(s) \in Nat /\ \A i \in 0 .. Len(s) - 1 : Filled(s)[i] \in Byte
  BY FilledArray
<1>4. Bytes(Filled(s), 0, Len(s)) /\ Len(s) - 0 = Len(s)
  BY <1>3 DEF Bytes
<1>5. Unread' = Seg(Filled(s), 0, Len(s))
  BY <1>1, <1>2, <1>4, MappingAfter
<1> QED BY <1>1, <1>3, <1>4, <1>5, SegIsSeq, MappingAfter

LEMMA AutoRestartStream ==
    ASSUME IInv, StreamUse, NEW s \in Inputs, AutoRestart(s)
    PROVE  Stream!Supply
<1>1. pos = end /\ end - pos = 0 /\ opened' = opened + 1 /\ Reopened(s) /\ FileBacked
  BY InRange DEF AutoRestart
<1>2. Unread = <<>>
  BY <1>1, Mapping, SegEmpty
<1>3. moreOffset = 0
  BY <1>1 DEF StreamUse, IInv, MoreOffsetInBuffer
<1>4. Unread' \in Seq(Byte) /\ Text' = NoText /\ moreFlag' = moreFlag /\ moreOffset' = 0
  BY <1>1, <1>3, ReopenedStream
<1>5. Kept = <<>> /\ Kept' = <<>>
  BY <1>3, <1>4, NothingKept, NothingKeptAfter
<1> QED BY <1>1, <1>2, <1>4, <1>5 DEF Stream!Supply

LEMMA YyrestartStream ==
    ASSUME IInv, StreamUse, NEW s \in Inputs, Yyrestart(s)
    PROVE  Stream!Restart
<1>1. opened' = opened + 1 /\ Reopened(s) /\ FileBacked
  BY TextAssumption DEF Yyrestart
<1>2. moreOffset = 0
  BY <1>1 DEF StreamUse, IInv, MoreOffsetInBuffer
<1>3. Unread' \in Seq(Byte) /\ Text' = NoText /\ moreFlag' = moreFlag /\ moreOffset' = 0
  BY <1>1, <1>2, ReopenedStream
<1>4. Kept' = <<>>
  BY <1>3, NothingKeptAfter
<1> QED BY <1>1, <1>3, <1>4 DEF Stream!Restart

LEMMA EndOfInputStream ==
    ASSUME IInv, StreamUse, EndOfInput
    PROVE  Stream!EndOfInput
<1>1. /\ pos = end /\ end \in Nat /\ pos' = end' /\ yytext' = pos' /\ yyleng' = 0
      /\ active' /\ pc' = "eof" /\ (FileBacked => end' = 0)
      /\ ~FileBacked => end' = end /\ \A i \in 0 .. end - 1 : Unsealed'[i] = Unsealed[i]
  BY EndArray
<1>2. pc = "loop" /\ moreFlag' = moreFlag /\ moreOffset' = moreOffset /\ opened' = opened
  BY DEF EndOfInput, moreVars
<1>3. end - pos = 0 /\ end' - pos' = 0
  BY <1>1
<1>4. Unread = <<>> /\ Unread' = <<>>
  BY <1>3, Mapping, MappingAfter, SegEmpty
<1>5. Text' = <<>>
  BY <1>1, MappingAfter, SegEmpty
<1>6. Kept' = Kept
  <2>1. CASE FileBacked
    <3>1. moreOffset = 0
      BY <2>1 DEF StreamUse, IInv, MoreOffsetInBuffer
    <3> QED BY <1>2, <3>1, NothingKept, NothingKeptAfter
  <2>2. CASE ~FileBacked
    <3>1. /\ Kept = Seg(Unsealed, pos - moreOffset, moreOffset)
          /\ Kept' = Seg(Unsealed', pos - moreOffset, moreOffset)
      BY <1>1, <1>2, <2>2, Mapping, MappingAfter DEF KeptSeg
    <3>2. moreOffset \in Nat /\ moreOffset <= pos /\ pos - moreOffset \in Int
      BY <1>2, InRange
    <3>3. \A j \in 1 .. moreOffset : (pos - moreOffset) + j - 1 \in 0 .. end - 1
      BY <1>1, <3>2
    <3>4. \A j \in 1 .. moreOffset :
             Unsealed[(pos - moreOffset) + j - 1] = Unsealed'[(pos - moreOffset) + j - 1]
      BY <1>1, <2>2, <3>3
    <3>5. Seg(Unsealed, pos - moreOffset, moreOffset) = Seg(Unsealed', pos - moreOffset, moreOffset)
      BY <3>2, <3>4 DEF Seg
    <3> QED BY <3>1, <3>5
  <2> QED BY <2>1, <2>2
<1> QED BY <1>2, <1>4, <1>5, <1>6 DEF Stream!EndOfInput

LEMMA MatchStream ==
    ASSUME IInv, NEW k \in 0 .. Cap, Match(k)
    PROVE  k \in 0 .. Len(Unread) /\ Stream!Match(k)
<1>1. /\ Unsealed' = Unsealed /\ end' = end /\ pos' = pos + k
      /\ k \in Nat /\ k <= end - pos
      /\ pos \in Nat /\ end \in Nat /\ moreOffset \in Nat /\ moreOffset <= pos
  BY MatchArray
<1>2. /\ pc = "loop" /\ pc' = "action" /\ active' = TRUE /\ moreFlag' = FALSE
      /\ moreOffset' = moreOffset /\ opened' = opened
      /\ yytext' = pos - moreOffset /\ yyleng' = k + moreOffset
  BY DEF Match
<1> DEFINE U == Unsealed  f == pos - moreOffset  r == end - pos
<1>3. /\ f \in Int /\ r \in Nat /\ k \in 0 .. r /\ f + moreOffset = pos
      /\ end - (pos + k) = r - k /\ k + moreOffset = moreOffset + k
  BY <1>1
<1>4. Bytes(U, pos, r) /\ Bytes(U, f, moreOffset)
  BY <1>2, InRange
<1>5. Bytes(U, f, moreOffset + k)
  BY <1>1, <1>4 DEF Bytes
<1>6. /\ Unread = Seg(U, pos, r) /\ Kept = Seg(U, f, moreOffset)
      /\ Unread' = Seg(U, pos + k, r - k) /\ Text' = Seg(U, f, moreOffset + k)
      /\ Kept' = Seg(U, f, moreOffset)
  BY <1>1, <1>2, <1>3, Mapping, MappingAfter DEF KeptSeg
<1> HIDE DEF U, f, r
<1>7. Len(Unread) = r
  BY <1>1, <1>3, <1>4, <1>6, SegIsSeq
<1>8. /\ SubSeq(Seg(U, pos, r), 1, k) = Seg(U, pos, k)
      /\ SubSeq(Seg(U, pos, r), k + 1, r) = Seg(U, pos + k, r - k)
  BY <1>1, <1>3, <1>4, SegTake, SegDrop
<1>9. Seg(U, f, moreOffset) \o Seg(U, f + moreOffset, k) = Seg(U, f, moreOffset + k)
  BY <1>1, <1>3, <1>5, SegConcat
<1>10. Text' = Kept \o SubSeq(Unread, 1, k)
  BY <1>3, <1>6, <1>8, <1>9
<1>11. Unread' = SubSeq(Unread, k + 1, Len(Unread))
  BY <1>6, <1>7, <1>8
<1> QED
  BY <1>2, <1>3, <1>6, <1>7, <1>10, <1>11 DEF Stream!Match, Stream!Take, Stream!Drop

(* One byte leaves the unread input, by the default rule or by input().    *)
LEMMA ByteTaken ==
    ASSUME IInv, pos < end, Unsealed' = Unsealed, end' = end, pos' = pos + 1
    PROVE  Unread # <<>> /\ Unread' = Tail(Unread)
<1>1. /\ pos \in Nat /\ end - pos \in Nat /\ end - pos > 0 /\ end \in Nat
      /\ end - (pos + 1) = (end - pos) - 1 /\ Bytes(Unsealed, pos, end - pos)
  BY InRange
<1>2. Unread = Seg(Unsealed, pos, end - pos) /\ Unread' = Seg(Unsealed, pos + 1, (end - pos) - 1)
  BY <1>1, Mapping, MappingAfter
<1> QED BY <1>1, <1>2, SegTail

LEMMA DefaultStream ==
    ASSUME IInv, StreamUse, Default
    PROVE  Stream!Default
<1>1. data' = Unsealed /\ active' = FALSE /\ pos < end /\ end' = end /\ pos' = pos + 1
      /\ moreFlag' = moreFlag /\ moreOffset' = moreOffset /\ opened' = opened /\ ~Nodefault
  BY DEF Default, moreVars
<1>2. moreOffset = 0
  BY <1>1 DEF StreamUse, IInv, MoreOffsetInBuffer
<1>3. Unread # <<>> /\ Unread' = Tail(Unread)
  BY <1>1, OpenArray, ByteTaken
<1>4. Text' = NoText /\ Kept' = <<>>
  BY <1>1, <1>2, MappingAfter, NothingKeptAfter
<1> QED BY <1>1, <1>3, <1>4 DEF Stream!Default

(* Steps that leave the unread bytes alone.                                *)
LEMMA UnreadSame ==
    ASSUME Unsealed' = Unsealed, pos' = pos, end' = end
    PROVE  Unread' = Unread
BY Mapping, MappingAfter

LEMMA JamStream ==
    ASSUME IInv, Jam
    PROVE  Stream!Jam
<1>1. data' = Unsealed /\ active' = FALSE /\ pos < end /\ end' = end /\ pos' = pos
      /\ moreFlag' = moreFlag /\ moreOffset' = moreOffset /\ opened' = opened
      /\ pc = "loop" /\ pc' = "jam"
  BY DEF Jam, moreVars
<1>2. Unsealed' = Unsealed
  BY <1>1, OpenArray
<1>3. Unread' = Unread /\ Text' = NoText /\ Kept' = Kept
  BY <1>1, <1>2, UnreadSame, Mapping, MappingAfter DEF KeptSeg
<1>4. Unread # <<>>
  BY <1>1, InRange, Mapping, SegTail
<1> QED BY <1>1, <1>3, <1>4 DEF Stream!Jam

(* What yymore() keeps becomes known when the action falls off its end.    *)
LEMMA FallOffStream ==
    ASSUME IInv, FallOff
    PROVE  Stream!ActionEnd
<1>1. /\ UNCHANGED <<bufVars, textVars>> /\ pc = "action" /\ pc' = "loop"
      /\ moreOffset' = KeptLength /\ moreFlag' = moreFlag /\ opened' = opened
  BY DEF FallOff
<1>2. /\ Unsealed' = Unsealed /\ pos' = pos /\ end' = end
      /\ yytext' = yytext /\ yyleng' = yyleng /\ active' = active
  BY <1>1, SameArray
<1>3. Unread' = Unread /\ Text' = Text
  BY <1>2, UnreadSame, Mapping, MappingAfter
<1>4. Kept' = Seg(Unsealed, pos - moreOffset', moreOffset')
  BY <1>1, <1>2, MappingAfter DEF KeptSeg
<1>5. CASE moreFlag /\ active
  <2>1. /\ yytext \in Nat /\ yyleng \in Nat /\ pos \in Nat /\ yytext + yyleng = pos
    BY <1>5, InRange
  <2>2. moreOffset' = yyleng /\ pos - yyleng = yytext
    BY <1>1, <1>5, <2>1 DEF KeptLength
  <2>3. Kept' = Text /\ Text # NoText
    BY <1>4, <1>5, <2>2, TextIsText
  <2> QED BY <1>1, <1>3, <1>5, <2>3 DEF Stream!ActionEnd
<1>6. CASE ~(moreFlag /\ active)
  <2>1. moreOffset' = 0
    BY <1>1, <1>6 DEF KeptLength, IInv, MoreOffsetInBuffer
  <2>2. Kept' = <<>>
    BY <2>1, NothingKeptAfter
  <2>3. ~active => Text = NoText
    BY Mapping
  <2> QED BY <1>1, <1>3, <1>6, <2>2, <2>3 DEF Stream!ActionEnd
<1> QED BY <1>5, <1>6

(* Coming and going: calls, returns, and steps of nothing.                 *)
LEMMA StutterStream ==
    ASSUME IInv, StreamUse, Call \/ Return \/ Terminate \/ UNCHANGED vars
    PROVE  UNCHANGED Stream!vars
<1>1. /\ UNCHANGED <<bufVars, textVars>> /\ moreFlag' = moreFlag
      /\ moreOffset' = moreOffset /\ opened' = opened
  BY DEF Call, Return, Terminate, vars, moreVars
<1>2. /\ Unsealed' = Unsealed /\ pos' = pos /\ end' = end
      /\ yytext' = yytext /\ yyleng' = yyleng /\ active' = active
  BY <1>1, SameArray
<1>3. Unread' = Unread /\ Text' = Text
  BY <1>2, UnreadSame, Mapping, MappingAfter
<1>4. Kept' = Kept
  <2>1. CASE Return
    <3>1. moreOffset = 0
      BY <2>1 DEF Return, StreamUse, IInv, MoreOffsetInBuffer
    <3> QED BY <1>1, <3>1, NothingKept, NothingKeptAfter
  <2>2. CASE Call \/ Terminate
    <3>1. pc # "action" /\ pc' # "action"
      BY <2>2 DEF Call, Terminate
    <3> QED BY <1>1, <1>2, <3>1, Mapping, MappingAfter DEF KeptSeg
  <2>3. CASE UNCHANGED vars
    <3>1. pc' = pc
      BY <2>3 DEF vars
    <3> QED BY <1>1, <1>2, <3>1, Mapping, MappingAfter DEF KeptSeg
  <2> QED BY <2>1, <2>2, <2>3
<1> QED BY <1>1, <1>3, <1>4 DEF Stream!vars

-----------------------------------------------------------------------------
(* What actions call.                                                      *)

LEMMA YymoreStream ==
    ASSUME Yymore
    PROVE  Stream!YyMore
<1>1. /\ UNCHANGED <<bufVars, textVars>> /\ moreFlag' = TRUE
      /\ moreOffset' = moreOffset /\ opened' = opened /\ pc' = pc
  BY DEF Yymore
<1>2. /\ Unsealed' = Unsealed /\ pos' = pos /\ end' = end
      /\ yytext' = yytext /\ yyleng' = yyleng /\ active' = active
  BY <1>1, SameArray
<1>3. Unread' = Unread /\ Text' = Text /\ Kept' = Kept
  BY <1>1, <1>2, UnreadSame, Mapping, MappingAfter DEF KeptSeg
<1> QED BY <1>1, <1>3 DEF Stream!YyMore

(* yyless(n) splits the text where it moves the seal.                      *)
LEMMA YylessStream ==
    ASSUME IInv, NEW n \in 0 .. Cap, Yyless(n)
    PROVE  Text # NoText /\ n \in 0 .. Len(Text) /\ Stream!YyLess(n)
<1>1. /\ Unsealed' = Unsealed /\ end' = end /\ pos' = yytext + n
      /\ n \in Nat /\ n <= yyleng /\ yytext \in Nat /\ yyleng \in Nat
      /\ yytext + yyleng = pos /\ pos <= end /\ end \in Nat /\ active
  BY YylessArray
<1>2. /\ pc' = pc /\ active' = active /\ yytext' = yytext /\ yyleng' = n
      /\ moreFlag' = moreFlag /\ moreOffset' = moreOffset /\ opened' = opened /\ InAction
  BY DEF Yyless, moreVars
<1> DEFINE U == Unsealed  r == end - pos
<1>3. /\ n \in 0 .. yyleng /\ r \in Nat /\ yyleng - n \in Nat /\ yytext + n \in Int
      /\ (yytext + n) + (yyleng - n) = pos /\ (yyleng - n) + r = end - (yytext + n)
  BY <1>1
<1>4. Bytes(U, yytext, yyleng) /\ Bytes(U, pos, r)
  BY <1>1, InRange
<1>5. Bytes(U, yytext + n, (yyleng - n) + r)
  BY <1>1, <1>4 DEF Bytes
<1>6. /\ Text = Seg(U, yytext, yyleng) /\ Text # NoText /\ Len(Text) = yyleng
  BY <1>1, TextIsText
<1>7. /\ Unread = Seg(U, pos, r) /\ Unread' = Seg(U, yytext + n, (yyleng - n) + r)
      /\ Text' = Seg(U, yytext, n)
  BY <1>1, <1>2, <1>3, Mapping, MappingAfter
<1> HIDE DEF U, r
<1>8. /\ SubSeq(Seg(U, yytext, yyleng), 1, n) = Seg(U, yytext, n)
      /\ SubSeq(Seg(U, yytext, yyleng), n + 1, yyleng) = Seg(U, yytext + n, yyleng - n)
  BY <1>1, <1>3, <1>4, SegTake, SegDrop
<1>9. Seg(U, yytext + n, yyleng - n) \o Seg(U, (yytext + n) + (yyleng - n), r)
        = Seg(U, yytext + n, (yyleng - n) + r)
  BY <1>3, <1>5, SegConcat
<1>10. Text' = Stream!Take(Text, n) /\ Unread' = Stream!Drop(Text, n) \o Unread
  BY <1>3, <1>6, <1>7, <1>8, <1>9 DEF Stream!Take, Stream!Drop
<1>11. Kept' = Kept
  <2>1. CASE pc = "action"
    BY <1>1, <1>2, <2>1, Mapping, MappingAfter DEF KeptSeg
  <2>2. CASE pc # "action"
    <3>1. yyleng = 0
      BY <1>1, <1>2, <2>2 DEF InAction, IInv, MoreOffsetInBuffer
    <3>2. pos' = pos
      BY <1>1, <3>1
    <3> QED BY <1>1, <1>2, <2>2, <3>2, Mapping, MappingAfter DEF KeptSeg
  <2> QED BY <2>1, <2>2
<1> QED BY <1>2, <1>3, <1>6, <1>10, <1>11 DEF Stream!YyLess

LEMMA InputStreamStep ==
    ASSUME IInv, StreamUse, Input
    PROVE  Stream!Input
<1>1. /\ data' = Unsealed /\ active' = FALSE /\ pos' = pos + Got /\ end' = end
      /\ moreFlag' = moreFlag /\ moreOffset' = moreOffset /\ opened' = opened
      /\ pc' = pc /\ InAction /\ "input" \in Calls
  BY DEF Input, moreVars
<1>2. Unsealed' = Unsealed
  BY <1>1, OpenArray
<1>3. moreOffset = 0
  BY <1>1 DEF StreamUse, IInv, MoreOffsetInBuffer
<1>4. Text' = NoText /\ Kept' = <<>>
  BY <1>1, <1>3, MappingAfter, NothingKeptAfter
<1>5. pos \in Nat /\ end \in Nat /\ pos <= end
  BY InRange
<1>6. CASE pos < end
  <2>1. pos' = pos + 1
    BY <1>1, <1>6 DEF Got
  <2>2. Unread # <<>> /\ Unread' = Tail(Unread)
    BY <1>1, <1>2, <1>6, <2>1, ByteTaken
  <2> QED BY <1>1, <1>4, <2>2 DEF Stream!Input
<1>7. CASE ~(pos < end)
  <2>1. pos' = pos /\ end - pos = 0
    BY <1>1, <1>5, <1>7 DEF Got
  <2>2. Unread = <<>> /\ Unread' = Unread
    BY <1>1, <1>2, <2>1, UnreadSame, Mapping, SegEmpty
  <2> QED BY <1>1, <1>4, <2>2 DEF Stream!Input
<1> QED BY <1>6, <1>7

(* REJECT puts back the match and leaves what yymore() kept before it.     *)
LEMMA RejectStream ==
    ASSUME IInv, Reject
    PROVE  Stream!Reject
<1>1. /\ data' = Unsealed /\ active' = FALSE /\ active /\ pos' = yytext + moreOffset
      /\ end' = end /\ moreFlag' = moreFlag /\ moreOffset' = moreOffset
      /\ opened' = opened /\ pc = "action" /\ pc' = "loop"
  BY DEF Reject, moreVars
<1>2. Unsealed' = Unsealed
  BY <1>1, OpenArray
<1> DEFINE U == Unsealed  r == end - pos  n == end - yytext
<1>3. /\ yytext \in Nat /\ yyleng \in Nat /\ moreOffset \in Nat /\ pos \in Nat /\ end \in Nat
      /\ yytext + yyleng = pos /\ pos <= end /\ yytext + moreOffset <= end
      /\ Bytes(U, yytext, yyleng) /\ Bytes(U, pos, r) /\ Bytes(U, yytext, moreOffset)
  BY <1>1, InRange
<1>4. /\ r \in Nat /\ n \in Nat /\ yyleng + r = n /\ moreOffset \in 0 .. n
      /\ end - (yytext + moreOffset) = n - moreOffset
      /\ (yytext + moreOffset) - moreOffset = yytext
  BY <1>3
<1>5. Bytes(U, yytext, n)
  BY <1>3 DEF Bytes
<1>6. /\ Text = Seg(U, yytext, yyleng) /\ Text # NoText
  BY <1>1, TextIsText
<1>7. /\ Unread = Seg(U, pos, r) /\ Unread' = Seg(U, yytext + moreOffset, n - moreOffset)
      /\ Text' = NoText /\ Kept = Seg(U, yytext, moreOffset) /\ Kept' = Seg(U, yytext, moreOffset)
  BY <1>1, <1>2, <1>4, Mapping, MappingAfter DEF KeptSeg
<1> HIDE DEF U, r, n
<1>8. Seg(U, yytext, yyleng) \o Seg(U, yytext + yyleng, r) = Seg(U, yytext, yyleng + r)
  <2>1. Bytes(U, yytext, yyleng + r) /\ yytext \in Int
    BY <1>3, <1>4, <1>5
  <2> QED BY <1>3, <1>4, <2>1, SegConcat
<1>9. Text \o Unread = Seg(U, yytext, n)
  BY <1>3, <1>4, <1>6, <1>7, <1>8
<1>10. Len(Kept) = moreOffset /\ Len(Text \o Unread) = n
  <2>1. Len(Seg(U, yytext, moreOffset)) = moreOffset
    <3>1. yytext \in Int /\ moreOffset \in Nat /\ Bytes(U, yytext, moreOffset)
      BY <1>3
    <3> QED BY <3>1, SegIsSeq
  <2>2. Len(Seg(U, yytext, n)) = n
    <3>1. yytext \in Int /\ n \in Nat
      BY <1>3, <1>4
    <3> QED BY <1>5, <3>1, SegIsSeq
  <2> QED BY <1>7, <1>9, <2>1, <2>2
<1>11. SubSeq(Seg(U, yytext, n), moreOffset + 1, n) = Seg(U, yytext + moreOffset, n - moreOffset)
  BY <1>3, <1>4, <1>5, SegDrop
<1> QED BY <1>1, <1>6, <1>7, <1>9, <1>10, <1>11 DEF Stream!Reject, Stream!Drop

(* unput(c): both ways of making room put c before the same bytes.         *)
LEMMA UnputStream ==
    ASSUME IInv, StreamUse, NEW c \in Byte, Unput(c)
    PROVE  Stream!Unput(c)
<1>1. /\ active' = FALSE /\ moreFlag' = moreFlag /\ moreOffset' = moreOffset
      /\ opened' = opened /\ "unput" \in Calls
  BY DEF Unput, moreVars
<1>2. moreOffset = 0
  BY <1>1 DEF StreamUse, IInv, MoreOffsetInBuffer
<1>3. Text' = NoText /\ Kept' = <<>>
  BY <1>1, <1>2, MappingAfter, NothingKeptAfter
<1>4. Unsealed' = data'
  BY <1>1 DEF Unsealed
<1> DEFINE U == Unsealed  r == end - pos
<1>5. /\ pos \in Nat /\ end \in Nat /\ pos <= end /\ end <= Cap /\ Cap \in Nat /\ r \in Nat
      /\ Bytes(U, pos, r)
  BY InRange
<1>6. U \in [Cell -> Byte \cup {NUL}]
  BY UnsealedArray
<1>7. \A j \in 1 .. r : pos + j - 1 \in Cell
  BY <1>5 DEF Cell
<1>8. Unread = Seg(U, pos, r)
  BY Mapping
<1>9. ASSUME NEW d, NEW p \in Nat, d[p] = c, r + 1 \in Nat,
             \A j \in 1 .. r : d[(p + 1) + j - 1] = U[pos + j - 1]
      PROVE  Seg(d, p, r + 1) = <<c>> \o Unread
  <2> HIDE DEF U, r
  <2>1. Seg(d, p + 1, r) = Seg(U, pos, r)
    BY <1>9 DEF Seg
  <2>2. Bytes(d, p, 1 + r) /\ p + 1 \in Int /\ 1 + r = r + 1
    <3>1. ASSUME NEW k \in p .. p + (1 + r) - 1 PROVE d[k] \in Byte
      <4>1. CASE k = p
        BY <1>9, <4>1
      <4>2. CASE k # p
        <5>1. /\ k - p \in 1 .. r /\ (p + 1) + (k - p) - 1 = k
              /\ pos + (k - p) - 1 \in pos .. pos + r - 1
          BY <1>5, <4>2
        <5>2. U[pos + (k - p) - 1] \in Byte
          BY <1>5, <5>1 DEF Bytes
        <5> QED BY <1>9, <5>1, <5>2
      <4> QED BY <4>1, <4>2
    <3> QED BY <1>5, <3>1 DEF Bytes
  <2>3. Seg(d, p, 1) \o Seg(d, p + 1, r) = Seg(d, p, 1 + r)
    BY <1>5, <2>2, SegConcat
  <2>4. Seg(d, p, 1) = <<c>>
    BY <1>9, SegOne
  <2> QED BY <1>8, <2>1, <2>2, <2>3, <2>4
<1>10. Unread' = <<c>> \o Unread
  <2>1. CASE pos > 0
    <3>1. data' = [U EXCEPT ![pos - 1] = c] /\ pos' = pos - 1 /\ end' = end
      BY <2>1 DEF Unput
    <3>2. pos - 1 \in Nat /\ pos - 1 \in Cell /\ r + 1 \in Nat /\ end - (pos - 1) = r + 1
      BY <1>5, <2>1 DEF Cell
    <3>3. data'[pos - 1] = c
      BY <1>6, <3>1, <3>2
    <3>4. ASSUME NEW j \in 1 .. r PROVE data'[((pos - 1) + 1) + j - 1] = U[pos + j - 1]
      <4>1. ((pos - 1) + 1) + j - 1 = pos + j - 1 /\ pos + j - 1 # pos - 1
        BY <1>5
      <4> QED BY <1>6, <1>7, <3>1, <4>1
    <3>5. Unread' = Seg(data', pos - 1, r + 1)
      BY <1>4, <3>1, <3>2, MappingAfter
    <3> QED BY <1>9, <3>2, <3>3, <3>4, <3>5
  <2>2. CASE ~(pos > 0)
    <3>1. data' = [ShiftedUp(U) EXCEPT ![0] = c] /\ pos' = pos /\ end' = end + 1 /\ end < Cap
          /\ pos = 0
      BY <1>5, <2>2 DEF Unput
    <3>2. 0 \in Cell /\ r + 1 \in Nat /\ (end + 1) - 0 = r + 1 /\ r = end /\ 0 \in Nat
      BY <1>5, <3>1 DEF Cell
    <3>3. data'[0] = c
      BY <3>1, <3>2 DEF ShiftedUp
    <3>4. ASSUME NEW j \in 1 .. r PROVE data'[(0 + 1) + j - 1] = U[pos + j - 1]
      <4>1. /\ (0 + 1) + j - 1 = j /\ pos + j - 1 = j - 1 /\ j \in Cell /\ j # 0
            /\ j \in 1 .. end
        BY <1>5, <3>1, <3>2 DEF Cell
      <4>2. ShiftedUp(U)[j] = U[j - 1] /\ ShiftedUp(U) = [i \in Cell |-> ShiftedUp(U)[i]]
        BY <4>1 DEF ShiftedUp
      <4>3. data'[j] = ShiftedUp(U)[j]
        BY <3>1, <4>1, <4>2
      <4> QED BY <4>1, <4>2, <4>3
    <3>5. Unread' = Seg(data', 0, r + 1)
      BY <1>4, <3>1, <3>2, MappingAfter
    <3> QED BY <1>9, <3>2, <3>3, <3>4, <3>5
  <2> QED BY <2>1, <2>2
<1> QED BY <1>1, <1>3, <1>10 DEF Stream!Unput

-----------------------------------------------------------------------------
(* The first buffer holds some input, and nothing has been matched.        *)
LEMMA InitStream == Init => Stream!Init
<1> SUFFICES ASSUME Init PROVE Stream!Init
  OBVIOUS
<1>1. IInv
  BY InitInv
<1>2. active = FALSE /\ moreFlag = FALSE /\ moreOffset = 0 /\ opened = 1
  BY DEF Init
<1>3. Unread \in Seq(Byte)
  BY <1>1, InRange, Mapping, SegIsSeq
<1>4. Text = NoText /\ Kept = <<>>
  BY <1>2, Mapping, NothingKept
<1> QED BY <1>2, <1>3, <1>4 DEF Stream!Init

(* Every step of the text layer is one of the stream or leaves it alone.   *)
LEMMA StepStream ==
    ASSUME IInv, StreamUse, [Next]_vars
    PROVE  [Stream!Next]_(Stream!vars)
<1>1. CASE Call \/ Return \/ Terminate \/ UNCHANGED vars
  BY <1>1, StutterStream
<1>2. ASSUME NEW s \in Inputs, AutoRestart(s) PROVE Stream!Next
  BY <1>2, AutoRestartStream DEF Stream!Next
<1>3. ASSUME NEW s \in Inputs, Yyrestart(s) PROVE Stream!Next
  BY <1>3, YyrestartStream DEF Stream!Next
<1>4. CASE EndOfInput
  BY <1>4, EndOfInputStream DEF Stream!Next
<1>5. ASSUME NEW k \in 0 .. Cap, Match(k) PROVE Stream!Next
  BY <1>5, MatchStream DEF Stream!Next
<1>6. CASE Default
  BY <1>6, DefaultStream DEF Stream!Next
<1>7. CASE Jam
  BY <1>7, JamStream DEF Stream!Next
<1>8. CASE FallOff
  BY <1>8, FallOffStream DEF Stream!Next
<1>9. CASE Yymore
  BY <1>9, YymoreStream DEF Stream!Next
<1>10. ASSUME NEW n \in 0 .. Cap, Yyless(n) PROVE Stream!Next
  BY <1>10, YylessStream DEF Stream!Next
<1>11. CASE Input
  BY <1>11, InputStreamStep DEF Stream!Next
<1>12. ASSUME NEW c \in Byte, Unput(c) PROVE Stream!Next
  BY <1>12, UnputStream DEF Stream!Next
<1>13. CASE Reject
  BY <1>13, RejectStream DEF Stream!Next
<1> QED BY <1>1, <1>2, <1>3, <1>4, <1>5, <1>6, <1>7, <1>8, <1>9, <1>10, <1>11,
           <1>12, <1>13 DEF Next

(* ImplementsStream: whatever the buffer's size and the order of matches,  *)
(* unput(), input(), yyless(), REJECT and yyrestart(), the scanner reads   *)
(* its input as a plain sequence of bytes: no byte is lost, repeated or    *)
(* altered by the seal, the cursor or the moves to make room.              *)
THEOREM StreamImplemented == ASSUME StreamUse PROVE Spec => ImplementsStream
<1>1. SafeYymore
  BY DEF StreamUse, SafeYymore
<1>2. IInv /\ [Next]_vars => [Stream!Next]_(Stream!vars)
  BY StepStream
<1> QED BY <1>1, <1>2, InitStream, Invariance, PTL DEF Spec, ImplementsStream, Stream!Spec
=============================================================================
