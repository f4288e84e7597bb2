---------------------------- MODULE BufferStack ----------------------------
(***************************************************************************)
(* The buffers of a scanner: their memory, the stack of current buffers,   *)
(* yyin, the start-condition stack, and the destruction of all of them.    *)
(* ScanText models what happens to the bytes of one buffer; here a buffer  *)
(* is an address, and of its bytes only what the seal of yytext does to    *)
(* them is kept.  An address that was freed can be handed out again.       *)
(*                                                                         *)
(* The program may do whatever flex documents with the buffers it has a    *)
(* handle of.  Careful restricts it further, to what this runtime can      *)
(* take; the restrictions are the operators of that section.               *)
(***************************************************************************)
EXTENDS Integers, FiniteSets

CONSTANTS
    Buffer,      \* addresses of buffers
    NoBuf,       \* a null YY_BUFFER_STATE
    Outside,     \* memory of the program, which the runtime never frees
    File,        \* what yyin can be
    Stdin,
    NoFile,      \* a null FILE*
    FirstStates, \* first size of the start-condition stack (16)
    MaxDepth,    \* BOUND: start conditions pushed, by a tidy program or not
    Careful      \* the program keeps to the restrictions below

ASSUME StackAssumption ==
    /\ NoBuf \notin Buffer /\ Outside \notin Buffer \cup {NoBuf}
    /\ Stdin \in File /\ NoFile \notin File
    /\ FirstStates \in Nat \ {0} /\ MaxDepth \in [BOOLEAN -> Nat]
    /\ Careful \in BOOLEAN

VARIABLES
    reentrant,   \* YY_REENTRANT, fixed when the scanner is generated
    tidy,        \* the program never frees the memory that yytext lies in
    heap,        \* of each address: "free", "live", or freed "twice"
    own,         \* yy_is_our_buffer
    file,        \* yy_input_file
    mark,        \* what the seal has done to a buffer's bytes
    slots,       \* yy_buffer_stack
    max,         \* its number of slots, 0 while it is a null pointer
    top,         \* yy_buffer_stack_top
    yyin,
    initDone,    \* yy_init_done
    window,      \* the buffer yytext lies in while yy_text_active is set
    room,        \* yy_state_stack_max
    depth,       \* yy_state_stack_top
    allocated,   \* yy_state_stack is not a null pointer
    pc           \* where the program is

setting    == <<reentrant, tidy>>
bufferVars == <<heap, own, file, mark, window>>
stackVars  == <<slots, max, top>>
stateVars  == <<room, depth, allocated>>
vars == <<setting, bufferVars, stackVars, stateVars, yyin, initDone, pc>>

(* "out": the program, between calls; "loop": the top of yylex()'s loop;   *)
(* "action", "eof": in an action; "gone": a reentrant scanner destroyed.   *)
Place == {"out", "loop", "action", "eof", "gone"}
UserCode == pc \in {"out", "action", "eof"}

(* "sealed": a byte is replaced by the terminator; "ended": yytext is the  *)
(* empty text at the end, on the sentinel; "wrong": a byte was overwritten *)
(* that the buffer did not hold when it was sealed; "stray": the address   *)
(* is free, and was written to after it was freed.                         *)
Marks == {"clean", "sealed", "ended", "wrong", "stray"}

Current == IF max > 0 THEN slots[top] ELSE NoBuf

(* yyensure_buffer_stack().                                                *)
EnsuredSlots == IF max > 0 THEN slots ELSE [i \in {0} |-> NoBuf]
EnsuredMax   == IF max > 0 THEN max ELSE 1
EnsuredTop   == IF max > 0 THEN top ELSE 0

(* yy_text_unseal(): the saved byte is written where yytext ends, also if  *)
(* that memory was freed: when it was handed out again, into the new       *)
(* buffer.                                                                 *)
UnsealForgotten == mark
UnsealedMark(b) == IF heap[b] # "live" THEN "stray"
                   ELSE IF mark[b] \in {"sealed", "ended"} THEN "clean" ELSE "wrong"
Unsealed == IF window \in Buffer THEN [mark EXCEPT ![window] = UnsealedMark(window)] ELSE mark

(* The slots after a push on a buffer, doubled when they are all in use.   *)
NotDoubled == max
Doubled == 2 * max
SlotOfPushHigh == EnsuredTop + 1
SlotOfPush == IF Current = NoBuf THEN EnsuredTop ELSE top + 1
MaxAfterPush == IF SlotOfPush >= EnsuredMax THEN Doubled ELSE EnsuredMax
PushedSlots(b) ==
    [i \in 0 .. MaxAfterPush - 1 |->
        IF i = SlotOfPush THEN b
        ELSE IF i < EnsuredMax THEN EnsuredSlots[i] ELSE NoBuf]

(* yy_delete_buffer() on each buffer of a set, whose fields are no longer  *)
(* worth anything.  The text of a yy_scan_buffer() buffer stays the        *)
(* program's.                                                              *)
FreedFrom(bs) ==
    [b \in Buffer |-> IF b \notin bs THEN heap[b]
                      ELSE IF heap[b] = "live" THEN "free" ELSE "twice"]
Deleted(bs) ==
    /\ heap' = FreedFrom(bs)
    /\ file' = [b \in Buffer |-> IF b \in bs THEN NoFile ELSE file[b]]
    /\ own' = [b \in Buffer |-> b \in bs \/ own[b]]
    /\ mark' = [b \in Buffer |-> IF b \in bs THEN "clean" ELSE mark[b]]
WindowWithout(bs) == IF window \in bs /\ ~own[window] THEN Outside ELSE window

(* A new buffer at address b.                                              *)
New(b, f, ours) ==
    /\ b \in Buffer /\ heap[b] = "free"
    /\ mark' = [mark EXCEPT ![b] = "clean"]
    /\ heap' = [heap EXCEPT ![b] = "live"]
    /\ file' = [file EXCEPT ![b] = f]
    /\ own' = [own EXCEPT ![b] = ours]

(* The slots up to the top that are not empty.                             *)
InUse == {i \in 0 .. top : max > 0 /\ slots[i] # NoBuf}
Stacked == {slots[i] : i \in InUse}

-----------------------------------------------------------------------------
(* Legal use, as flex documents it: a handle is used while its buffer is   *)
(* alive, a buffer is on the stack once, and only the buffer at the top is *)
(* deleted while it is there; another is switched to before anything else. *)
Live == {b \in Buffer : heap[b] = "live"}
MayEnter(b) == b \in {NoBuf} \cup (Live \ Stacked)
MayDelete(b) == b \in Live \ {slots[i] : i \in InUse \ {top}}
Settled == Current \in {NoBuf} \cup Live

(* What this runtime can take.  (1) No buffer is created while yytext is   *)
(* valid and lies in freed memory.  (2) yyrestart() is not called while    *)
(* yytext lies in a buffer other than the current.  (3) The buffer at the  *)
(* top is popped, not deleted.  (4) A reentrant scanner is not destroyed   *)
(* while yytext lies in a live buffer off the stack, another one not with  *)
(* an empty slot on top of others.  (5) Start conditions are not pushed or *)
(* popped after it was destroyed.                                          *)
Dangling == window \in Buffer \ Live
MayCreate == Careful => ~Dangling
MayRestart == Careful => window \in {NoBuf, Outside, Current} \/ Dangling
MayDeleteTop == ~Careful
MayDestroy == Careful => IF reentrant THEN window \notin Live \ Stacked
                         ELSE Current # NoBuf \/ top = 0
MayUseStates == Careful => allocated \/ room = 0

(* flex's own idiom, yypop_buffer_state() in an <<EOF>> action, frees the  *)
(* buffer that yytext lies in.  A tidy program first ends the validity of  *)
(* yytext, with input() or yyrestart(), or waits for the next match.       *)
MayGiveUp(bs) == tidy => ~(window \in bs /\ own[window])

-----------------------------------------------------------------------------
(* The static guts before the first call, and what yylex_init() allocates. *)
GutsClear ==
    /\ slots = [i \in {} |-> NoBuf] /\ max = 0 /\ top = 0
    /\ yyin = NoFile /\ initDone = FALSE /\ window = NoBuf
    /\ room = 0 /\ depth = 0 /\ allocated = FALSE

Init ==
    /\ reentrant \in BOOLEAN /\ tidy \in BOOLEAN
    /\ heap = [b \in Buffer |-> "free"]
    /\ own = [b \in Buffer |-> TRUE]
    /\ file = [b \in Buffer |-> NoFile]
    /\ mark = [b \in Buffer |-> "clean"]
    /\ GutsClear
    /\ pc = IF reentrant THEN "gone" ELSE "out"

LexInit == /\ pc = "gone" /\ pc' = "out"
           /\ UNCHANGED <<setting, bufferVars, stackVars, stateVars, yyin, initDone>>

-----------------------------------------------------------------------------
(* The runtime API.                                                        *)

CreateBuffer(b, f) ==
    /\ UserCode /\ MayCreate
    /\ New(b, f, TRUE)
    /\ UNCHANGED <<setting, window, stackVars, stateVars, yyin, initDone, pc>>

DeleteBuffer(b) ==
    /\ UserCode /\ MayDelete(b) /\ (b = Current => MayDeleteTop) /\ MayGiveUp({b})
    /\ Deleted({b}) /\ window' = WindowWithout({b})
    /\ UNCHANGED <<setting, stackVars, stateVars, yyin, initDone, pc>>

(* yy_switch_to_buffer(): nothing happens if b already is the current.     *)
SwitchToBuffer(b) ==
    /\ UserCode /\ (MayEnter(b) \/ b = Current)
    /\ max' = EnsuredMax /\ top' = EnsuredTop
    /\ slots' = [EnsuredSlots EXCEPT ![EnsuredTop] = b]
    /\ yyin' = IF b \in {NoBuf, Current} THEN yyin ELSE file[b]
    /\ UNCHANGED <<setting, bufferVars, stateVars, initDone, pc>>

Pushed(b) ==
    /\ slots' = PushedSlots(b) /\ max' = MaxAfterPush /\ top' = SlotOfPush
    /\ yyin' = IF b = NoBuf THEN yyin ELSE file'[b]

PushBufferState(b) ==
    /\ UserCode /\ Settled /\ MayEnter(b)
    /\ UNCHANGED bufferVars
    /\ Pushed(b)
    /\ UNCHANGED <<setting, stateVars, initDone, pc>>

(* yy_scan_bytes() and yy_scan_string() copy the text into a buffer of     *)
(* their own; yy_scan_buffer() takes the program's memory.                 *)
ScanMemory(b, ours) ==
    /\ UserCode /\ Settled /\ MayCreate
    /\ New(b, NoFile, ours)
    /\ Pushed(b)
    /\ UNCHANGED <<setting, window, stateVars, initDone, pc>>

(* The file yyin becomes when the slot at the top is given up.             *)
YyinKept == yyin
YyinAfterPop == IF top > 0 /\ slots[top - 1] # NoBuf THEN file[slots[top - 1]] ELSE yyin
SlotKept == Current
SlotAfterPop == NoBuf

PopBufferState ==
    /\ UserCode /\ max > 0 /\ MayGiveUp({Current} \ {NoBuf})
    /\ Deleted({Current} \ {NoBuf}) /\ window' = WindowWithout({Current} \ {NoBuf})
    /\ slots' = [slots EXCEPT ![top] = SlotAfterPop]
    /\ top' = IF top > 0 THEN top - 1 ELSE 0
    /\ yyin' = YyinAfterPop
    /\ UNCHANGED <<setting, max, stateVars, initDone, pc>>

(* yyrestart(): the current buffer, or a new one at b, reads f from its    *)
(* start.  yytext is given up without being unsealed.                      *)
Restarted(b, f) ==
    /\ slots' = [EnsuredSlots EXCEPT ![EnsuredTop] = b]
    /\ max' = EnsuredMax /\ top' = EnsuredTop
    /\ yyin' = f /\ window' = NoBuf

Yyrestart(b, f) ==
    /\ UserCode /\ Settled /\ MayRestart
    /\ \/ Current = NoBuf /\ New(b, f, TRUE)
       \/ /\ b = Current /\ b # NoBuf
          /\ file' = [file EXCEPT ![b] = f]
          /\ mark' = [mark EXCEPT ![b] = "clean"]
          /\ UNCHANGED <<heap, own>>
    /\ Restarted(b, f)
    /\ UNCHANGED <<setting, stateVars, initDone, pc>>

(* input() and unput() undo the seal before anything else.                 *)
InputOrUnput ==
    /\ pc \in {"action", "eof"} /\ Settled
    /\ mark' = Unsealed /\ window' = NoBuf
    /\ UNCHANGED <<setting, heap, own, file, stackVars, stateVars, yyin, initDone, pc>>

(* yy_push_state() and yy_pop_state().                                     *)
StateRoomLate == IF depth > room THEN 2 * room ELSE room
StateRoom == IF depth >= room THEN IF room = 0 THEN FirstStates ELSE 2 * room ELSE room
PushState ==
    /\ UserCode /\ MayUseStates /\ depth < MaxDepth[tidy]
    /\ room' = StateRoom
    /\ allocated' = (allocated \/ room' # room)
    /\ depth' = depth + 1
    /\ UNCHANGED <<setting, bufferVars, stackVars, yyin, initDone, pc>>

PopState ==
    /\ UserCode /\ MayUseStates /\ depth > 0
    /\ depth' = depth - 1
    /\ UNCHANGED <<setting, bufferVars, stackVars, room, allocated, yyin, initDone, pc>>

-----------------------------------------------------------------------------
(* yylex().                                                                *)

(* Entry: yyin defaults to stdin, and an empty stack gets a buffer for it. *)
Call(b) ==
    LET f == IF yyin = NoFile THEN Stdin ELSE yyin
    IN  /\ pc = "out" /\ Settled
        /\ \/ /\ Current = NoBuf /\ MayCreate
              /\ New(b, f, TRUE)
           \/ /\ b = Current /\ b # NoBuf
              /\ UNCHANGED <<heap, own, file, mark>>
        /\ slots' = [EnsuredSlots EXCEPT ![EnsuredTop] = b]
        /\ max' = EnsuredMax /\ top' = EnsuredTop
        /\ yyin' = f /\ initDone' = TRUE /\ pc' = "loop"
        /\ UNCHANGED <<setting, window, stateVars>>

(* The current buffer is exhausted and has a file: yyin is read.           *)
AutoRestart ==
    /\ pc = "loop" /\ file[Current] # NoFile /\ yyin # NoFile
    /\ file' = [file EXCEPT ![Current] = yyin]
    /\ mark' = [Unsealed EXCEPT ![Current] = "clean"]
    /\ window' = NoBuf
    /\ UNCHANGED <<setting, heap, own, stackVars, stateVars, yyin, initDone, pc>>

(* There is no more input, or a match: yytext moves to the current buffer. *)
Found(m, place) ==
    /\ pc = "loop" /\ pc' = place
    /\ mark' = [Unsealed EXCEPT ![Current] = IF @ = "wrong" THEN @ ELSE m]
    /\ window' = Current
    /\ UNCHANGED <<setting, heap, own, file, stackVars, stateVars, yyin, initDone>>

EndOfInput == Found("ended", "eof")
Match      == Found("sealed", "action")

FallOff == /\ pc = "action" /\ pc' = "loop" /\ Settled /\ Current # NoBuf
           /\ UNCHANGED <<setting, bufferVars, stackVars, stateVars, yyin, initDone>>

Return == /\ pc \in {"action", "eof"} /\ pc' = "out"
          /\ UNCHANGED <<setting, bufferVars, stackVars, stateVars, yyin, initDone>>

-----------------------------------------------------------------------------
(* yylex_destroy().                                                        *)

(* The reentrant one goes through every slot; the other pops until the     *)
(* current buffer is null, and stops at the first empty slot.              *)
StopsAt == CHOOSE t \in 0 .. top : /\ t = 0 \/ slots[t] = NoBuf
                                  /\ \A i \in t + 1 .. top : slots[i] # NoBuf
FreedAboveBottom == {i \in InUse : i > 0}
Freed == {i \in InUse : reentrant \/ StopsAt <= i}
Lowest == CHOOSE i \in Freed : \A j \in Freed : i <= j

Destroy ==
    /\ pc = "out" /\ MayDestroy
    /\ reentrant \/ MayGiveUp({slots[i] : i \in Freed})
    /\ Deleted({slots[i] : i \in Freed})
    /\ window' = IF reentrant THEN NoBuf ELSE WindowWithout({slots[i] : i \in Freed})
    /\ slots' = [i \in {} |-> NoBuf] /\ max' = 0
    /\ allocated' = FALSE /\ initDone' = FALSE
    /\ IF reentrant
       THEN top' = 0 /\ yyin' = NoFile /\ room' = 0 /\ depth' = 0 /\ pc' = "gone"
       ELSE /\ top' = IF max > 0 THEN StopsAt ELSE top
            /\ yyin' = IF \E i \in Freed : i < top THEN file[slots[Lowest]] ELSE yyin
            /\ UNCHANGED <<room, depth, pc>>
    /\ UNCHANGED setting

Next ==
    \/ LexInit
    \/ \E b \in Buffer, f \in File : CreateBuffer(b, f)
    \/ \E b \in Buffer : DeleteBuffer(b)
    \/ \E b \in Buffer \cup {NoBuf} : SwitchToBuffer(b)
    \/ \E b \in Buffer \cup {NoBuf} : PushBufferState(b)
    \/ \E b \in Buffer, ours \in BOOLEAN : ScanMemory(b, ours)
    \/ PopBufferState
    \/ \E b \in Buffer, f \in File : Yyrestart(b, f)
    \/ InputOrUnput
    \/ PushState
    \/ PopState
    \/ \E b \in Buffer : Call(b)
    \/ AutoRestart
    \/ EndOfInput
    \/ Match
    \/ FallOff
    \/ Return
    \/ Destroy

Spec == Init /\ [][Next]_vars

-----------------------------------------------------------------------------
(* Properties.                                                             *)

(* Types of the buffers, the two stacks and the flags.                     *)
BufferType == /\ heap \in [Buffer -> {"free", "live", "twice"}]
              /\ own \in [Buffer -> BOOLEAN]
              /\ file \in [Buffer -> File \cup {NoFile}]
              /\ mark \in [Buffer -> Marks]
              /\ window \in Buffer \cup {NoBuf, Outside}
StackType  == /\ max \in Nat /\ top \in Nat /\ (max > 0 => top < max)
              /\ slots \in [0 .. max - 1 -> Buffer \cup {NoBuf}]
StateType  == /\ room \in Nat /\ depth \in Nat
              /\ {allocated, initDone, reentrant, tidy} \subseteq BOOLEAN
              /\ yyin \in File \cup {NoFile} /\ pc \in Place
TypeOK == BufferType /\ StackType /\ StateType

(* No memory is freed twice, whatever is pushed, popped, switched to,      *)
(* deleted and destroyed.                                                  *)
FreedOnce == \A b \in Buffer : heap[b] # "twice"

(* Every buffer on the stack is alive and on it once: what becomes the     *)
(* current buffer by a pop can be read and is nobody else's.               *)
StackedLive ==
    /\ \A b \in Stacked : heap[b] = "live"
    /\ \A i, j \in InUse : slots[i] = slots[j] => i = j

(* Only the slot at the top can be empty.  yylex_destroy() and             *)
(* yypop_buffer_state() rely on it: they stop at, or go down over, one.    *)
OnlyTopEmpty == \A i \in 0 .. top - 1 : max > 0 => i \in InUse

(* No buffer in use has lost a byte to the seal of another: whichever      *)
(* buffers come and go, a terminator stands only where yytext ends, and    *)
(* the byte under it goes back to where it was.  In a tidy program it goes *)
(* nowhere else: no memory is written to that was freed.                   *)
BuffersIntact ==
    \A b \in Buffer : /\ heap[b] = "live" => /\ mark[b] # "wrong"
                                             /\ mark[b] = "sealed" => window = b
                      /\ tidy => mark[b] # "stray"

(* An exhausted buffer reads on from its own file: yyin, which the loop    *)
(* restarts from, follows the current buffer through pushes, pops,         *)
(* switches and restarts.                                                  *)
RestartReadsOwnFile ==
    pc = "loop" => file[Current] \in {NoFile, yyin}

Destroyed == max > 0 /\ max' = 0

(* "tears down the buffer stack" (runtime.c.in:658): yylex_destroy() frees *)
(* every buffer that is on the stack.                                      *)
DestroyFreesStack == [][Destroyed => \A b \in Stacked : heap'[b] = "free"]_vars

(* "resets the static guts" (runtime.c.in:658): after yylex_destroy() no   *)
(* text is valid any more and both stacks are as before the first call.    *)
DestroyResetsGuts ==
    [][Destroyed => /\ window' = NoBuf /\ top' = 0
                    /\ room' = 0 /\ depth' = 0]_vars

(* yy_push_state() and yy_pop_state() touch a slot of allocated memory.    *)
StatesAllocated ==
    [][depth' # depth /\ pc' # "gone" => allocated' /\ depth <= room' /\ depth' <= room']_vars
=============================================================================
