------------------------- MODULE BufferStackProofs -------------------------
(***************************************************************************)
(* The theorems about BufferStack, for a program that is Careful: types,   *)
(* no buffer freed twice, every stacked buffer alive and stacked once, no  *)
(* empty slot but at the top, no byte lost to a seal, every buffer read on *)
(* from its own file, and the stack of conditions inside its memory.       *)
(*                                                                         *)
(* The three invariants need each other: a pop frees a live buffer because *)
(* stacked buffers are alive, the buffer it uncovers is alive because no   *)
(* buffer is on the stack twice, and a slot below the top is never empty   *)
(* because a push goes on top of a buffer.  Good is their conjunction,     *)
(* with the values of the stack and the heap as parameters, so that each   *)
(* way of changing the stack is a lemma without primes.  Full adds where   *)
(* seals and end marks stand and which file yyin is.                       *)
(***************************************************************************)
EXTENDS BufferStack, TLAPS

HeapType == {"free", "live", "twice"}

GoodType(s, m, t, h) ==
    /\ m \in Nat /\ t \in Nat /\ (m > 0 => t < m)
    /\ s \in [0 .. m - 1 -> Buffer \cup {NoBuf}]
    /\ h \in [Buffer -> HeapType]

GoodStack(s, m, t, h) ==
    /\ \A b \in Buffer : h[b] # "twice"
    /\ m > 0 => /\ \A i \in 0 .. t - 1 : s[i] # NoBuf
                /\ \A i \in 0 .. t : s[i] # NoBuf => h[s[i]] = "live"
                /\ \A i, j \in 0 .. t : s[i] # NoBuf /\ s[i] = s[j] => i = j

Good(s, m, t, h) == GoodType(s, m, t, h) /\ GoodStack(s, m, t, h)

(* h2 has at least the live buffers of h, and none freed twice.            *)
Grows(h, h2) ==
    /\ h2 \in [Buffer -> HeapType]
    /\ \A b \in Buffer : h2[b] # "twice"
    /\ \A b \in Buffer : h[b] = "live" => h2[b] = "live"

(* b can go to slot t of a stack.                                          *)
Enters(b, s, m, t, h2) ==
    /\ b \in Buffer \cup {NoBuf}
    /\ b # NoBuf => h2[b] = "live" /\ \A i \in 0 .. t - 1 : m > 0 => s[i] # b

(* The top of a stack that exists is replaced.                             *)
LEMMA ReplaceTop ==
    ASSUME NEW s, NEW m, NEW t, NEW h, NEW h2, NEW b,
           Good(s, m, t, h), m > 0, Grows(h, h2), Enters(b, s, m, t, h2)
    PROVE  Good([s EXCEPT ![t] = b], m, t, h2)
<1> DEFINE r == [s EXCEPT ![t] = b]
<1>1. /\ m \in Nat /\ t \in Nat /\ t < m /\ t \in 0 .. m - 1
      /\ s \in [0 .. m - 1 -> Buffer \cup {NoBuf}]
  BY DEF Good, GoodType
<1>2. r \in [0 .. m - 1 -> Buffer \cup {NoBuf}]
  BY <1>1 DEF Enters
<1>3. r[t] = b /\ \A i \in 0 .. t - 1 : r[i] = s[i]
  BY <1>1
<1>4. \A i \in 0 .. t : i = t \/ i \in 0 .. t - 1
  BY <1>1
<1>5. \A i \in 0 .. t - 1 : r[i] # NoBuf /\ r[i] \in Buffer /\ h2[r[i]] = "live" /\ r[i] # b
  <2> SUFFICES ASSUME NEW i \in 0 .. t - 1
               PROVE r[i] # NoBuf /\ r[i] \in Buffer /\ h2[r[i]] = "live" /\ r[i] # b
    OBVIOUS
  <2>1. i \in 0 .. t /\ i \in 0 .. m - 1
    BY <1>1
  <2>2. s[i] # NoBuf /\ s[i] \in Buffer /\ h[s[i]] = "live"
    BY <2>1, <1>1 DEF Good, GoodStack
  <2>3. h2[s[i]] = "live" /\ s[i] # b
    BY <2>2, <1>1 DEF Grows, Enters
  <2> QED BY <2>2, <2>3, <1>3
<1>6. \A i \in 0 .. t : r[i] # NoBuf => h2[r[i]] = "live"
  BY <1>3, <1>4, <1>5 DEF Enters
<1>7. \A i, j \in 0 .. t - 1 : r[i] = r[j] => i = j
  <2> SUFFICES ASSUME NEW i \in 0 .. t - 1, NEW j \in 0 .. t - 1, r[i] = r[j] PROVE i = j
    OBVIOUS
  <2>1. i \in 0 .. t /\ j \in 0 .. t
    BY <1>1
  <2> QED BY <2>1, <1>1, <1>3, <1>5 DEF Good, GoodStack
<1>8. \A i, j \in 0 .. t : r[i] # NoBuf /\ r[i] = r[j] => i = j
  BY <1>3, <1>4, <1>5, <1>7
<1>9. GoodType(r, m, t, h2)
  BY <1>1, <1>2 DEF Grows, GoodType
<1>10. GoodStack(r, m, t, h2)
  <2> HIDE DEF r
  <2> QED BY <1>5, <1>6, <1>8 DEF Grows, GoodStack
<1> QED BY <1>9, <1>10 DEF Good

(* The stack is not used: only the heap changes.                           *)
LEMMA HeapChange ==
    ASSUME NEW s, NEW m, NEW t, NEW h, NEW h2,
           Good(s, m, t, h), h2 \in [Buffer -> HeapType],
           \A b \in Buffer : h2[b] # "twice",
           \A i \in 0 .. t : m > 0 /\ s[i] # NoBuf => h2[s[i]] = "live"
    PROVE  Good(s, m, t, h2)
BY DEF Good, GoodType, GoodStack

(* A stack of one empty slot is good.                                      *)
LEMMA FreshStack ==
    ASSUME NEW h, h \in [Buffer -> HeapType], \A b \in Buffer : h[b] # "twice"
    PROVE  Good([i \in {0} |-> NoBuf], 1, 0, h)
<1>1. [i \in {0} |-> NoBuf] \in [0 .. 1 - 1 -> Buffer \cup {NoBuf}]
  OBVIOUS
<1>2. [i \in {0} |-> NoBuf][0] = NoBuf
  OBVIOUS
<1> QED BY <1>1, <1>2 DEF Good, GoodType, GoodStack

-----------------------------------------------------------------------------
(* The operators of the module, between two steps.                         *)

Now == Good(slots, max, top, heap)

(* yyensure_buffer_stack() leaves a good stack with at least one slot.     *)
LEMMA EnsuredGood ==
    ASSUME StackAssumption, Now
    PROVE  /\ Good(EnsuredSlots, EnsuredMax, EnsuredTop, heap)
           /\ EnsuredMax > 0
           /\ Current \in Buffer \cup {NoBuf}
           /\ EnsuredSlots[EnsuredTop] = Current
<1>1. CASE max > 0
  <2>1. EnsuredSlots = slots /\ EnsuredMax = max /\ EnsuredTop = top /\ Current = slots[top]
    BY <1>1 DEF EnsuredSlots, EnsuredMax, EnsuredTop, Current
  <2>2. top \in 0 .. max - 1
    BY <1>1 DEF Now, Good, GoodType
  <2> QED BY <1>1, <2>1, <2>2 DEF Now, Good, GoodType
<1>2. CASE ~(max > 0)
  <2>1. EnsuredSlots = [i \in {0} |-> NoBuf] /\ EnsuredMax = 1 /\ EnsuredTop = 0 /\ Current = NoBuf
    BY <1>2 DEF EnsuredSlots, EnsuredMax, EnsuredTop, Current
  <2>2. Good([i \in {0} |-> NoBuf], 1, 0, heap)
    BY FreshStack DEF Now, Good, GoodType, GoodStack
  <2> QED BY <2>1, <2>2
<1> QED BY <1>1, <1>2

(* What a program may push or switch to, and a new buffer, are not in a    *)
(* slot.                                                                   *)
LEMMA NotStacked ==
    ASSUME StackAssumption, Now, NEW b \in Buffer, b \notin Stacked \/ heap[b] # "live",
           NEW i \in 0 .. EnsuredTop
    PROVE  EnsuredSlots[i] # b
<1>1. CASE max > 0
  <2>1. EnsuredSlots = slots /\ EnsuredTop = top
    BY <1>1 DEF EnsuredSlots, EnsuredTop
  <2>2. i \in 0 .. top
    BY <2>1
  <2>3. b # NoBuf
    BY DEF StackAssumption
  <2>4. slots[i] = b => heap[b] = "live" /\ i \in InUse
    BY <1>1, <2>2, <2>3 DEF Now, Good, GoodStack, InUse
  <2>5. slots[i] # b
    BY <2>4 DEF Stacked
  <2> QED BY <2>1, <2>5
<1>2. CASE ~(max > 0)
  <2>1. EnsuredSlots = [j \in {0} |-> NoBuf] /\ EnsuredTop = 0
    BY <1>2 DEF EnsuredSlots, EnsuredTop
  <2>2. EnsuredSlots[i] = NoBuf
    BY <2>1
  <2> QED BY <2>2 DEF StackAssumption
<1> QED BY <1>1, <1>2

LEMMA Replaced ==
    ASSUME StackAssumption, Now, NEW h2, Grows(heap, h2), NEW b \in Buffer \cup {NoBuf},
           b \in Buffer => h2[b] = "live",
           b = Current \/ b \notin Stacked \/ heap[b] # "live"
    PROVE  Good([EnsuredSlots EXCEPT ![EnsuredTop] = b], EnsuredMax, EnsuredTop, h2)
<1>1. /\ Good(EnsuredSlots, EnsuredMax, EnsuredTop, heap) /\ EnsuredMax > 0
      /\ EnsuredSlots[EnsuredTop] = Current
      /\ EnsuredTop \in Nat
  BY EnsuredGood DEF Good, GoodType
<1>2. ASSUME NEW i \in 0 .. EnsuredTop - 1, b \in Buffer PROVE EnsuredSlots[i] # b
  <2>1. i \in 0 .. EnsuredTop /\ i # EnsuredTop /\ EnsuredTop \in 0 .. EnsuredTop
    BY <1>1
  <2>2. CASE b = Current
    <3>1. EnsuredSlots[i] # NoBuf
      BY <1>1 DEF Good, GoodStack
    <3> QED BY <1>1, <2>1, <2>2, <3>1 DEF Good, GoodStack
  <2>3. CASE b \notin Stacked \/ heap[b] # "live"
    BY <1>2, <2>1, <2>3, NotStacked
  <2> QED BY <2>2, <2>3
<1>3. b # NoBuf => b \in Buffer
  OBVIOUS
<1>4. Enters(b, EnsuredSlots, EnsuredMax, EnsuredTop, h2)
  BY <1>2, <1>3 DEF Enters
<1> QED BY <1>1, <1>4, ReplaceTop

(* A push.                                                                 *)
LEMMA PushGood ==
    ASSUME StackAssumption, Now, NEW h2, Grows(heap, h2), NEW b \in Buffer \cup {NoBuf},
           b \in Buffer => h2[b] = "live",
           b \notin Stacked \/ heap[b] # "live"
    PROVE  Good(PushedSlots(b), MaxAfterPush, SlotOfPush, h2)
<1> DEFINE es == EnsuredSlots  em == EnsuredMax  et == EnsuredTop
           p == PushedSlots(b)  m == MaxAfterPush  t == SlotOfPush
<1>1. /\ Good(es, em, et, heap) /\ em > 0 /\ es[et] = Current
      /\ em \in Nat /\ et \in Nat /\ et < em
      /\ es \in [0 .. em - 1 -> Buffer \cup {NoBuf}]
  BY EnsuredGood DEF Good, GoodType
<1>2. \A i \in 0 .. et : b \in Buffer => es[i] # b
  BY NotStacked
<1>3. /\ max > 0 => em = max /\ et = top
      /\ Current # NoBuf => max > 0
  BY DEF EnsuredMax, EnsuredTop, Current
<1>4. /\ Current = NoBuf => t = et
      /\ Current # NoBuf => t = et + 1
  BY <1>3 DEF SlotOfPush
<1>5. t \in Nat /\ t >= et /\ t <= em
  BY <1>1, <1>4
<1>6. t >= em => m = 2 * em
  <2>1. t >= em => Current # NoBuf
    BY <1>1, <1>4
  <2> QED BY <2>1, <1>3 DEF MaxAfterPush, Doubled
<1>7. t < em => m = em
  BY <1>5, <1>1 DEF MaxAfterPush
<1>8. m \in Nat /\ em <= m /\ t < m
  <2> HIDE DEF es, em, et, m, t
  <2> QED BY <1>1, <1>5, <1>6, <1>7
<1>9. p = [i \in 0 .. m - 1 |-> IF i = t THEN b ELSE IF i < em THEN es[i] ELSE NoBuf]
  BY DEF PushedSlots
<1> HIDE DEF es, em, et, p, m, t
<1>10. p \in [0 .. m - 1 -> Buffer \cup {NoBuf}]
  <2>1. ASSUME NEW i \in 0 .. m - 1 PROVE i < em => es[i] \in Buffer \cup {NoBuf}
    BY <1>1
  <2> QED BY <1>9, <2>1
<1>11. p[t] = b
  BY <1>8, <1>9, <1>5
<1>12. \A i \in 0 .. t - 1 : i \in 0 .. et /\ p[i] = es[i] /\ es[i] # NoBuf
  <2> SUFFICES ASSUME NEW i \in 0 .. t - 1 PROVE i \in 0 .. et /\ p[i] = es[i] /\ es[i] # NoBuf
    OBVIOUS
  <2>1. i \in 0 .. et
    BY <1>1, <1>4, <1>5
  <2>2. i \in 0 .. m - 1 /\ i # t /\ i < em
    BY <1>8, <1>5, <1>1, <2>1
  <2>3. p[i] = es[i]
    BY <2>2, <1>9
  <2>4. i = et => es[i] # NoBuf
    BY <1>1, <1>4
  <2>5. i # et => es[i] # NoBuf
    <3>1. i # et => i \in 0 .. et - 1
      BY <2>1, <1>1
    <3> QED BY <3>1, <1>1 DEF Good, GoodStack
  <2> QED BY <2>1, <2>3, <2>4, <2>5
<1>13. \A i \in 0 .. t - 1 : p[i] \in Buffer /\ h2[p[i]] = "live" /\ p[i] # b
  <2> SUFFICES ASSUME NEW i \in 0 .. t - 1 PROVE p[i] \in Buffer /\ h2[p[i]] = "live" /\ p[i] # b
    OBVIOUS
  <2>1. i \in 0 .. et /\ p[i] = es[i] /\ es[i] # NoBuf
    BY <1>12
  <2>2. i \in 0 .. em - 1
    BY <2>1, <1>1
  <2>3. es[i] \in Buffer
    BY <2>1, <2>2, <1>1
  <2>4. heap[es[i]] = "live"
    BY <2>1, <1>1 DEF Good, GoodStack
  <2>5. h2[es[i]] = "live"
    BY <2>3, <2>4 DEF Grows
  <2>6. es[i] # b
    BY <2>1, <2>3, <1>2
  <2> QED BY <2>1, <2>3, <2>5, <2>6
<1>14. \A i \in 0 .. t : i = t \/ i \in 0 .. t - 1
  BY <1>5
<1>15. \A i \in 0 .. t : p[i] # NoBuf => h2[p[i]] = "live"
  BY <1>11, <1>13, <1>14
<1>16. \A i, j \in 0 .. t - 1 : p[i] = p[j] => i = j
  BY <1>12, <1>1 DEF Good, GoodStack
<1>17. \A i, j \in 0 .. t : p[i] # NoBuf /\ p[i] = p[j] => i = j
  BY <1>11, <1>13, <1>14, <1>16
<1>18. GoodType(p, m, t, h2)
  BY <1>5, <1>8, <1>10 DEF Grows, GoodType
<1>19. GoodStack(p, m, t, h2)
  BY <1>12, <1>15, <1>17 DEF Grows, GoodStack
<1>20. Good(p, m, t, h2)
  BY <1>18, <1>19 DEF Good
<1> QED BY <1>20 DEF p, m, t

(* A pop.                                                                  *)
LEMMA PopGood ==
    ASSUME StackAssumption, Now, max > 0
    PROVE  Good([slots EXCEPT ![top] = SlotAfterPop], max,
                IF top > 0 THEN top - 1 ELSE 0, FreedFrom({Current} \ {NoBuf}))
<1> DEFINE r == [slots EXCEPT ![top] = NoBuf]
           t == IF top > 0 THEN top - 1 ELSE 0
           h2 == FreedFrom({Current} \ {NoBuf})
<1>1. /\ max \in Nat /\ top \in Nat /\ top < max /\ top \in 0 .. max - 1
      /\ slots \in [0 .. max - 1 -> Buffer \cup {NoBuf}]
      /\ heap \in [Buffer -> HeapType] /\ Current = slots[top]
  BY DEF Now, Good, GoodType, Current
<1>2. r \in [0 .. max - 1 -> Buffer \cup {NoBuf}]
  BY <1>1
<1>3. r[top] = NoBuf /\ \A i \in 0 .. top - 1 : r[i] = slots[i]
  BY <1>1
<1>4. t \in Nat /\ t < max /\ (top > 0 => t = top - 1) /\ (top = 0 => t = 0)
  BY <1>1
<1>5. \A b \in Buffer : b # Current => h2[b] = heap[b]
  BY DEF FreedFrom
<1>6. Current \in Buffer => h2[Current] = "free"
  <2>1. top \in 0 .. top
    BY <1>1
  <2>2. Current \in Buffer => Current # NoBuf /\ heap[Current] = "live"
    BY <1>1, <2>1 DEF Now, Good, GoodStack, StackAssumption
  <2> QED BY <2>2 DEF FreedFrom
<1>7. h2 \in [Buffer -> HeapType]
  BY <1>1 DEF FreedFrom, HeapType
<1> HIDE DEF r, t, h2
<1>8. \A b \in Buffer : h2[b] # "twice"
  BY <1>5, <1>6 DEF Now, Good, GoodStack
<1>9. \A i \in 0 .. top - 1 : r[i] \in Buffer /\ r[i] # NoBuf /\ h2[r[i]] = "live"
  <2> SUFFICES ASSUME NEW i \in 0 .. top - 1
               PROVE  r[i] \in Buffer /\ r[i] # NoBuf /\ h2[r[i]] = "live"
    OBVIOUS
  <2>1. i \in 0 .. top /\ top \in 0 .. top /\ i # top /\ i \in 0 .. max - 1
    BY <1>1
  <2>2. slots[i] # NoBuf /\ slots[i] \in Buffer /\ heap[slots[i]] = "live"
    BY <1>1, <2>1 DEF Now, Good, GoodStack
  <2>3. slots[i] # Current
    BY <1>1, <2>1, <2>2 DEF Now, Good, GoodStack
  <2> QED BY <2>2, <2>3, <1>3, <1>5
<1>10. \A i \in 0 .. t : (i \in 0 .. top - 1) \/ (i = top /\ top = 0)
  BY <1>1, <1>4
<1>11. \A i \in 0 .. t - 1 : i \in 0 .. top - 1
  BY <1>1, <1>4
<1>12. \A i \in 0 .. t : r[i] # NoBuf => h2[r[i]] = "live"
  BY <1>3, <1>9, <1>10
<1>13. \A i, j \in 0 .. top - 1 : r[i] = r[j] => i = j
  <2> SUFFICES ASSUME NEW i \in 0 .. top - 1, NEW j \in 0 .. top - 1, r[i] = r[j] PROVE i = j
    OBVIOUS
  <2>1. i \in 0 .. top /\ j \in 0 .. top
    BY <1>1
  <2> QED BY <2>1, <1>1, <1>3, <1>9 DEF Now, Good, GoodStack
<1>14. \A i, j \in 0 .. t : r[i] # NoBuf /\ r[i] = r[j] => i = j
  BY <1>3, <1>10, <1>13
<1>15. GoodType(r, max, t, h2)
  BY <1>1, <1>2, <1>4, <1>7 DEF GoodType
<1>16. GoodStack(r, max, t, h2)
  BY <1>8, <1>9, <1>11, <1>12, <1>14 DEF GoodStack
<1>17. Good(r, max, t, h2)
  BY <1>15, <1>16 DEF Good
<1> QED BY <1>17 DEF r, t, h2, SlotAfterPop

(* A new buffer only grows the heap.                                       *)
LEMMA NewGrows ==
    ASSUME Now, NEW b, NEW f, NEW o, New(b, f, o)
    PROVE  /\ Grows(heap, heap') /\ b \in Buffer /\ heap'[b] = "live"
           /\ heap[b] # "live"
BY DEF Now, Good, GoodType, GoodStack, New, Grows, HeapType

LEMMA SameGrows == ASSUME Now PROVE Grows(heap, heap)
BY DEF Now, Good, GoodType, GoodStack, Grows

(* yylex_destroy() stops at a slot of the stack: at the top if it is       *)
(* empty, else at the bottom, since no slot in between is.                 *)
LEMMA StopsInside ==
    ASSUME Now, max > 0
    PROVE  StopsAt \in 0 .. top
<1> DEFINE P(t) == /\ t = 0 \/ slots[t] = NoBuf
                   /\ \A i \in t + 1 .. top : slots[i] # NoBuf
<1>1. top \in Nat /\ 0 \in 0 .. top /\ top \in 0 .. top
  BY DEF Now, Good, GoodType
<1>2. CASE slots[top] = NoBuf
  <2>1. P(top)
    BY <1>1, <1>2
  <2> QED BY <1>1, <2>1 DEF StopsAt
<1>3. CASE slots[top] # NoBuf
  <2>1. \A i \in 0 + 1 .. top : i = top \/ i \in 0 .. top - 1
    BY <1>1
  <2>2. P(0)
    BY <1>3, <2>1 DEF Now, Good, GoodStack
  <2> QED BY <1>1, <2>2 DEF StopsAt
<1> QED BY <1>2, <1>3

(* The buffers yylex_destroy() frees are alive, and each is freed once.    *)
LEMMA DestroyGood ==
    ASSUME StackAssumption, Now
    PROVE  /\ FreedFrom({slots[i] : i \in Freed}) \in [Buffer -> HeapType]
           /\ \A b \in Buffer : FreedFrom({slots[i] : i \in Freed})[b] # "twice"
<1>1. heap \in [Buffer -> HeapType] /\ \A b \in Buffer : heap[b] # "twice"
  BY DEF Now, Good, GoodType, GoodStack
<1>2. \A i \in Freed : heap[slots[i]] = "live"
  BY DEF Freed, InUse, Now, Good, GoodStack
<1> QED BY <1>1, <1>2 DEF FreedFrom, HeapType

(* No slot is left after it.                                               *)
LEMMA EmptyStack ==
    ASSUME NEW h, h \in [Buffer -> HeapType], \A b \in Buffer : h[b] # "twice", NEW t \in Nat
    PROVE  Good([i \in {} |-> NoBuf], 0, t, h)
<1>1. [i \in {} |-> NoBuf] \in [0 .. 0 - 1 -> Buffer \cup {NoBuf}]
  <2>1. 0 .. 0 - 1 = {}
    OBVIOUS
  <2> QED BY <2>1
<1> QED BY <1>1 DEF Good, GoodType, GoodStack

-----------------------------------------------------------------------------
(* Every step keeps the stack good.                                        *)
LEMMA StepGood ==
    ASSUME StackAssumption, Careful, Now, [Next]_vars
    PROVE  Now'
<1>1. CASE UNCHANGED <<slots, max, top, heap>>
  BY <1>1 DEF Now
<1>2. ASSUME NEW b \in Buffer, NEW f \in File, CreateBuffer(b, f) PROVE Now'
  <2>1. Grows(heap, heap') /\ UNCHANGED <<slots, max, top>>
    BY <1>2, NewGrows DEF CreateBuffer, stackVars
  <2>2. \A i \in 0 .. top : max > 0 /\ slots[i] # NoBuf => heap'[slots[i]] = "live"
    BY <2>1 DEF Now, Good, GoodStack, GoodType, Grows
  <2>3. Good(slots, max, top, heap')
    BY <2>1, <2>2, HeapChange DEF Now, Grows
  <2> QED BY <2>1, <2>3 DEF Now
<1>3. ASSUME NEW b \in Buffer, DeleteBuffer(b) PROVE Now'
  <2>1. /\ heap' = FreedFrom({b}) /\ UNCHANGED <<slots, max, top>>
        /\ heap[b] = "live" /\ b # Current
        /\ b \notin {slots[i] : i \in InUse \ {top}}
    BY <1>3 DEF DeleteBuffer, Deleted, MayDelete, MayDeleteTop, stackVars, Live
  <2>2. heap \in [Buffer -> HeapType] /\ \A c \in Buffer : heap[c] # "twice"
    BY DEF Now, Good, GoodType, GoodStack
  <2>3. /\ heap' \in [Buffer -> HeapType]
        /\ \A c \in Buffer : heap'[c] # "twice" /\ (c # b => heap'[c] = heap[c])
    BY <2>1, <2>2 DEF FreedFrom, HeapType
  <2>4. ASSUME NEW i \in 0 .. top, max > 0, slots[i] # NoBuf
        PROVE  heap'[slots[i]] = "live"
    <3>1. i \in InUse
      BY <2>4 DEF InUse
    <3>2. slots[i] # b
      BY <2>1, <2>4, <3>1 DEF Current
    <3>3. slots[i] \in Buffer /\ heap[slots[i]] = "live"
      BY <2>4 DEF Now, Good, GoodType, GoodStack
    <3> QED BY <2>3, <3>2, <3>3
  <2>5. Good(slots, max, top, heap')
    BY <2>3, <2>4, HeapChange DEF Now
  <2> QED BY <2>1, <2>5 DEF Now
<1>4. ASSUME NEW b \in Buffer \cup {NoBuf}, SwitchToBuffer(b) PROVE Now'
  <2>1. b \in Buffer => heap[b] = "live"
    <3>1. CASE b = Current
      <4>1. top \in 0 .. top
        BY DEF Now, Good, GoodType
      <4> QED BY <3>1, <4>1 DEF Current, Now, Good, GoodStack, StackAssumption
    <3>2. CASE MayEnter(b)
      BY <3>2 DEF MayEnter, Live, StackAssumption
    <3> QED BY <1>4, <3>1, <3>2 DEF SwitchToBuffer
  <2>2. b = Current \/ b \notin Stacked \/ heap[b] # "live"
    BY <1>4 DEF SwitchToBuffer, MayEnter, Stacked, InUse, Live
  <2>3. Good([EnsuredSlots EXCEPT ![EnsuredTop] = b], EnsuredMax, EnsuredTop, heap)
    BY <2>1, <2>2, Replaced, SameGrows
  <2>4. /\ slots' = [EnsuredSlots EXCEPT ![EnsuredTop] = b]
        /\ max' = EnsuredMax /\ top' = EnsuredTop /\ heap' = heap
    BY <1>4 DEF SwitchToBuffer, bufferVars
  <2> QED BY <2>3, <2>4 DEF Now
<1>5. ASSUME NEW b \in Buffer \cup {NoBuf}, PushBufferState(b) PROVE Now'
  <2>1. /\ b \in Buffer => heap[b] = "live"
        /\ b \notin Stacked \/ heap[b] # "live"
    BY <1>5 DEF PushBufferState, MayEnter, Stacked, InUse, Live, StackAssumption
  <2>2. Good(PushedSlots(b), MaxAfterPush, SlotOfPush, heap)
    BY <2>1, PushGood, SameGrows
  <2>3. /\ slots' = PushedSlots(b) /\ max' = MaxAfterPush
        /\ top' = SlotOfPush /\ heap' = heap
    BY <1>5 DEF PushBufferState, Pushed, bufferVars
  <2> QED BY <2>2, <2>3 DEF Now
<1>6. ASSUME NEW b \in Buffer, NEW o \in BOOLEAN, ScanMemory(b, o) PROVE Now'
  <2>1. Grows(heap, heap') /\ heap'[b] = "live" /\ heap[b] # "live"
    BY <1>6, NewGrows DEF ScanMemory
  <2>2. Good(PushedSlots(b), MaxAfterPush, SlotOfPush, heap')
    BY <2>1, PushGood
  <2>3. slots' = PushedSlots(b) /\ max' = MaxAfterPush /\ top' = SlotOfPush
    BY <1>6 DEF ScanMemory, Pushed
  <2> QED BY <2>2, <2>3 DEF Now
<1>7. CASE PopBufferState
  BY <1>7, PopGood DEF PopBufferState, Deleted, Now
<1>8. ASSUME NEW b \in Buffer, NEW f \in File, Yyrestart(b, f) PROVE Now'
  <2>1. CASE Current = NoBuf /\ New(b, f, TRUE)
    <3>1. Good([EnsuredSlots EXCEPT ![EnsuredTop] = b], EnsuredMax, EnsuredTop, heap')
      BY <2>1, NewGrows, Replaced
    <3> QED BY <1>8, <3>1 DEF Yyrestart, Restarted, Now
  <2>2. CASE b = Current /\ b # NoBuf /\ UNCHANGED heap
    <3>1. heap[b] = "live"
      BY <1>8, <2>2 DEF Yyrestart, Settled, Live
    <3>2. Good([EnsuredSlots EXCEPT ![EnsuredTop] = b], EnsuredMax, EnsuredTop, heap)
      BY <2>2, <3>1, SameGrows, Replaced
    <3> QED BY <1>8, <2>2, <3>2 DEF Yyrestart, Restarted, Now
  <2> QED BY <1>8, <2>1, <2>2 DEF Yyrestart
<1>9. ASSUME NEW b \in Buffer, Call(b) PROVE Now'
  <2>1. CASE Current = NoBuf /\ \E f : New(b, f, TRUE)
    <3>1. Good([EnsuredSlots EXCEPT ![EnsuredTop] = b], EnsuredMax, EnsuredTop, heap')
      BY <2>1, NewGrows, Replaced
    <3> QED BY <1>9, <3>1 DEF Call, Now
  <2>2. CASE b = Current /\ b # NoBuf /\ UNCHANGED heap
    <3>1. heap[b] = "live"
      BY <1>9, <2>2 DEF Call, Settled, Live
    <3>2. Good([EnsuredSlots EXCEPT ![EnsuredTop] = b], EnsuredMax, EnsuredTop, heap)
      BY <2>2, <3>1, SameGrows, Replaced
    <3> QED BY <1>9, <2>2, <3>2 DEF Call, Now
  <2> QED BY <1>9, <2>1, <2>2 DEF Call
<1>10. CASE Destroy
  <2>1. top' \in Nat
    <3>1. top \in Nat
      BY DEF Now, Good, GoodType
    <3>2. max > 0 => StopsAt \in 0 .. top
      BY StopsInside
    <3> QED BY <1>10, <3>1, <3>2 DEF Destroy
  <2>2. slots' = [i \in {} |-> NoBuf] /\ max' = 0
        /\ heap' = FreedFrom({slots[i] : i \in Freed})
    BY <1>10 DEF Destroy, Deleted
  <2>3. Good([i \in {} |-> NoBuf], 0, top', heap')
    BY <2>1, <2>2, DestroyGood, EmptyStack
  <2> QED BY <2>2, <2>3 DEF Now
<1> QED
  BY <1>1, <1>2, <1>3, <1>4, <1>5, <1>6, <1>7, <1>8, <1>9, <1>10
  DEF Next, vars, bufferVars, stackVars, LexInit, InputOrUnput, PushState, PopState,
      AutoRestart, EndOfInput, Match, Found, FallOff, Return

-----------------------------------------------------------------------------
(* The types of what is not the stack.                                     *)

Types == BufferType /\ StateType
IInv == Types /\ Now

LEMMA InvGivesTypes == ASSUME IInv PROVE TypeOK
BY DEF IInv, Now, Good, GoodType, Types, TypeOK, StackType

LEMMA NewTypes ==
    ASSUME StackAssumption, BufferType, NEW b, NEW f \in File \cup {NoFile},
           NEW o \in BOOLEAN, New(b, f, o), window' \in Buffer \cup {NoBuf, Outside}
    PROVE  BufferType' /\ b \in Buffer /\ file'[b] = f
BY DEF New, BufferType, Marks

LEMMA DeletedTypes ==
    ASSUME StackAssumption, BufferType, NEW bs, Deleted(bs),
           window' \in Buffer \cup {NoBuf, Outside}
    PROVE  BufferType'
BY DEF Deleted, FreedFrom, BufferType, Marks

LEMMA UnsealedType ==
    ASSUME BufferType PROVE Unsealed \in [Buffer -> Marks]
BY DEF BufferType, Unsealed, UnsealedMark, Marks

LEMMA WindowWithoutType ==
    ASSUME BufferType, NEW bs PROVE WindowWithout(bs) \in Buffer \cup {NoBuf, Outside}
BY DEF BufferType, WindowWithout

(* yylex_destroy() leaves yyin at the file of the lowest buffer, which is  *)
(* at the bottom of the stack.                                             *)
LEMMA LowestIsBottom ==
    ASSUME StackAssumption, Now, ~reentrant, NEW k \in Freed, k < top
    PROVE  slots[Lowest] \in Buffer
<1>1. /\ max > 0 /\ top \in Nat /\ k \in 0 .. top /\ top < max
      /\ slots[k] # NoBuf /\ StopsAt <= k /\ max \in Nat
      /\ slots \in [0 .. max - 1 -> Buffer \cup {NoBuf}]
  BY DEF Freed, InUse, Now, Good, GoodType
<1>2. StopsAt \in 0 .. top
  BY <1>1, StopsInside
<1>3. StopsAt = 0
  <2> DEFINE P(t) == /\ t = 0 \/ slots[t] = NoBuf
                     /\ \A i \in t + 1 .. top : slots[i] # NoBuf
  <2>1. \E t \in 0 .. top : P(t)
    <3>1. CASE slots[top] = NoBuf
      BY <1>1, <3>1
    <3>2. CASE slots[top] # NoBuf
      <4>1. \A i \in 0 + 1 .. top : i = top \/ i \in 0 .. top - 1
        BY <1>1
      <4>2. P(0)
        BY <1>1, <3>2, <4>1 DEF Now, Good, GoodStack
      <4> QED BY <1>1, <4>2
    <3> QED BY <3>1, <3>2
  <2>2. P(StopsAt)
    BY <2>1 DEF StopsAt
  <2>3. StopsAt \in 0 .. top - 1
    BY <1>1, <1>2
  <2>4. slots[StopsAt] # NoBuf
    BY <1>1, <2>3 DEF Now, Good, GoodStack
  <2> QED BY <2>2, <2>4
<1>4. 0 \in 0 .. top /\ 0 \in 0 .. top - 1
  BY <1>1
<1>5. 0 \in Freed
  BY <1>1, <1>3, <1>4 DEF Freed, InUse, Now, Good, GoodStack
<1>6. \A j \in Freed : 0 <= j /\ j \in 0 .. top /\ slots[j] # NoBuf
  BY <1>1 DEF Freed, InUse
<1>7. Lowest \in Freed
  BY <1>5, <1>6 DEF Lowest
<1>8. Lowest \in 0 .. max - 1 /\ slots[Lowest] # NoBuf
  BY <1>1, <1>6, <1>7
<1> QED BY <1>1, <1>8

(* With a buffer at the top, or a single slot, it stops at the bottom.     *)
LEMMA StopsLow ==
    ASSUME Now, max > 0, Current # NoBuf \/ top = 0
    PROVE  \A i \in 0 .. top : StopsAt <= i
<1>1. StopsAt \in 0 .. top /\ top \in Nat
  BY StopsInside DEF Now, Good, GoodType
<1>2. CASE top = 0
  BY <1>1, <1>2
<1>3. CASE slots[top] # NoBuf
  <2> DEFINE P(t) == /\ t = 0 \/ slots[t] = NoBuf
                     /\ \A i \in t + 1 .. top : slots[i] # NoBuf
  <2>1. \A i \in 0 .. top : i = top \/ i \in 0 .. top - 1
    BY <1>1
  <2>2. \A i \in 0 .. top : slots[i] # NoBuf
    BY <1>3, <2>1 DEF Now, Good, GoodStack
  <2>3. P(0) /\ 0 \in 0 .. top
    BY <1>1, <2>2
  <2>4. P(StopsAt)
    BY <2>3 DEF StopsAt
  <2>5. StopsAt = 0
    BY <1>1, <2>2, <2>4
  <2> QED BY <2>5
<1> QED BY <1>2, <1>3 DEF Current

LEMMA StepTypes ==
    ASSUME StackAssumption, IInv, [Next]_vars
    PROVE  Types'
<1> USE DEF IInv, setting
<1>1. Current \in Buffer \cup {NoBuf}
  BY EnsuredGood
<1>2. CASE UNCHANGED vars
  BY <1>2 DEF vars, bufferVars, stateVars, Types, BufferType, StateType
<1>3. CASE LexInit
  BY <1>3 DEF LexInit, bufferVars, stateVars, Types, BufferType, StateType, Place
<1>4. ASSUME NEW b \in Buffer, NEW f \in File, CreateBuffer(b, f) PROVE Types'
  <2>1. BufferType'
    BY <1>4, NewTypes DEF CreateBuffer, Types, BufferType
  <2> QED BY <1>4, <2>1 DEF CreateBuffer, stateVars, Types, StateType
<1>5. ASSUME NEW b \in Buffer, DeleteBuffer(b) PROVE Types'
  <2>1. BufferType'
    BY <1>5, DeletedTypes, WindowWithoutType DEF DeleteBuffer, Types
  <2> QED BY <1>5, <2>1 DEF DeleteBuffer, stateVars, Types, StateType
<1>6. ASSUME NEW b \in Buffer \cup {NoBuf}, SwitchToBuffer(b) PROVE Types'
  BY <1>6 DEF SwitchToBuffer, bufferVars, stateVars, Types, BufferType, StateType
<1>7. ASSUME NEW b \in Buffer \cup {NoBuf}, PushBufferState(b) PROVE Types'
  BY <1>7 DEF PushBufferState, Pushed, bufferVars, stateVars, Types, BufferType, StateType
<1>8. ASSUME NEW b \in Buffer, NEW o \in BOOLEAN, ScanMemory(b, o) PROVE Types'
  <2>1. BufferType' /\ file'[b] = NoFile
    BY <1>8, NewTypes DEF ScanMemory, Types, BufferType
  <2> QED BY <1>8, <2>1 DEF ScanMemory, Pushed, stateVars, Types, StateType
<1>9. CASE PopBufferState
  <2>1. BufferType'
    BY <1>9, DeletedTypes, WindowWithoutType DEF PopBufferState, Types
  <2>2. YyinAfterPop \in File \cup {NoFile}
    <3>1. top > 0 => top - 1 \in 0 .. max - 1
      BY <1>9 DEF PopBufferState, Now, Good, GoodType
    <3> QED BY <3>1 DEF YyinAfterPop, Now, Good, GoodType, Types, BufferType, StateType
  <2> QED BY <1>9, <2>1, <2>2 DEF PopBufferState, stateVars, Types, StateType
<1>10. ASSUME NEW b \in Buffer, NEW f \in File, Yyrestart(b, f) PROVE Types'
  <2>1. BufferType'
    <3>1. CASE New(b, f, TRUE)
      BY <1>10, <3>1, NewTypes DEF Yyrestart, Restarted, Types
    <3>2. CASE /\ file' = [file EXCEPT ![b] = f]
               /\ mark' = [mark EXCEPT ![b] = "clean"]
               /\ UNCHANGED <<heap, own>>
      BY <1>10, <3>2 DEF Yyrestart, Restarted, Types, BufferType, Marks
    <3> QED BY <1>10, <3>1, <3>2 DEF Yyrestart
  <2> QED BY <1>10, <2>1 DEF Yyrestart, Restarted, stateVars, Types, StateType
<1>11. CASE InputOrUnput
  BY <1>11, UnsealedType DEF InputOrUnput, stateVars, Types, BufferType, StateType
<1>12. CASE PushState
  <2>1. StateRoom \in Nat
    BY DEF StateRoom, Types, StateType, StackAssumption
  <2> QED BY <1>12, <2>1 DEF PushState, bufferVars, Types, BufferType, StateType
<1>13. CASE PopState
  <2>1. depth \in Nat /\ depth > 0 /\ depth' = depth - 1
    BY <1>13 DEF PopState, Types, StateType
  <2>2. depth - 1 \in Nat
    BY <2>1
  <2> QED BY <1>13, <2>1, <2>2 DEF PopState, bufferVars, Types, BufferType, StateType
<1>14. ASSUME NEW b \in Buffer, Call(b) PROVE Types'
  <2> DEFINE f == IF yyin = NoFile THEN Stdin ELSE yyin
  <2>1. f \in File
    BY DEF Types, StateType, StackAssumption
  <2>2. BufferType'
    <3>1. CASE New(b, f, TRUE)
      BY <1>14, <2>1, <3>1, NewTypes DEF Call, Types, BufferType
    <3>2. CASE UNCHANGED <<heap, own, file, mark>>
      BY <1>14, <3>2 DEF Call, Types, BufferType
    <3> QED BY <1>14, <3>1, <3>2 DEF Call
  <2> QED BY <1>14, <2>1, <2>2 DEF Call, stateVars, Types, StateType, Place
<1>15. CASE AutoRestart
  <2>1. Unsealed \in [Buffer -> Marks]
    BY UnsealedType DEF Types
  <2> QED BY <1>15, <2>1 DEF AutoRestart, stateVars, Types, BufferType, StateType, Marks
<1>16. ASSUME NEW m \in Marks, NEW p \in Place, Found(m, p) PROVE Types'
  <2>1. Unsealed \in [Buffer -> Marks]
    BY UnsealedType DEF Types
  <2> QED BY <1>1, <1>16, <2>1 DEF Found, stateVars, Types, BufferType, StateType
<1>17. CASE EndOfInput
  BY <1>16, <1>17 DEF EndOfInput, Marks, Place
<1>18. CASE Match
  BY <1>16, <1>18 DEF Match, Marks, Place
<1>19. CASE FallOff
  BY <1>19 DEF FallOff, bufferVars, stateVars, Types, BufferType, StateType, Place
<1>20. CASE Return
  BY <1>20 DEF Return, bufferVars, stateVars, Types, BufferType, StateType, Place
<1>21. CASE Destroy
  <2>1. BufferType'
    <3>1. WindowWithout({slots[i] : i \in Freed}) \in Buffer \cup {NoBuf, Outside}
      BY WindowWithoutType DEF Types
    <3> QED BY <1>21, <3>1, DeletedTypes DEF Destroy, Types
  <2>2. yyin' \in File \cup {NoFile}
    BY <1>21, LowestIsBottom DEF Destroy, Types, BufferType, StateType
  <2>3. room' \in Nat /\ depth' \in Nat
    BY <1>21 DEF Destroy, Types, StateType
  <2>4. pc' \in Place
    BY <1>21 DEF Destroy, Types, StateType, Place
  <2>5. {allocated', initDone', reentrant', tidy'} \subseteq BOOLEAN
    BY <1>21 DEF Destroy, Types, StateType
  <2> QED BY <2>1, <2>2, <2>3, <2>4, <2>5 DEF Types, StateType
<1> QED
  BY <1>2, <1>3, <1>4, <1>5, <1>6, <1>7, <1>8, <1>9, <1>10, <1>11, <1>12, <1>13,
     <1>14, <1>15, <1>17, <1>18, <1>19, <1>20, <1>21 DEF Next

LEMMA InitInv == ASSUME StackAssumption, Init PROVE IInv
<1>1. heap = [b \in Buffer |-> "free"]
  BY DEF Init
<1>2. Good([i \in {} |-> NoBuf], 0, 0, heap)
  BY <1>1, EmptyStack DEF HeapType
<1>3. Now
  BY <1>2 DEF Init, GutsClear, Now
<1>4. Types
  BY DEF Init, GutsClear, Types, BufferType, StateType, Marks, Place
<1> QED BY <1>3, <1>4 DEF IInv

(* The stack is good in every state that a careful program reaches.        *)
THEOREM Invariance == ASSUME Careful PROVE Spec => []IInv
<1>1. Init => IInv
  BY InitInv, StackAssumption
<1>2. IInv /\ [Next]_vars => IInv'
  BY StackAssumption, StepTypes, StepGood DEF IInv
<1> QED BY <1>1, <1>2, PTL DEF Spec

(* TypeOK: the top of the stack is always one of its slots.                *)
THEOREM TypeCorrect == ASSUME Careful PROVE Spec => []TypeOK
<1>1. IInv => TypeOK
  BY InvGivesTypes
<1> QED BY <1>1, Invariance, PTL

(* FreedOnce: yypop_buffer_state(), yy_delete_buffer() and yylex_destroy() *)
(* never free a buffer a second time.                                      *)
THEOREM NoDoubleFree == ASSUME Careful PROVE Spec => []FreedOnce
<1>1. IInv => FreedOnce
  BY DEF IInv, Now, Good, GoodStack, FreedOnce
<1> QED BY <1>1, Invariance, PTL

(* StackedLive: what yypop_buffer_state() uncovers is a live buffer that   *)
(* is in no other slot.                                                    *)
THEOREM StackSound == ASSUME Careful PROVE Spec => []StackedLive
<1>1. IInv => StackedLive
  <2>1. ASSUME IInv, NEW i \in InUse PROVE heap[slots[i]] = "live"
    BY <2>1 DEF IInv, Now, Good, GoodStack, InUse
  <2>2. ASSUME IInv, NEW i \in InUse, NEW j \in InUse, slots[i] = slots[j] PROVE i = j
    BY <2>2 DEF IInv, Now, Good, GoodStack, InUse
  <2> QED BY <2>1, <2>2 DEF StackedLive, Stacked
<1> QED BY <1>1, Invariance, PTL

(* OnlyTopEmpty: the loop of yylex_destroy() that pops until the current   *)
(* buffer is null passes over every slot below one in use.                 *)
THEOREM NoGaps == ASSUME Careful PROVE Spec => []OnlyTopEmpty
<1>1. IInv => OnlyTopEmpty
  <2>1. ASSUME IInv, NEW i \in 0 .. top - 1, max > 0 PROVE i \in InUse
    BY <2>1 DEF IInv, Now, Good, GoodType, GoodStack, InUse
  <2> QED BY <2>1 DEF OnlyTopEmpty
<1> QED BY <1>1, Invariance, PTL

(* DestroyFreesStack: yylex_destroy() leaks no buffer that is on the stack *)
(* when it is called.                                                      *)
THEOREM NothingLeaked == ASSUME Careful PROVE Spec => DestroyFreesStack
<1>1. ASSUME IInv, [Next]_vars, Destroyed, NEW b \in Stacked PROVE heap'[b] = "free"
  <2>1. Destroy
    <3>1. max' = 0 /\ max \in Nat /\ max > 0
      BY <1>1 DEF Destroyed, IInv, Now, Good, GoodType
    <3>2. EnsuredMax > 0 /\ EnsuredMax \in Nat
      BY <1>1, StackAssumption, EnsuredGood DEF IInv, Good, GoodType
    <3>3. MaxAfterPush > 0
      BY <3>1, <3>2 DEF MaxAfterPush, Doubled
    <3>4. max' # EnsuredMax /\ max' # MaxAfterPush /\ max' # max
      BY <3>1, <3>2, <3>3
    <3> QED
      BY <1>1, <3>4
      DEF Next, vars, bufferVars, stackVars, LexInit, CreateBuffer, DeleteBuffer,
          SwitchToBuffer, PushBufferState, Pushed, ScanMemory, PopBufferState, Yyrestart,
          Restarted, InputOrUnput, PushState, PopState, Call, AutoRestart, EndOfInput,
          Match, Found, FallOff, Return
  <2>2. heap' = FreedFrom({slots[i] : i \in Freed})
    BY <2>1 DEF Destroy, Deleted
  <2>3. PICK i \in InUse : slots[i] = b
    BY <1>1 DEF Stacked
  <2>4. b \in Buffer /\ heap[b] = "live" /\ i \in 0 .. top /\ max > 0 /\ slots[i] # NoBuf
    BY <1>1, <2>3 DEF IInv, Now, Good, GoodType, GoodStack, InUse
  <2>5. i \in Freed
    <3>1. CASE reentrant
      BY <2>3, <3>1 DEF Freed
    <3>2. CASE ~reentrant
      BY <1>1, <2>1, <2>3, <2>4, <3>2, StopsLow DEF Freed, IInv, Destroy, MayDestroy
    <3> QED BY <3>1, <3>2 DEF IInv, Types, StateType
  <2> QED BY <2>2, <2>3, <2>4, <2>5 DEF FreedFrom
<1>2. IInv /\ [Next]_vars => [Destroyed => \A b \in Stacked : heap'[b] = "free"]_vars
  BY <1>1
<1> QED BY <1>2, Invariance, PTL DEF Spec, DestroyFreesStack

-----------------------------------------------------------------------------
(* The seal.  BuffersIntact alone is not inductive: unsealing is right     *)
(* only if the buffer yytext lies in is the one that was sealed.  So the   *)
(* seal and yytext go together: of the live buffers, exactly the one       *)
(* yytext lies in is sealed or ended.                                      *)
SealsPlaced ==
    \A b \in Buffer : heap[b] = "live" =>
        /\ mark[b] \notin {"wrong", "stray"}
        /\ mark[b] \in {"sealed", "ended"} <=> window = b

(* In a tidy program yytext lies in memory that is alive, so unsealing     *)
(* never writes into memory that was freed.                                *)
TidyKept ==
    tidy => \A b \in Buffer : (window = b => heap[b] = "live") /\ mark[b] # "stray"

(* Unsealing then leaves every live buffer as it was read.                 *)
LEMMA UnsealedClean ==
    ASSUME BufferType, SealsPlaced, NEW b \in Buffer, heap[b] = "live"
    PROVE  Unsealed[b] = "clean"
<1>1. mark[b] \in {"clean", "sealed", "ended"} /\ mark \in [Buffer -> Marks]
  BY DEF BufferType, SealsPlaced, Marks
<1>2. CASE window = b
  <2>1. mark[b] \in {"sealed", "ended"}
    BY <1>2 DEF SealsPlaced
  <2> QED BY <1>1, <1>2, <2>1 DEF Unsealed, UnsealedMark
<1>3. CASE window # b
  <2>1. mark[b] = "clean"
    BY <1>1, <1>3 DEF SealsPlaced
  <2> QED BY <1>1, <1>3, <2>1 DEF Unsealed
<1> QED BY <1>2, <1>3

(* A new buffer is clean, and yytext does not lie where it is put.         *)
LEMMA NewSeals ==
    ASSUME Careful, BufferType, SealsPlaced, NEW b, NEW f, NEW o, New(b, f, o),
           MayCreate, window' = window
    PROVE  SealsPlaced'
<1>1. b \in Buffer /\ heap[b] = "free" /\ window # b
  BY DEF New, MayCreate, Dangling, Live
<1>2. ASSUME NEW c \in Buffer, heap'[c] = "live"
      PROVE  /\ mark'[c] \notin {"wrong", "stray"}
             /\ mark'[c] \in {"sealed", "ended"} <=> window' = c
  <2>1. CASE c = b
    BY <1>1, <2>1 DEF New, BufferType
  <2>2. CASE c # b
    BY <1>1, <1>2, <2>2 DEF New, BufferType, SealsPlaced
  <2> QED BY <2>1, <2>2
<1> QED BY <1>2 DEF SealsPlaced

(* A freed buffer takes its seal with it.                                  *)
LEMMA DeletedSeals ==
    ASSUME StackAssumption, BufferType, SealsPlaced, NEW bs, Deleted(bs),
           \A b \in Buffer \ bs : heap[b] = "live" => (window' = b <=> window = b)
    PROVE  SealsPlaced'
<1>1. ASSUME NEW c \in Buffer, heap'[c] = "live"
      PROVE  c \notin bs /\ heap[c] = "live" /\ mark'[c] = mark[c]
  BY <1>1 DEF Deleted, FreedFrom, BufferType
<1> QED BY <1>1 DEF SealsPlaced

LEMMA WindowKept ==
    ASSUME StackAssumption, BufferType, NEW bs, NEW b \in Buffer \ bs
    PROVE  WindowWithout(bs) = b <=> window = b
BY DEF WindowWithout, StackAssumption

(* The current buffer, if there is one, is alive.                          *)
LEMMA CurrentLive ==
    ASSUME StackAssumption, Now
    PROVE  Current \in Buffer \cup {NoBuf} /\ (Current \in Buffer => heap[Current] = "live")
<1>1. Current \in Buffer \cup {NoBuf}
  BY EnsuredGood
<1>2. max > 0 => top \in 0 .. top
  BY DEF Now, Good, GoodType
<1> QED BY <1>1, <1>2 DEF Current, Now, Good, GoodStack, StackAssumption

(* yyin.  The loop restarts from yyin without a look at the buffer, so     *)
(* yyin must be right whenever yylex() may be entered: after every call    *)
(* that changes the current buffer it is that buffer's file, if it has     *)
(* one.                                                                    *)
FollowsFile == Current \in Buffer => file[Current] \in {NoFile, yyin}
LoopHasBuffer == pc = "loop" => Current \in Buffer

(* What becomes the current buffer.                                        *)
LEMMA ReplacedCurrent ==
    ASSUME StackAssumption, Now, NEW b,
           slots' = [EnsuredSlots EXCEPT ![EnsuredTop] = b],
           max' = EnsuredMax, top' = EnsuredTop
    PROVE  Current' = b
<1>1. EnsuredMax > 0 /\ EnsuredTop \in DOMAIN EnsuredSlots
  BY EnsuredGood DEF Good, GoodType
<1> QED BY <1>1 DEF Current

LEMMA PushedCurrent ==
    ASSUME StackAssumption, Now, NEW b \in Buffer \cup {NoBuf}, Pushed(b), Now'
    PROVE  Current' = b
<1>1. EnsuredMax \in Nat /\ EnsuredMax > 0 /\ max \in Nat
  BY EnsuredGood DEF Good, GoodType, Now
<1>2. EnsuredTop \in Nat /\ EnsuredTop < EnsuredMax
  BY EnsuredGood DEF Good, GoodType
<1>3. Current # NoBuf => max > 0
  BY DEF Current
<1>4. MaxAfterPush > 0
  <2>1. CASE SlotOfPush >= EnsuredMax
    <3>1. max > 0
      BY <1>1, <1>2, <1>3, <2>1 DEF SlotOfPush
    <3> QED BY <1>1, <2>1, <3>1 DEF MaxAfterPush, Doubled
  <2>2. CASE ~(SlotOfPush >= EnsuredMax)
    BY <1>1, <2>2 DEF MaxAfterPush
  <2> QED BY <2>1, <2>2
<1>5. max' > 0 /\ slots' = PushedSlots(b) /\ top' = SlotOfPush /\ max' = MaxAfterPush
  BY <1>4 DEF Pushed
<1>6. SlotOfPush \in 0 .. MaxAfterPush - 1
  BY <1>5 DEF Now, Good, GoodType
<1>7. PushedSlots(b)[SlotOfPush] = b
  BY <1>6 DEF PushedSlots
<1> QED BY <1>5, <1>7 DEF Current

LEMMA SameCurrent == ASSUME UNCHANGED <<slots, max, top>> PROVE Current' = Current
BY DEF Current

(* The full invariant.                                                     *)
StatesFit == depth <= room
Full == IInv /\ SealsPlaced /\ TidyKept /\ FollowsFile /\ LoopHasBuffer /\ StatesFit

-----------------------------------------------------------------------------
LEMMA StepSeals ==
    ASSUME StackAssumption, Careful, Full, [Next]_vars
    PROVE  SealsPlaced'
<1>1. BufferType /\ SealsPlaced /\ Now
  BY DEF Full, IInv, Types
<1>2. CASE UNCHANGED <<heap, mark, window>>
  BY <1>1, <1>2 DEF SealsPlaced
<1>3. ASSUME NEW b \in Buffer, NEW f \in File, CreateBuffer(b, f) PROVE SealsPlaced'
  BY <1>1, <1>3, NewSeals DEF CreateBuffer
<1>4. ASSUME NEW b \in Buffer, DeleteBuffer(b) PROVE SealsPlaced'
  BY <1>1, <1>4, DeletedSeals, WindowKept DEF DeleteBuffer
<1>5. ASSUME NEW b \in Buffer, NEW o \in BOOLEAN, ScanMemory(b, o) PROVE SealsPlaced'
  BY <1>1, <1>5, NewSeals DEF ScanMemory
<1>6. CASE PopBufferState
  BY <1>1, <1>6, DeletedSeals, WindowKept DEF PopBufferState
<1>7. ASSUME NEW b \in Buffer, NEW f \in File, Yyrestart(b, f) PROVE SealsPlaced'
  <2>1. window' = NoBuf /\ NoBuf \notin Buffer
    BY <1>7 DEF Yyrestart, Restarted, StackAssumption
  <2>2. \A c \in Buffer : heap[c] = "live" /\ c # Current => window # c
    BY <1>7 DEF Yyrestart, MayRestart, Dangling, Live, StackAssumption
  <2>3. ASSUME NEW c \in Buffer, heap'[c] = "live" PROVE mark'[c] = "clean"
    <3>1. c = b => mark'[c] = "clean"
      BY <1>1, <1>7 DEF Yyrestart, New, BufferType
    <3>2. c # b => mark'[c] = mark[c] /\ heap[c] = "live" /\ c # Current
      BY <1>1, <1>7, <2>1, <2>3 DEF Yyrestart, New, BufferType
    <3>3. c # b => mark[c] = "clean"
      BY <1>1, <2>2, <3>2 DEF SealsPlaced, BufferType, Marks
    <3> QED BY <3>1, <3>2, <3>3
  <2> QED BY <2>1, <2>3 DEF SealsPlaced
<1>8. ASSUME NEW b \in Buffer, Call(b) PROVE SealsPlaced'
  <2>1. CASE UNCHANGED <<heap, own, file, mark>>
    BY <1>2, <1>8, <2>1 DEF Call
  <2>2. CASE MayCreate /\ \E f : New(b, f, TRUE)
    BY <1>1, <1>8, <2>2, NewSeals DEF Call
  <2> QED BY <1>8, <2>1, <2>2 DEF Call
<1>9. CASE InputOrUnput
  <2>1. mark' = Unsealed /\ window' = NoBuf /\ heap' = heap
    BY <1>9 DEF InputOrUnput
  <2> QED BY <1>1, <2>1, UnsealedClean DEF SealsPlaced, StackAssumption
<1>10. CASE AutoRestart
  <2>1. /\ mark' = [Unsealed EXCEPT ![Current] = "clean"]
        /\ window' = NoBuf /\ heap' = heap /\ Unsealed \in [Buffer -> Marks]
    BY <1>1, <1>10, UnsealedType DEF AutoRestart
  <2>2. \A c \in Buffer : heap[c] = "live" => mark'[c] = "clean"
    BY <1>1, <2>1, UnsealedClean
  <2> QED BY <2>1, <2>2 DEF SealsPlaced, StackAssumption
<1>11. ASSUME NEW m \in {"sealed", "ended"}, NEW p, Found(m, p) PROVE SealsPlaced'
  <2>1. Current \in Buffer /\ heap[Current] = "live"
    BY <1>1, <1>11, CurrentLive DEF Found, Full, LoopHasBuffer
  <2>2. /\ mark' = [Unsealed EXCEPT ![Current] = IF @ = "wrong" THEN @ ELSE m]
        /\ window' = Current /\ heap' = heap /\ Unsealed \in [Buffer -> Marks]
    BY <1>1, <1>11, UnsealedType DEF Found
  <2>3. mark'[Current] = m
    BY <1>1, <2>1, <2>2, UnsealedClean
  <2>4. \A c \in Buffer : heap[c] = "live" /\ c # Current => mark'[c] = "clean"
    BY <1>1, <2>2, UnsealedClean
  <2> QED BY <2>1, <2>2, <2>3, <2>4 DEF SealsPlaced
<1>12. CASE Destroy
  <2> DEFINE bs == {slots[i] : i \in Freed}
  <2>1. Deleted(bs)
    BY <1>12 DEF Destroy
  <2>2. CASE ~reentrant
    BY <1>1, <1>12, <2>1, <2>2, DeletedSeals, WindowKept DEF Destroy
  <2>3. CASE reentrant
    <3>1. ASSUME NEW b \in Buffer \ bs, heap[b] = "live" PROVE window # b
      <4>1. b \notin Stacked
        BY <2>3, <3>1 DEF Stacked, Freed
      <4> QED BY <1>12, <2>3, <3>1, <4>1 DEF Destroy, MayDestroy, Live
    <3>2. window' = NoBuf
      BY <1>12, <2>3 DEF Destroy
    <3> QED BY <1>1, <2>1, <3>1, <3>2, DeletedSeals DEF StackAssumption
  <2> QED BY <2>2, <2>3
<1> QED
  BY <1>2, <1>3, <1>4, <1>5, <1>6, <1>7, <1>8, <1>9, <1>10, <1>11, <1>12
  DEF Next, vars, bufferVars, LexInit, SwitchToBuffer, PushBufferState, PushState,
      PopState, EndOfInput, Match, FallOff, Return

(* Freeing buffers that a tidy program may give up.                        *)
LEMMA GivenUp ==
    ASSUME StackAssumption, BufferType, TidyKept, tidy' = tidy, NEW bs, Deleted(bs), MayGiveUp(bs),
           window' = WindowWithout(bs)
    PROVE  TidyKept'
<1> SUFFICES ASSUME tidy, NEW b \in Buffer
             PROVE  (window' = b => heap'[b] = "live") /\ mark'[b] # "stray"
  BY DEF TidyKept
<1>1. mark'[b] # "stray"
  BY DEF Deleted, TidyKept
<1>2. ASSUME window' = b PROVE heap'[b] = "live"
  <2>1. window = b /\ b \notin bs
    BY <1>2 DEF WindowWithout, MayGiveUp, StackAssumption
  <2> QED BY <2>1 DEF Deleted, FreedFrom, TidyKept
<1> QED BY <1>1, <1>2

LEMMA StepTidy ==
    ASSUME StackAssumption, Careful, Full, [Next]_vars
    PROVE  TidyKept'
<1>1. BufferType /\ SealsPlaced /\ TidyKept /\ Now
  BY DEF Full, IInv, Types
<1>2. tidy' = tidy
  BY DEF Next, vars, setting, LexInit, CreateBuffer, DeleteBuffer, SwitchToBuffer,
         PushBufferState, ScanMemory, PopBufferState, Yyrestart, InputOrUnput, PushState,
         PopState, Call, AutoRestart, EndOfInput, Match, Found, FallOff, Return, Destroy
<1>3. CASE UNCHANGED <<heap, mark, window>>
  BY <1>1, <1>2, <1>3 DEF TidyKept
<1>4. ASSUME NEW b, NEW f, NEW o, New(b, f, o), window' = window PROVE TidyKept'
  BY <1>1, <1>2, <1>4 DEF New, TidyKept, BufferType
<1>5. ASSUME NEW b \in Buffer, DeleteBuffer(b) PROVE TidyKept'
  BY <1>1, <1>2, <1>5, GivenUp DEF DeleteBuffer
<1>6. CASE PopBufferState
  BY <1>1, <1>2, <1>6, GivenUp DEF PopBufferState
<1>7. ASSUME NEW b \in Buffer, NEW f \in File, Yyrestart(b, f) PROVE TidyKept'
  <2>1. window' = NoBuf
    BY <1>7 DEF Yyrestart, Restarted
  <2>2. tidy => \A c \in Buffer : mark'[c] # "stray"
    BY <1>1, <1>7 DEF Yyrestart, New, TidyKept, BufferType
  <2> QED BY <1>2, <2>1, <2>2 DEF TidyKept, StackAssumption
<1>8. ASSUME NEW b \in Buffer, Call(b) PROVE TidyKept'
  <2>1. window' = window
    BY <1>8 DEF Call
  <2>2. CASE UNCHANGED <<heap, own, file, mark>>
    BY <1>3, <2>1, <2>2
  <2>3. CASE \E f : New(b, f, TRUE)
    BY <1>4, <2>1, <2>3
  <2> QED BY <1>8, <2>2, <2>3 DEF Call
<1>9. tidy => \A c \in Buffer : Unsealed[c] # "stray"
  BY <1>1 DEF TidyKept, Unsealed, UnsealedMark, BufferType
<1>10. CASE InputOrUnput
  BY <1>2, <1>9, <1>10 DEF InputOrUnput, TidyKept, StackAssumption
<1>11. Unsealed \in [Buffer -> Marks]
  BY <1>1, UnsealedType
<1>12. CASE AutoRestart
  <2>1. window' = NoBuf /\ mark' = [Unsealed EXCEPT ![Current] = "clean"]
    BY <1>12 DEF AutoRestart
  <2> QED BY <1>2, <1>9, <1>11, <2>1 DEF TidyKept, StackAssumption
<1>13. ASSUME NEW m \in {"sealed", "ended"}, NEW p, Found(m, p) PROVE TidyKept'
  <2>1. Current \in Buffer /\ heap[Current] = "live"
    BY <1>1, <1>13, CurrentLive DEF Found, Full, LoopHasBuffer
  <2>2. /\ mark' = [Unsealed EXCEPT ![Current] = IF @ = "wrong" THEN @ ELSE m]
        /\ window' = Current /\ heap' = heap
    BY <1>13 DEF Found
  <2>3. tidy => \A c \in Buffer : mark'[c] # "stray"
    BY <1>9, <1>11, <2>2
  <2> QED BY <1>2, <2>1, <2>2, <2>3 DEF TidyKept
<1>14. CASE Destroy
  <2>1. CASE ~reentrant
    BY <1>1, <1>2, <1>14, <2>1, GivenUp DEF Destroy
  <2>2. CASE reentrant
    <3>1. window' = NoBuf /\ \A c \in Buffer : mark'[c] \in {"clean", mark[c]}
      BY <1>14, <2>2 DEF Destroy, Deleted
    <3> QED BY <1>1, <1>2, <3>1 DEF TidyKept, StackAssumption
  <2> QED BY <2>1, <2>2
<1> QED
  BY <1>3, <1>4, <1>5, <1>6, <1>7, <1>8, <1>10, <1>12, <1>13, <1>14
  DEF Next, vars, bufferVars, LexInit, CreateBuffer, SwitchToBuffer, PushBufferState,
      ScanMemory, PushState, PopState, EndOfInput, Match, FallOff, Return

LEMMA StepFollows ==
    ASSUME StackAssumption, Careful, Full, [Next]_vars
    PROVE  FollowsFile' /\ LoopHasBuffer'
<1>1. BufferType /\ Now /\ FollowsFile /\ LoopHasBuffer /\ Now'
  BY StepGood DEF Full, IInv, Types
<1>2. Current \in Buffer \cup {NoBuf} /\ (Current \in Buffer => heap[Current] = "live")
  BY <1>1, CurrentLive
<1>3. CASE UNCHANGED <<slots, max, top, file, yyin>> /\ (pc' = "loop" => Current # NoBuf)
  BY <1>1, <1>2, <1>3, SameCurrent DEF FollowsFile, LoopHasBuffer
<1>4. ASSUME NEW b \in Buffer, NEW f \in File, CreateBuffer(b, f)
      PROVE  FollowsFile' /\ LoopHasBuffer'
  <2>1. Current' = Current /\ yyin' = yyin /\ pc' # "loop"
    BY <1>4, SameCurrent DEF CreateBuffer, UserCode, stackVars
  <2>2. Current # b /\ file' = [file EXCEPT ![b] = f]
    BY <1>2, <1>4 DEF CreateBuffer, New
  <2> QED BY <1>1, <2>1, <2>2 DEF FollowsFile, LoopHasBuffer, BufferType
<1>5. ASSUME NEW b \in Buffer, DeleteBuffer(b) PROVE FollowsFile' /\ LoopHasBuffer'
  <2>1. Current' = Current /\ yyin' = yyin /\ pc' # "loop"
    BY <1>5, SameCurrent DEF DeleteBuffer, UserCode, stackVars
  <2>2. \A c \in Buffer : file'[c] \in {NoFile, file[c]}
    BY <1>1, <1>5 DEF DeleteBuffer, Deleted
  <2> QED BY <1>1, <2>1, <2>2 DEF FollowsFile, LoopHasBuffer
<1>6. ASSUME NEW b \in Buffer \cup {NoBuf}, SwitchToBuffer(b)
      PROVE  FollowsFile' /\ LoopHasBuffer'
  <2>1. Current' = b /\ pc' # "loop"
    BY <1>1, <1>6, ReplacedCurrent DEF SwitchToBuffer, UserCode
  <2>2. file' = file /\ yyin' = IF b \in {NoBuf, Current} THEN yyin ELSE file[b]
    BY <1>6 DEF SwitchToBuffer, bufferVars
  <2> QED BY <1>1, <2>1, <2>2 DEF FollowsFile, LoopHasBuffer, StackAssumption
<1>7. ASSUME NEW b \in Buffer \cup {NoBuf}, UserCode, pc' = pc, Pushed(b)
      PROVE  FollowsFile' /\ LoopHasBuffer'
  <2>1. Current' = b /\ pc' # "loop"
    BY <1>1, <1>7, PushedCurrent DEF UserCode
  <2>2. b \in Buffer => yyin' = file'[b]
    BY <1>7 DEF Pushed, StackAssumption
  <2> QED BY <2>1, <2>2 DEF FollowsFile, LoopHasBuffer
<1>8. CASE PopBufferState
  <2>1. /\ pc' # "loop" /\ max' = max /\ max \in Nat /\ max > 0 /\ top \in Nat
        /\ top \in 0 .. max - 1 /\ top' = (IF top > 0 THEN top - 1 ELSE 0)
        /\ slots \in [0 .. max - 1 -> Buffer \cup {NoBuf}]
        /\ slots' = [slots EXCEPT ![top] = NoBuf] /\ yyin' = YyinAfterPop
    BY <1>1, <1>8 DEF PopBufferState, UserCode, SlotAfterPop, Now, Good, GoodType
  <2>2. \A c \in Buffer : file'[c] \in {NoFile, file[c]}
    BY <1>1, <1>8 DEF PopBufferState, Deleted
  <2>3. CASE top = 0
    <3>1. Current' = NoBuf
      BY <2>1, <2>3 DEF Current
    <3> QED BY <2>1, <3>1 DEF FollowsFile, LoopHasBuffer, StackAssumption
  <2>4. CASE top # 0
    <3>1. top > 0 /\ top - 1 \in 0 .. top - 1 /\ top - 1 \in 0 .. max - 1 /\ top - 1 # top
      BY <2>1, <2>4
    <3>2. slots[top - 1] # NoBuf
      BY <1>1, <2>1, <3>1 DEF Now, Good, GoodStack
    <3>3. Current' = slots[top - 1] /\ yyin' = file[slots[top - 1]]
      BY <2>1, <3>1, <3>2 DEF Current, YyinAfterPop
    <3> QED BY <2>1, <2>2, <3>3 DEF FollowsFile, LoopHasBuffer
  <2> QED BY <2>3, <2>4
<1>9. ASSUME NEW b \in Buffer, NEW f \in File, Yyrestart(b, f)
      PROVE  FollowsFile' /\ LoopHasBuffer'
  <2>1. Current' = b /\ pc' # "loop" /\ yyin' = f
    BY <1>1, <1>9, ReplacedCurrent DEF Yyrestart, Restarted, UserCode
  <2>2. file'[b] = f
    BY <1>1, <1>9 DEF Yyrestart, New, BufferType
  <2> QED BY <2>1, <2>2 DEF FollowsFile, LoopHasBuffer
<1>10. ASSUME NEW b \in Buffer, Call(b) PROVE FollowsFile' /\ LoopHasBuffer'
  <2> DEFINE f == IF yyin = NoFile THEN Stdin ELSE yyin
  <2>1. Current' = b /\ yyin' = f
    BY <1>1, <1>10, ReplacedCurrent DEF Call
  <2>2. CASE New(b, f, TRUE)
    <3>1. file'[b] = f
      BY <1>1, <2>2 DEF New, BufferType
    <3> QED BY <2>1, <3>1 DEF FollowsFile, LoopHasBuffer
  <2>3. CASE b = Current /\ file' = file
    <3>1. file[b] \in {NoFile, f}
      BY <1>1, <2>3 DEF FollowsFile
    <3> QED BY <2>1, <2>3, <3>1 DEF FollowsFile, LoopHasBuffer
  <2> QED BY <1>10, <2>2, <2>3 DEF Call
<1>11. CASE AutoRestart
  <2>1. Current' = Current /\ yyin' = yyin /\ Current \in Buffer
        /\ file' = [file EXCEPT ![Current] = yyin]
    BY <1>1, <1>11, SameCurrent DEF AutoRestart, stackVars, LoopHasBuffer
  <2> QED BY <1>1, <2>1 DEF FollowsFile, LoopHasBuffer, BufferType
<1>12. CASE Destroy
  <2>1. Current' = NoBuf /\ pc' # "loop"
    BY <1>12 DEF Destroy, Current
  <2> QED BY <2>1 DEF FollowsFile, LoopHasBuffer, StackAssumption
<1>13. CASE \E b \in Buffer \cup {NoBuf} : PushBufferState(b)
  BY <1>7, <1>13 DEF PushBufferState
<1>14. CASE \E b \in Buffer, o \in BOOLEAN : ScanMemory(b, o)
  BY <1>7, <1>14 DEF ScanMemory
<1>15. CASE LexInit \/ InputOrUnput \/ PushState \/ PopState \/ EndOfInput \/ Match
            \/ FallOff \/ Return \/ UNCHANGED vars
  BY <1>1, <1>3, <1>15
  DEF vars, bufferVars, stackVars, LexInit, InputOrUnput, PushState, PopState,
      EndOfInput, Match, Found, FallOff, Return, UserCode, LoopHasBuffer, StackAssumption
<1> QED
  BY <1>4, <1>5, <1>6, <1>8, <1>9, <1>10, <1>11, <1>12, <1>13, <1>14, <1>15 DEF Next

(* yy_push_state() makes room before it writes.                            *)
LEMMA StepStates ==
    ASSUME StackAssumption, Careful, Full, [Next]_vars
    PROVE  StatesFit' /\ (depth' # depth /\ pc' # "gone" =>
                            allocated' /\ depth <= room' /\ depth' <= room')
<1>1. room \in Nat /\ depth \in Nat /\ depth <= room /\ allocated \in BOOLEAN
  BY DEF Full, IInv, Types, StateType, StatesFit
<1>2. CASE PushState
  <2>1. /\ room' = StateRoom /\ depth' = depth + 1
        /\ allocated' = (allocated \/ room' # room) /\ (allocated \/ room = 0)
    BY <1>2 DEF PushState, MayUseStates
  <2>2. CASE depth >= room
    <3>1. StateRoom > room /\ StateRoom >= depth + 1 /\ StateRoom \in Nat
      BY <1>1, <2>2, StackAssumption DEF StateRoom, StackAssumption
    <3>2. depth' <= room' /\ depth <= room' /\ room' # room
      BY <1>1, <2>1, <3>1
    <3>3. allocated'
      BY <2>1, <3>2
    <3> QED BY <3>2, <3>3 DEF StatesFit
  <2>3. CASE ~(depth >= room)
    <3>1. StateRoom = room /\ depth + 1 <= room /\ room # 0
      BY <1>1, <2>3 DEF StateRoom
    <3> QED BY <1>1, <2>1, <3>1 DEF StatesFit
  <2> QED BY <2>2, <2>3
<1>3. CASE PopState
  <2>1. /\ room' = room /\ depth' = depth - 1 /\ depth > 0
        /\ allocated' = allocated /\ (allocated \/ room = 0)
    BY <1>3 DEF PopState, MayUseStates
  <2> QED BY <1>1, <2>1 DEF StatesFit
<1>4. CASE Destroy
  BY <1>1, <1>4 DEF Destroy, StatesFit
<1>5. CASE UNCHANGED <<room, depth>>
  BY <1>1, <1>5 DEF StatesFit
<1> QED
  BY <1>2, <1>3, <1>4, <1>5
  DEF Next, vars, stateVars, LexInit, CreateBuffer, DeleteBuffer, SwitchToBuffer,
      PushBufferState, ScanMemory, PopBufferState, Yyrestart, InputOrUnput, Call,
      AutoRestart, EndOfInput, Match, Found, FallOff, Return

(* The seal follows yytext, yyin the current buffer, and the stack of      *)
(* start conditions has room, in every state that a careful program        *)
(* reaches.                                                                *)
THEOREM FullInvariance == ASSUME Careful PROVE Spec => []Full
<1>1. Init => Full
  <2> SUFFICES ASSUME Init PROVE Full
    OBVIOUS
  <2>1. IInv
    BY InitInv, StackAssumption
  <2>2. SealsPlaced /\ TidyKept
    BY StackAssumption DEF Init, GutsClear, SealsPlaced, TidyKept, StackAssumption
  <2>3. FollowsFile /\ LoopHasBuffer
    <3>1. Current = NoBuf /\ pc # "loop"
      BY DEF Init, GutsClear, Current
    <3> QED BY <3>1, StackAssumption DEF FollowsFile, LoopHasBuffer, StackAssumption
  <2>4. StatesFit
    BY DEF Init, GutsClear, StatesFit
  <2> QED BY <2>1, <2>2, <2>3, <2>4 DEF Full
<1>2. Full /\ [Next]_vars => Full'
  BY StackAssumption, StepTypes, StepGood, StepSeals, StepTidy, StepFollows, StepStates DEF Full, IInv
<1> QED BY <1>1, <1>2, PTL DEF Spec

(* BuffersIntact: whatever buffers come and go under yytext, the byte that *)
(* yy_text_unseal() puts back was taken from the same place, and in a tidy *)
(* program the place is memory that is alive.                              *)
THEOREM NoByteLost == ASSUME Careful PROVE Spec => []BuffersIntact
<1>1. Full => BuffersIntact
  BY DEF Full, SealsPlaced, TidyKept, BuffersIntact
<1> QED BY <1>1, FullInvariance, PTL

(* RestartReadsOwnFile: the loop restarts an exhausted buffer from that    *)
(* buffer's own file.                                                      *)
THEOREM OwnFileRead == ASSUME Careful PROVE Spec => []RestartReadsOwnFile
<1>1. Full => RestartReadsOwnFile
  BY DEF Full, FollowsFile, LoopHasBuffer, RestartReadsOwnFile
<1> QED BY <1>1, FullInvariance, PTL

(* StatesAllocated: yy_push_state() and yy_pop_state() touch allocated     *)
(* memory only.                                                            *)
THEOREM StatesInside == ASSUME Careful PROVE Spec => StatesAllocated
<1>1. Full /\ [Next]_vars =>
        [depth' # depth /\ pc' # "gone" => allocated' /\ depth <= room' /\ depth' <= room']_vars
  BY StackAssumption, StepStates
<1> QED BY <1>1, FullInvariance, PTL DEF Spec, StatesAllocated
=============================================================================
