------------------------- MODULE ByteClassesProofs -------------------------
(***************************************************************************)
(* For every alphabet and every list of edges: the class table separates   *)
(* exactly the bytes that some edge separates, and never needs a number    *)
(* that its entries cannot hold.                                           *)
(***************************************************************************)
EXTENDS ByteClasses, FiniteSetTheorems, Functions, TLAPS

(* The classes that have bytes: while a scan is under way, those that      *)
(* existed before it.                                                      *)
Populated == IF pc = "scan" THEN size ELSE nclasses

(* Every byte is in a populated class and every such class has a byte.     *)
TablePopulated ==
    /\ Populated \in Nat
    /\ \A b \in Byte : ec[b] < Populated
    /\ \A c \in 0 .. Populated - 1 : \E b \in Byte : ec[b] = c

(* The table separates the bytes that the edges before next separate.      *)
SeparatesSoFar ==
    \A b1, b2 \in Byte : ec[b1] = ec[b2] <=> Together(b1, b2, next - 1)

(* A scan has numbered exactly the classes below class that are cut, with  *)
(* all the numbers from size to nclasses - 1, each once.                   *)
RemapExact ==
    pc = "scan" =>
        /\ size <= nclasses
        /\ \A c \in 0 .. size - 1 :
               /\ remap[c] = -1 \/ remap[c] \in size .. nclasses - 1
               /\ remap[c] # -1 <=> c < class /\ Cut(c, edges[next])
        /\ \A c1, c2 \in 0 .. size - 1 : remap[c1] = remap[c2] =>
               c1 = c2 \/ remap[c1] = -1
        /\ \A n \in size .. nclasses - 1 : \E c \in 0 .. size - 1 : remap[c] = n

IInv == TypeOK /\ TablePopulated /\ RemapExact /\ ClassesSeparate
        /\ (pc # "done" => SeparatesSoFar)

-----------------------------------------------------------------------------
(* A table e of sz classes, cut by a set B into n classes numbered by r.   *)
HalvesOf(e, r, B) == [b \in Byte |-> IF r[e[b]] # -1 /\ b \in B THEN r[e[b]] ELSE e[b]]

(* sz populated classes, numbered apart by r where B cuts them, with the   *)
(* numbers sz .. n - 1 all used.                                           *)
Cutting(e, r, B, sz, n) ==
    /\ sz \in Nat /\ n \in Nat /\ sz <= n
    /\ e \in [Byte -> Nat] /\ r \in [0 .. sz - 1 -> Int]
    /\ B \in SUBSET Byte
    /\ \A b \in Byte : e[b] < sz
    /\ \A c \in 0 .. sz - 1 :
           /\ r[c] = -1 \/ r[c] \in sz .. n - 1
           /\ r[c] = -1 => \E b \in Byte : e[b] = c
           /\ r[c] # -1 => (\E b \in B : e[b] = c) /\ (\E b \in Byte \ B : e[b] = c)
    /\ \A m \in sz .. n - 1 : \E c \in 0 .. sz - 1 : r[c] = m

(* With a byte for each number there are no more numbers than bytes; and   *)
(* with as many, no two bytes share one.                                   *)
LEMMA Room ==
    ASSUME NEW n \in Nat, NEW g \in [Byte -> 0 .. n - 1],
           \A m \in 0 .. n - 1 : \E b \in Byte : g[b] = m
    PROVE  /\ n <= N
           /\ n = N => \A b1, b2 \in Byte : g[b1] = g[b2] => b1 = b2
<1>1. IsFiniteSet(Byte) /\ Cardinality(Byte) = N
  BY FS_Interval, ClassAssumption DEF Byte
<1>2. Cardinality(0 .. n - 1) = n
  BY FS_Interval
<1>3. g \in Surjection(Byte, 0 .. n - 1)
  BY DEF Surjection
<1>4. /\ Cardinality(0 .. n - 1) <= Cardinality(Byte)
      /\ Cardinality(0 .. n - 1) = Cardinality(Byte) <=> g \in Injection(Byte, 0 .. n - 1)
  BY <1>1, <1>3, FS_Surjection
<1> QED
  BY <1>1, <1>2, <1>4 DEF Injection, IsInjective

(* Cutting the classes of a populated table leaves it populated.           *)
LEMMA HalvesPopulated ==
    ASSUME NEW e, NEW r, NEW B, NEW sz, NEW n, Cutting(e, r, B, sz, n)
    PROVE  /\ HalvesOf(e, r, B) \in [Byte -> 0 .. n - 1]
           /\ \A m \in 0 .. n - 1 : \E b \in Byte : HalvesOf(e, r, B)[b] = m
<1> USE DEF Cutting
<1>1. \A b \in Byte : e[b] \in 0 .. sz - 1
  OBVIOUS
<1>2. ASSUME NEW b \in Byte PROVE HalvesOf(e, r, B)[b] \in 0 .. n - 1
  <2>1. r[e[b]] = -1 \/ r[e[b]] \in sz .. n - 1
    BY <1>1
  <2>2. e[b] \in 0 .. n - 1 /\ sz .. n - 1 \subseteq 0 .. n - 1
    BY <1>1
  <2> QED
    BY <2>1, <2>2 DEF HalvesOf
<1>3. ASSUME NEW m \in 0 .. n - 1 PROVE \E b \in Byte : HalvesOf(e, r, B)[b] = m
  <2>1. CASE m < sz
    <3>1. m \in 0 .. sz - 1
      BY <2>1
    <3>2. CASE r[m] = -1
      BY <3>1, <3>2 DEF HalvesOf
    <3>3. CASE r[m] # -1
      BY <3>1, <3>3 DEF HalvesOf
    <3> QED
      BY <3>2, <3>3
  <2>2. CASE m >= sz
    <3>1. m \in sz .. n - 1
      BY <2>2
    <3>2. PICK c \in 0 .. sz - 1 : r[c] = m
      BY <3>1
    <3>3. r[c] # -1
      BY <3>2
    <3>4. PICK b \in B : e[b] = c
      BY <3>3
    <3> QED
      BY <3>2, <3>3, <3>4 DEF HalvesOf
  <2> QED
    BY <2>1, <2>2
<1>4. HalvesOf(e, r, B) = [b \in Byte |-> HalvesOf(e, r, B)[b]]
  BY DEF HalvesOf
<1> QED
  BY <1>2, <1>3, <1>4

(* A table of no more than N numbers holds each of them as it is.          *)
LEMMA EntryIdentity ==
    ASSUME NEW n \in 0 .. N - 1
    PROVE  Entry(n) = n
BY ClassAssumption DEF Entry

(* What refine() tests, with the modulus gone.                             *)
LEMMA CutMeaning ==
    ASSUME NEW c \in 0 .. N - 1, NEW B
    PROVE  Cut(c, B) <=> /\ \E b \in B : ec[b] = c
                         /\ \E b \in Byte \ B : ec[b] = c
BY EntryIdentity DEF Cut

(* In a scan, halving the populated classes so far keeps them populated,   *)
(* and every number that is given fits.                                    *)
LEMMA ScanHalves ==
    ASSUME IInv, pc = "scan"
    PROVE  LET B == edges[next]
               g == HalvesOf(ec, remap, B)
           IN  /\ B \in SUBSET Byte
               /\ g \in [Byte -> 0 .. nclasses - 1]
               /\ \A m \in 0 .. nclasses - 1 : \E b \in Byte : g[b] = m
               /\ Moved(B) = g
<1> DEFINE B == edges[next]
<1>1. /\ edges \in Seq(SUBSET Byte) /\ next \in 1 .. Len(edges)
      /\ size \in Nat /\ size <= nclasses /\ nclasses \in Nat /\ nclasses <= N
      /\ N \in Nat
      /\ ec \in [Byte -> Nat] /\ remap \in [0 .. size - 1 -> Int]
  BY ClassAssumption DEF IInv, TypeOK, RemapExact, Byte
<1>2. B \in SUBSET Byte
  BY <1>1
<1>3. /\ \A b \in Byte : ec[b] < size
      /\ \A c \in 0 .. size - 1 : \E b \in Byte : ec[b] = c
  BY DEF IInv, TablePopulated, Populated
<1>4. \A c \in 0 .. size - 1 : remap[c] = -1 \/ remap[c] \in size .. nclasses - 1
  BY DEF IInv, RemapExact
<1>5. \A c \in 0 .. size - 1 : remap[c] # -1 => Cut(c, B)
  BY DEF IInv, RemapExact
<1>6. \A c \in 0 .. size - 1 : c \in 0 .. N - 1
  BY <1>1
<1>7. \A c \in 0 .. size - 1 : remap[c] # -1 =>
          (\E b \in B : ec[b] = c) /\ (\E b \in Byte \ B : ec[b] = c)
  BY <1>5, <1>6, CutMeaning
<1>8. \A n \in size .. nclasses - 1 : \E c \in 0 .. size - 1 : remap[c] = n
  BY DEF IInv, RemapExact
<1>9. /\ HalvesOf(ec, remap, B) \in [Byte -> 0 .. nclasses - 1]
      /\ \A m \in 0 .. nclasses - 1 : \E b \in Byte : HalvesOf(ec, remap, B)[b] = m
  <2> HIDE DEF B
  <2>1. Cutting(ec, remap, B, size, nclasses)
    BY <1>1, <1>2, <1>3, <1>4, <1>7, <1>8 DEF Cutting
  <2> QED
    BY <2>1, HalvesPopulated
<1>10. ASSUME NEW b \in Byte
       PROVE  (IF remap[ec[b]] >= 0 /\ b \in B THEN Entry(remap[ec[b]]) ELSE ec[b])
              = (IF remap[ec[b]] # -1 /\ b \in B THEN remap[ec[b]] ELSE ec[b])
  <2>1. remap[ec[b]] = -1 \/ remap[ec[b]] \in size .. nclasses - 1
    BY <1>1, <1>3, <1>4
  <2>2. size .. nclasses - 1 \subseteq 0 .. N - 1
    BY <1>1
  <2>3. CASE remap[ec[b]] = -1
    BY <2>3
  <2>4. CASE remap[ec[b]] \in size .. nclasses - 1
    <3>1. remap[ec[b]] \in 0 .. N - 1 /\ Entry(remap[ec[b]]) = remap[ec[b]]
      BY <2>2, <2>4, EntryIdentity
    <3> QED
      BY <3>1
  <2> QED
    BY <2>1, <2>3, <2>4
<1>11. Moved(B) = HalvesOf(ec, remap, B)
  BY <1>10 DEF Moved, HalvesOf
<1> QED
  BY <1>2, <1>9, <1>11

-----------------------------------------------------------------------------
(* The initial table: one class, which has a byte.                         *)
LEMMA InitInv == Init => IInv
<1> SUFFICES ASSUME Init PROVE IInv
  OBVIOUS
<1>1. /\ edges \in Seq(SUBSET Byte) /\ Len(edges) \in Nat /\ N \in Nat /\ N >= 1
      /\ 0 \in Byte
  BY ClassAssumption DEF Init, Byte
<1>2. TypeOK
  BY <1>1 DEF Init, TypeOK
<1>3. TablePopulated
  BY <1>1 DEF Init, TablePopulated, Populated
<1>4. RemapExact
  BY DEF Init, RemapExact
<1>5. SeparatesSoFar /\ ClassesSeparate
  BY DEF Init, SeparatesSoFar, ClassesSeparate, Together
<1> QED
  BY <1>2, <1>3, <1>4, <1>5 DEF IInv

(* An epsilon edge separates nothing.                                      *)
LEMMA SkipInv == IInv /\ Skip => IInv'
<1> SUFFICES ASSUME IInv, Skip PROVE IInv'
  OBVIOUS
<1>1. /\ edges \in Seq(SUBSET Byte) /\ next \in 1 .. Len(edges) /\ Len(edges) \in Nat
      /\ edges[next] = {}
  BY ClassAssumption DEF IInv, TypeOK, Skip
<1>2. TypeOK'
  BY <1>1 DEF IInv, TypeOK, Skip
<1>3. TablePopulated' /\ RemapExact'
  BY DEF IInv, Skip, TablePopulated, Populated, RemapExact
<1>4. \A b1, b2 \in Byte : Together(b1, b2, next - 1) <=> Together(b1, b2, next)
  BY <1>1 DEF Together
<1>5. \A b1, b2 \in Byte : ec[b1] = ec[b2] <=> Together(b1, b2, next)
  BY <1>4 DEF IInv, SeparatesSoFar, Skip
<1>6. next' - 1 = next
  BY <1>1 DEF Skip
<1>7. SeparatesSoFar' /\ ClassesSeparate'
  BY <1>5, <1>6 DEF Skip, SeparatesSoFar, ClassesSeparate, Together
<1> QED
  BY <1>2, <1>3, <1>7 DEF IInv

(* At the start of a scan every class is populated and none is renumbered. *)
LEMMA RefineInv == IInv /\ Refine => IInv'
<1> SUFFICES ASSUME IInv, Refine PROVE IInv'
  OBVIOUS
<1>1. nclasses \in 1 .. N /\ N \in Nat
  BY ClassAssumption DEF IInv, TypeOK
<1>2. TypeOK'
  BY <1>1 DEF IInv, TypeOK, Refine
<1>3. TablePopulated'
  BY DEF IInv, Refine, TablePopulated, Populated
<1>4. RemapExact'
  <2>1. size' = nclasses /\ nclasses' = nclasses /\ class' = 0
        /\ remap' = [c \in 0 .. nclasses - 1 |-> -1]
    BY DEF Refine
  <2>2. \A c \in 0 .. nclasses - 1 : remap'[c] = -1 /\ ~(c < 0)
    BY <1>1, <2>1
  <2>3. \A n \in nclasses .. nclasses - 1 : FALSE
    BY <1>1
  <2> QED
    BY <1>1, <2>1, <2>2, <2>3 DEF RemapExact
<1>5. SeparatesSoFar' /\ ClassesSeparate'
  BY DEF IInv, Refine, SeparatesSoFar, ClassesSeparate, Together
<1> QED
  BY <1>2, <1>3, <1>4, <1>5 DEF IInv

(* A class that the set does not cut keeps its number.                     *)
LEMMA KeepInv == IInv /\ Keep => IInv'
<1> SUFFICES ASSUME IInv, Keep PROVE IInv'
  OBVIOUS
<1>1. class \in Nat /\ size \in Nat
  BY DEF IInv, TypeOK, Byte
<1>2. TypeOK'
  BY <1>1 DEF IInv, TypeOK, Keep
<1>3. TablePopulated'
  BY DEF IInv, Keep, TablePopulated, Populated
<1>4. RemapExact'
  <2>1. \A c \in 0 .. size - 1 : c < class + 1 <=> c < class \/ c = class
    BY <1>1
  <2>2. ~Cut(class, edges[next])
    BY DEF Keep
  <2>3. \A c \in 0 .. size - 1 : remap[c] # -1 <=> c < class + 1 /\ Cut(c, edges[next])
    BY <2>1, <2>2 DEF IInv, Keep, RemapExact
  <2> QED
    BY <2>3 DEF IInv, Keep, RemapExact, Cut
<1>5. SeparatesSoFar' /\ ClassesSeparate'
  BY DEF IInv, Keep, SeparatesSoFar, ClassesSeparate, Together
<1> QED
  BY <1>2, <1>3, <1>4, <1>5 DEF IInv

(* A class that is cut existed before the scan, so it has an entry in      *)
(* remap, and there is a number left for its other half.                   *)
LEMMA CutFits ==
    ASSUME IInv, pc = "scan", class < nclasses, Cut(class, edges[next])
    PROVE  LET B == edges[next]
               r == [remap EXCEPT ![class] = nclasses]
               n == nclasses + 1
           IN  /\ class \in 0 .. size - 1 /\ n <= N
               /\ \A c \in 0 .. size - 1 : r[c] = -1 \/ r[c] \in size .. n - 1
               /\ \A c \in 0 .. size - 1 : r[c] # -1 <=> c < class + 1 /\ Cut(c, B)
               /\ \A c1, c2 \in 0 .. size - 1 : r[c1] = r[c2] => c1 = c2 \/ r[c1] = -1
               /\ \A m \in size .. n - 1 : \E c \in 0 .. size - 1 : r[c] = m
<1> DEFINE B == edges[next]
           r == [remap EXCEPT ![class] = nclasses]
           n == nclasses + 1
<1>1. /\ pc = "scan" /\ edges \in Seq(SUBSET Byte) /\ next \in 1 .. Len(edges)
      /\ N \in Nat /\ nclasses \in 1 .. N /\ class \in Nat /\ class < nclasses
      /\ ec \in [Byte -> Nat] /\ remap \in [0 .. size - 1 -> Int]
      /\ size \in Nat /\ size <= nclasses /\ Cut(class, B)
  <2>1. edges \in Seq(SUBSET Byte) /\ next \in 1 .. Len(edges)
    BY ClassAssumption DEF IInv, TypeOK
  <2> QED
    BY <2>1, ClassAssumption DEF IInv, TypeOK, RemapExact, Byte
<1>2. B \in SUBSET Byte
  BY <1>1
<1>3. /\ \A b \in Byte : ec[b] < size
      /\ \A c \in 0 .. size - 1 : \E b \in Byte : ec[b] = c
  BY <1>1 DEF IInv, TablePopulated, Populated
<1>4. (\E b \in B : ec[b] = class) /\ (\E b \in Byte \ B : ec[b] = class)
  <2>1. class \in 0 .. N - 1
    BY <1>1
  <2> HIDE DEF B
  <2> QED
    BY <1>1, <2>1, CutMeaning
<1>5. class \in 0 .. size - 1
  BY <1>1, <1>2, <1>3, <1>4
<1>6. \A c \in 0 .. size - 1 :
          /\ remap[c] = -1 \/ remap[c] \in size .. nclasses - 1
          /\ remap[c] # -1 <=> c < class /\ Cut(c, B)
  BY <1>1 DEF IInv, RemapExact
<1>7. \A c \in 0 .. size - 1 : r[c] = IF c = class THEN nclasses ELSE remap[c]
  BY <1>1, <1>5
<1>8. \A c \in 0 .. size - 1 : r[c] = -1 \/ r[c] \in size .. n - 1
  BY <1>1, <1>6, <1>7
<1>9. \A c \in 0 .. size - 1 : r[c] # -1 <=> c < class + 1 /\ Cut(c, B)
  <2> SUFFICES ASSUME NEW c \in 0 .. size - 1
               PROVE  r[c] # -1 <=> c < class + 1 /\ Cut(c, B)
    OBVIOUS
  <2>1. CASE c = class
    <3>1. r[c] # -1 /\ c < class + 1
      BY <1>1, <1>7, <2>1
    <3> QED
      BY <1>1, <2>1, <3>1
  <2>2. CASE c # class
    <3>1. r[c] = remap[c] /\ (c < class + 1 <=> c < class)
      BY <1>1, <1>7, <2>2
    <3> QED
      BY <1>6, <3>1
  <2> QED
    BY <2>1, <2>2
<1>10. \A c1, c2 \in 0 .. size - 1 : r[c1] = r[c2] => c1 = c2 \/ r[c1] = -1
  <2>1. \A c1, c2 \in 0 .. size - 1 : remap[c1] = remap[c2] =>
            c1 = c2 \/ remap[c1] = -1
    BY <1>1 DEF IInv, RemapExact
  <2>2. \A c \in 0 .. size - 1 : remap[c] # nclasses
    BY <1>1, <1>6
  <2> HIDE DEF r
  <2> QED
    BY <1>7, <2>1, <2>2
<1>11. \A m \in size .. n - 1 : \E c \in 0 .. size - 1 : r[c] = m
  <2> SUFFICES ASSUME NEW m \in size .. n - 1
               PROVE  \E c \in 0 .. size - 1 : r[c] = m
    OBVIOUS
  <2>1. CASE m = nclasses
    BY <1>5, <1>7, <2>1
  <2>2. CASE m # nclasses
    <3>1. m \in size .. nclasses - 1
      BY <1>1, <2>2
    <3>2. PICK c \in 0 .. size - 1 : remap[c] = m
      BY <1>1, <3>1 DEF IInv, RemapExact
    <3>3. c # class
      BY <1>1, <1>6, <3>1, <3>2
    <3> QED
      BY <1>7, <3>2, <3>3
  <2> QED
    BY <2>1, <2>2
<1>12. n <= N
  <2>1. r \in [0 .. size - 1 -> Int] /\ n \in Nat /\ size <= n
    BY <1>1, <1>5
  <2>2. \A c \in 0 .. size - 1 : r[c] # -1 =>
            (\E b \in B : ec[b] = c) /\ (\E b \in Byte \ B : ec[b] = c)
    <3>1. \A c \in 0 .. size - 1 : c \in 0 .. N - 1
      BY <1>1
    <3>2. \A c \in 0 .. size - 1 : r[c] # -1 => Cut(c, B)
      BY <1>9
    <3> HIDE DEF B, r
    <3> QED
      BY <3>1, <3>2, CutMeaning
  <2> HIDE DEF B, r, n
  <2>3. Cutting(ec, r, B, size, n)
    BY <1>1, <1>2, <1>3, <1>8, <1>11, <2>1, <2>2 DEF Cutting
  <2> QED
    BY <2>1, <2>3, HalvesPopulated, Room
<1> QED
  BY <1>5, <1>8, <1>9, <1>10, <1>11, <1>12

LEMMA SplitInv == IInv /\ Split => IInv'
<1> SUFFICES ASSUME IInv, Split PROVE IInv'
  OBVIOUS
<1> DEFINE B == edges[next]
           r == [remap EXCEPT ![class] = nclasses]
           n == nclasses + 1
<1>1. /\ pc = "scan" /\ class < nclasses /\ Cut(class, B)
      /\ N \in Nat /\ nclasses \in 1 .. N /\ class \in Nat
      /\ remap \in [0 .. size - 1 -> Int] /\ size \in Nat /\ size <= nclasses
  BY ClassAssumption DEF IInv, TypeOK, RemapExact, Split
<1>2. /\ class \in 0 .. size - 1 /\ n <= N
      /\ \A c \in 0 .. size - 1 : r[c] = -1 \/ r[c] \in size .. n - 1
      /\ \A c \in 0 .. size - 1 : r[c] # -1 <=> c < class + 1 /\ Cut(c, B)
      /\ \A c1, c2 \in 0 .. size - 1 : r[c1] = r[c2] => c1 = c2 \/ r[c1] = -1
      /\ \A m \in size .. n - 1 : \E c \in 0 .. size - 1 : r[c] = m
  BY <1>1, CutFits
<1>3. /\ edges' = edges /\ next' = next /\ ec' = ec /\ size' = size
       /\ remap' = r /\ nclasses' = n /\ class' = class + 1 /\ pc' = "scan"
  BY <1>1, <1>2 DEF Split
<1>4. TypeOK'
  <2>1. r \in [0 .. size - 1 -> Int] /\ n \in 1 .. N /\ class + 1 \in Nat
    BY <1>1, <1>2
  <2> HIDE DEF r, n
  <2> QED
    BY <1>1, <1>3, <2>1 DEF IInv, TypeOK
<1>5. TablePopulated'
  BY <1>1, <1>3 DEF IInv, TablePopulated, Populated
<1>6. RemapExact'
  <2>1. size <= n
    BY <1>1
  <2>2. \A c \in 0 .. size - 1 : Cut(c, B)' <=> Cut(c, B)
    BY <1>3 DEF Cut
  <2> HIDE DEF r, n
  <2> QED
    BY <1>2, <1>3, <2>1, <2>2 DEF RemapExact
<1>7. SeparatesSoFar' /\ ClassesSeparate'
  BY <1>1, <1>3 DEF IInv, SeparatesSoFar, ClassesSeparate, Together
<1> QED
  BY <1>4, <1>5, <1>6, <1>7 DEF IInv

(* Once the bytes are moved, the table also separates those that this edge *)
(* separates; and if there are as many classes as bytes, it separates all. *)
LEMMA MoveInv == IInv /\ Move => IInv'
<1> SUFFICES ASSUME IInv, Move PROVE IInv'
  OBVIOUS
<1> DEFINE B == edges[next]
           g == HalvesOf(ec, remap, B)
<1>1. /\ pc = "scan" /\ edges \in Seq(SUBSET Byte) /\ next \in 1 .. Len(edges)
      /\ N \in Nat /\ nclasses \in 1 .. N /\ class \in Nat /\ class >= nclasses
      /\ ec \in [Byte -> Nat] /\ remap \in [0 .. size - 1 -> Int]
      /\ size \in Nat /\ size <= nclasses /\ Len(edges) \in Nat
  BY ClassAssumption DEF IInv, TypeOK, RemapExact, Move, Byte
<1>2. /\ B \in SUBSET Byte /\ g \in [Byte -> 0 .. nclasses - 1]
      /\ \A m \in 0 .. nclasses - 1 : \E b \in Byte : g[b] = m
      /\ Moved(B) = g
  BY <1>1, ScanHalves
<1>3. /\ edges' = edges /\ next' = next + 1 /\ ec' = g /\ size' = size
      /\ remap' = remap /\ nclasses' = nclasses /\ class' = class
      /\ pc' = IF nclasses >= N THEN "done" ELSE "edges"
  BY <1>2 DEF Move
<1>4. \A b1, b2 \in Byte :
          g[b1] = g[b2] <=> ec[b1] = ec[b2] /\ (b1 \in B <=> b2 \in B)
  <2> SUFFICES ASSUME NEW b1 \in Byte, NEW b2 \in Byte
               PROVE  g[b1] = g[b2] <=> ec[b1] = ec[b2] /\ (b1 \in B <=> b2 \in B)
    OBVIOUS
  <2>1. ec[b1] \in 0 .. size - 1 /\ ec[b2] \in 0 .. size - 1
    BY <1>1 DEF IInv, TablePopulated, Populated
  <2>2. /\ g[b1] = IF remap[ec[b1]] # -1 /\ b1 \in B THEN remap[ec[b1]] ELSE ec[b1]
        /\ g[b2] = IF remap[ec[b2]] # -1 /\ b2 \in B THEN remap[ec[b2]] ELSE ec[b2]
    BY DEF HalvesOf
  <2>3. \A c \in 0 .. size - 1 : remap[c] = -1 \/ remap[c] >= size
    BY <1>1 DEF IInv, RemapExact
  <2>4. \A c1, c2 \in 0 .. size - 1 : remap[c1] = remap[c2] =>
            c1 = c2 \/ remap[c1] = -1
    BY <1>1 DEF IInv, RemapExact
  <2>5. \A c \in 0 .. size - 1 : remap[c] = -1 => ~Cut(c, B)
    BY <1>1 DEF IInv, RemapExact
  <2>6. ec[b1] = ec[b2] /\ remap[ec[b1]] = -1 => (b1 \in B <=> b2 \in B)
    <3> SUFFICES ASSUME ec[b1] = ec[b2], remap[ec[b1]] = -1
                 PROVE  b1 \in B <=> b2 \in B
      OBVIOUS
    <3>1. ~Cut(ec[b1], B) /\ ec[b1] \in 0 .. N - 1
      BY <1>1, <2>1, <2>5
    <3> HIDE DEF B
    <3>2. ~((\E b \in B : ec[b] = ec[b1]) /\ (\E b \in Byte \ B : ec[b] = ec[b1]))
      BY <3>1, CutMeaning
    <3> QED
      BY <3>2
  <2> HIDE DEF B, g
  <2>7. \A c1, c2 \in 0 .. size - 1 : remap[c1] # -1 => remap[c1] # c2
    BY <1>1, <2>3
  <2> QED
    BY <2>1, <2>2, <2>4, <2>6, <2>7
<1>5. \A b1, b2 \in Byte :
          Together(b1, b2, next) <=>
              Together(b1, b2, next - 1) /\ (b1 \in B <=> b2 \in B)
  <2>1. \A i \in 1 .. next : i \in 1 .. next - 1 \/ i = next
    BY <1>1
  <2>2. \A i \in 1 .. next - 1 : i \in 1 .. next
    BY <1>1
  <2>3. next \in 1 .. next
    BY <1>1
  <2> QED
    BY <2>1, <2>2, <2>3 DEF Together
<1>6. \A b1, b2 \in Byte : g[b1] = g[b2] <=> Together(b1, b2, next)
  <2>1. \A b1, b2 \in Byte : ec[b1] = ec[b2] <=> Together(b1, b2, next - 1)
    BY <1>1 DEF IInv, SeparatesSoFar
  <2> HIDE DEF B, g
  <2> QED
    BY <1>4, <1>5, <2>1
<1>7. nclasses >= N => \A b1, b2 \in Byte :
                           g[b1] = g[b2] <=> Together(b1, b2, Len(edges))
  <2> SUFFICES ASSUME nclasses >= N, NEW b1 \in Byte, NEW b2 \in Byte
               PROVE  g[b1] = g[b2] <=> Together(b1, b2, Len(edges))
    OBVIOUS
  <2>1. nclasses = N /\ nclasses \in Nat
    BY <1>1
  <2>2. g[b1] = g[b2] => b1 = b2
    <3> HIDE DEF g
    <3> QED
      BY <1>2, <2>1, Room
  <2>3. Together(b1, b2, Len(edges)) => Together(b1, b2, next)
    BY <1>1 DEF Together
  <2>4. b1 = b2 => Together(b1, b2, Len(edges))
    BY DEF Together
  <2> QED
    BY <1>6, <2>2, <2>3, <2>4
<1>8. TypeOK'
  <2>1. g \in [Byte -> Byte] /\ next + 1 \in 1 .. Len(edges) + 1
    BY <1>1, <1>2 DEF Byte
  <2> HIDE DEF g
  <2> QED
    BY <1>1, <1>3, <2>1 DEF IInv, TypeOK
<1>9. TablePopulated'
  <2>1. \A b \in Byte : g[b] < nclasses
    BY <1>1, <1>2
  <2>2. Populated' = nclasses /\ nclasses \in Nat
    BY <1>1, <1>3 DEF Populated
  <2> HIDE DEF g
  <2> QED
    BY <1>2, <1>3, <2>1, <2>2 DEF TablePopulated
<1>10. RemapExact'
  BY <1>3 DEF RemapExact
<1>11. (next + 1) - 1 = next
  BY <1>1
<1>12. SeparatesSoFar'
  <2> HIDE DEF g
  <2>1. next' - 1 = next
    BY <1>3, <1>11
  <2> QED
    BY <1>3, <1>6, <2>1 DEF SeparatesSoFar, Together
<1>13. ClassesSeparate'
  <2> HIDE DEF g
  <2>1. next' - 1 = next
    BY <1>3, <1>11
  <2>2. CASE nclasses >= N
    BY <1>3, <1>7, <2>2 DEF ClassesSeparate, Together
  <2>3. CASE ~(nclasses >= N)
    BY <1>3, <1>6, <2>1, <2>3 DEF ClassesSeparate, Together
  <2> QED
    BY <2>2, <2>3
<1> QED
  BY <1>8, <1>9, <1>10, <1>12, <1>13 DEF IInv

LEMMA FinishInv == IInv /\ Finish => IInv'
<1> SUFFICES ASSUME IInv, Finish PROVE IInv'
  OBVIOUS
<1>1. next - 1 = Len(edges)
  BY ClassAssumption DEF IInv, TypeOK, Finish
<1>2. TypeOK' /\ TablePopulated' /\ RemapExact'
  BY DEF IInv, Finish, TypeOK, TablePopulated, Populated, RemapExact
<1>3. ClassesSeparate'
  BY <1>1 DEF IInv, Finish, SeparatesSoFar, ClassesSeparate, Together
<1> QED
  BY <1>2, <1>3 DEF IInv, Finish

-----------------------------------------------------------------------------
LEMMA NextInv == IInv /\ [Next]_vars => IInv'
<1> SUFFICES ASSUME IInv, [Next]_vars PROVE IInv'
  OBVIOUS
<1>1. CASE Next
  BY <1>1, SkipInv, RefineInv, KeepInv, SplitInv, MoveInv, FinishInv DEF Next
<1>2. CASE UNCHANGED vars
  BY <1>2 DEF vars, IInv, TypeOK, TablePopulated, Populated, RemapExact, Cut,
              ClassesSeparate, SeparatesSoFar, Together
<1> QED
  BY <1>1, <1>2

(* Every reachable state satisfies the inductive invariant.                *)
THEOREM Invariance == Spec => []IInv
BY InitInv, NextInv, PTL DEF Spec

(* The variables keep their types: there are never more classes than       *)
(* bytes, so refine() never gives up and no entry wraps around.            *)
THEOREM TypeCorrect == Spec => []TypeOK
<1>1. IInv => TypeOK
  BY DEF IInv
<1> QED
  BY <1>1, Invariance, PTL

(* Two bytes share a class iff every edge covers both or neither, whatever *)
(* the edges, also when compute_eclasses() returns before the last one.    *)
THEOREM Separation == Spec => []ClassesSeparate
<1>1. IInv => ClassesSeparate
  BY DEF IInv
<1> QED
  BY <1>1, Invariance, PTL

(* A cut class has an entry in remap and its new half a number that fits.  *)
THEOREM Fitting == Spec => []SplitsFit
<1>1. IInv => SplitsFit
  <2> SUFFICES ASSUME IInv, pc = "scan", class < nclasses, Cut(class, edges[next])
               PROVE  class < size /\ nclasses < N
    BY DEF SplitsFit
  <2>1. class \in 0 .. size - 1 /\ nclasses + 1 <= N
    BY CutFits
  <2>2. size \in Nat /\ nclasses \in Nat /\ N \in Nat
    BY ClassAssumption DEF IInv, TypeOK
  <2> QED
    BY <2>1, <2>2
<1> QED
  BY <1>1, Invariance, PTL

(* Every class has a byte, so class_reps() finds a representative of each. *)
THEOREM NoEmptyClass == Spec => []EveryClassUsed
<1>1. IInv => EveryClassUsed
  BY DEF IInv, TablePopulated, Populated, EveryClassUsed
<1> QED
  BY <1>1, Invariance, PTL

=============================================================================
