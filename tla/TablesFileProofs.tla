-------------------------- MODULE TablesFileProofs --------------------------
(***************************************************************************)
(* For every set of scanners, every point where a write or a file can stop *)
(* and any number of runs and loads: writer and loader of the tables file  *)
(* agree, no cut-off file is accepted, no mixture of tables makes a lookup *)
(* leave its array, and a run of lex that succeeds has written all of its  *)
(* files.                                                                  *)
(***************************************************************************)
EXTENDS TablesFile, SequenceTheorems, TLAPS

-----------------------------------------------------------------------------
(* Words: put_u32() and yy_read_be32() for every radix.                    *)

(* The quotient is the only one that leaves a remainder in range.          *)
LEMMA DivUnique ==
    ASSUME NEW v \in Int, NEW m \in Nat, m > 0, NEW q \in Int, NEW r \in 0 .. m - 1,
           v = m * q + r
    PROVE  v \div m = q /\ v % m = r
<1> DEFINE p == v \div m  t == v % m
<1>1. v = m * p + t /\ p \in Int /\ t \in 0 .. m - 1
  OBVIOUS
<1> HIDE DEF p, t
<1>2. m * (p - q) = r - t
  BY <1>1
<1>3. ~(p - q >= 1)
  <2> SUFFICES ASSUME p - q >= 1 PROVE FALSE
    OBVIOUS
  <2>1. m * (p - q) >= m
    BY <1>1
  <2> QED BY <1>1, <1>2, <2>1
<1>4. ~(p - q <= -1)
  <2> SUFFICES ASSUME p - q <= -1 PROVE FALSE
    OBVIOUS
  <2>1. m * (p - q) <= -m
    BY <1>1
  <2> QED BY <1>1, <1>2, <2>1
<1>5. p = q /\ t = r
  BY <1>1, <1>2, <1>3, <1>4
<1> QED BY <1>5 DEF p, t

(* Dividing twice is dividing by the product.                              *)
LEMMA DivDiv ==
    ASSUME NEW v \in Int, NEW m \in Nat, m > 0, NEW n \in Nat, n > 0
    PROVE  v \div (m * n) = (v \div m) \div n
<1> DEFINE p == v \div m  r == v % m  q == p \div n  t == p % n
<1>1. v = m * p + r /\ p \in Int /\ r \in 0 .. m - 1
  OBVIOUS
<1>2. p = n * q + t /\ q \in Int /\ t \in 0 .. n - 1
  <2> HIDE DEF p
  <2> QED BY <1>1
<1> HIDE DEF p, r, q, t
<1>3. v = (m * n) * q + (m * t + r)
  <2>1. m * (n * q + t) = (m * n) * q + m * t
    BY <1>2
  <2> QED BY <1>1, <1>2, <2>1
<1>4. m * t + r \in 0 .. m * n - 1
  <2>1. m * t >= 0 /\ m * t <= m * (n - 1) /\ m * (n - 1) = m * n - m
    BY <1>2
  <2>2. m * t \in Int /\ m * n \in Int
    BY <1>2
  <2> QED BY <1>1, <2>1, <2>2
<1>5. m * n \in Nat /\ m * n > 0
  OBVIOUS
<1>6. v \div (m * n) = q
  BY <1>2, <1>3, <1>4, <1>5, DivUnique
<1> QED BY <1>6 DEF q, p

(* The four bytes of a number, put together again.                         *)
Value(v) == Digit(v, 0) * Weight[1] + Digit(v, 1) * Weight[2]
            + Digit(v, 2) * Weight[3] + Digit(v, 3) * Weight[4]

(* They are bytes, and make the number up to a multiple of all words.      *)
LEMMA ValueOf ==
    ASSUME NEW v \in Int
    PROVE  /\ \A k \in 0 .. 3 : Digit(v, k) \in Byte
           /\ Value(v) \in 0 .. Words32 - 1
           /\ \E e \in Int : v = Words32 * e + Value(v)
<1> DEFINE R == Radix
<1>0. R \in Nat /\ R > 1
  BY TablesAssumption
<1> HIDE DEF R
<1> DEFINE a == v \div R  b == a \div R  c == b \div R  e == c \div R
<1> DEFINE d3 == v % R  d2 == a % R  d1 == b % R  d0 == c % R
<1>1. v = R * a + d3 /\ a \in Int /\ d3 \in 0 .. R - 1
  BY <1>0
<1>2. a = R * b + d2 /\ b \in Int /\ d2 \in 0 .. R - 1
  <2> HIDE DEF a
  <2> QED BY <1>0, <1>1
<1>3. b = R * c + d1 /\ c \in Int /\ d1 \in 0 .. R - 1
  <2> HIDE DEF b
  <2> QED BY <1>0, <1>2
<1>4. c = R * e + d0 /\ e \in Int /\ d0 \in 0 .. R - 1
  <2> HIDE DEF c
  <2> QED BY <1>0, <1>3
<1>5. v \div (R * R) = b /\ v \div (R * R * R) = c
  <2>1. v \div (R * R) = b
    BY <1>0, DivDiv
  <2>2. R * R \in Nat /\ R * R > 0
    BY <1>0
  <2>3. v \div ((R * R) * R) = (v \div (R * R)) \div R
    BY <1>0, <2>2, DivDiv
  <2> QED BY <2>1, <2>3
<1>6. v \div 1 = v
  OBVIOUS
<1> HIDE DEF a, b, c, e
<1>7. Digit(v, 0) = d0 /\ Digit(v, 1) = d1 /\ Digit(v, 2) = d2 /\ Digit(v, 3) = d3
  <2>1. /\ Weight[1] = R * R * R /\ Weight[2] = R * R /\ Weight[3] = R /\ Weight[4] = 1
    BY DEF Weight, R
  <2>2. v \div R = a
    BY DEF a
  <2> QED BY <1>5, <1>6, <2>1, <2>2 DEF Digit, R
<1>8. /\ Value(v) = d0 * (R * R * R) + d1 * (R * R) + d2 * R + d3
      /\ Words32 = R * (R * R * R)
  <2>1. /\ Weight[1] = R * R * R /\ Weight[2] = R * R /\ Weight[3] = R /\ Weight[4] = 1
        /\ Words32 = R * (R * R * R)
    BY DEF Weight, Words32, R
  <2> HIDE DEF d0, d1, d2, d3
  <2> QED BY <1>1, <1>7, <2>1 DEF Value
<1> HIDE DEF d0, d1, d2, d3
<1>9. Value(v) = R * (R * (R * d0 + d1) + d2) + d3
  BY <1>0, <1>1, <1>2, <1>3, <1>4, <1>8
<1>10. \A x \in Nat, y \in Nat, d \in Nat : x < y /\ d < R => R * x + d < R * y
  <2> SUFFICES ASSUME NEW x \in Nat, NEW y \in Nat, NEW d \in Nat, x < y, d < R
               PROVE R * x + d < R * y
    OBVIOUS
  <2>1. R * (x + 1) <= R * y /\ R * (x + 1) = R * x + R
    BY <1>0
  <2> QED BY <1>0, <2>1
<1>11. Value(v) \in 0 .. Words32 - 1
  <2> DEFINE x == R * d0 + d1  y == R * x + d2  z == R * y + d3
  <2>1. x \in Nat /\ x < R * R
    BY <1>0, <1>3, <1>4, <1>10
  <2>2. R * R \in Nat /\ R * (R * R) \in Nat /\ R * (R * (R * R)) \in Nat
        /\ R * (R * R * R) = R * (R * (R * R))
    BY <1>0
  <2> HIDE DEF x
  <2>3. y \in Nat /\ y < R * (R * R)
    BY <1>0, <1>2, <1>10, <2>1, <2>2
  <2> HIDE DEF y
  <2>4. z \in Nat /\ z < R * (R * (R * R))
    BY <1>0, <1>1, <1>10, <2>2, <2>3
  <2>5. Value(v) = z
    BY <1>9 DEF x, y, z
  <2> QED BY <1>8, <2>2, <2>4, <2>5
<1>12. v = Words32 * e + Value(v)
  <2>1. v = R * (R * (R * (R * e + d0) + d1) + d2) + d3
    BY <1>1, <1>2, <1>3, <1>4
  <2>2. R * (R * (R * (R * e + d0) + d1) + d2) + d3
          = (R * (R * R * R)) * e + (d0 * (R * R * R) + d1 * (R * R) + d2 * R + d3)
    BY <1>0, <1>1, <1>2, <1>3, <1>4
  <2> QED BY <1>8, <2>1, <2>2
<1>13. \A k \in 0 .. 3 : Digit(v, k) \in Byte
  <2>1. ASSUME NEW k \in 0 .. 3 PROVE Digit(v, k) \in 0 .. R - 1
    <3>1. k = 0 \/ k = 1 \/ k = 2 \/ k = 3
      OBVIOUS
    <3> QED BY <1>1, <1>2, <1>3, <1>4, <1>7, <3>1
  <2> QED BY <2>1 DEF Byte, R
<1> QED BY <1>4, <1>11, <1>12, <1>13

(* An int comes back as it was written, and so does an unsigned word.      *)
LEMMA ReadBack ==
    ASSUME NEW v \in Int
    PROVE  /\ v \in Int32 => Signed(Value(v)) = v
           /\ v \in 0 .. Words32 - 1 => Value(v) = v
<1>1. Value(v) \in 0 .. Words32 - 1
  BY ValueOf
<1>2. PICK e \in Int : v = Words32 * e + Value(v)
  BY ValueOf
<1> DEFINE W == Words32  u == Value(v)
<1>3. W \in Nat /\ W > 0
  <2>1. Radix \in Nat
    BY TablesAssumption
  <2>2. W \in Int
    BY <2>1 DEF Words32
  <2> QED BY <1>1, <2>2
<1> HIDE DEF W, u
<1>4. u \in 0 .. W - 1 /\ v = W * e + u
  BY <1>1, <1>2 DEF W, u
<1>5. (e >= 1 => v >= W) /\ (e <= -2 => v < -W)
  <2>1. e >= 1 => W * e >= W
    BY <1>3
  <2>2. e <= -2 => W * e <= -2 * W
    BY <1>3
  <2>3. W * e \in Int
    BY <1>3
  <2> QED BY <1>3, <1>4, <2>1, <2>2, <2>3
<1>6. (e = 0 => v = u) /\ (e = -1 => v = u - W)
  BY <1>3, <1>4
<1>7. ASSUME v \in 0 .. W - 1 PROVE u = v
  BY <1>3, <1>4, <1>5, <1>6, <1>7
<1>8. ASSUME -W <= 2 * v, 2 * v < W PROVE (IF 2 * u >= W THEN u - W ELSE u) = v
  <2>1. e = 0 \/ e = -1
    BY <1>3, <1>5, <1>8
  <2> QED BY <1>3, <1>4, <1>6, <1>8, <2>1
<1>9. ASSUME v \in Int32 PROVE Signed(Value(v)) = v
  <2>1. -W <= 2 * v /\ 2 * v < W
    BY <1>9 DEF Int32, W
  <2> QED BY <1>8, <2>1 DEF Signed, W, u
<1> QED BY <1>7, <1>9 DEF W, u

-----------------------------------------------------------------------------
(* The layout of the file.                                                 *)

LEMMA WordsAre ==
    ASSUME NEW q \in Seq(Int)
    PROVE  /\ Words(q) \in Seq(Int) /\ Len(Words(q)) = 4 * Len(q)
           /\ \A i \in 1 .. Len(q) : \A k \in 0 .. 3 :
                 Words(q)[4 * (i - 1) + k + 1] = Digit(q[i], k)
<1> DEFINE n == 4 * Len(q)
<1>1. Len(q) \in Nat /\ n \in Nat
  OBVIOUS
<1>2. \A j \in 1 .. n : (j - 1) \div 4 + 1 \in 1 .. Len(q) /\ (j - 1) % 4 \in 0 .. 3
  BY <1>1
<1>3. \A j \in 1 .. n : Digit(q[(j - 1) \div 4 + 1], (j - 1) % 4) \in Int
  <2> TAKE j \in 1 .. n
  <2>1. q[(j - 1) \div 4 + 1] \in Int
    BY <1>2
  <2> HIDE DEF n
  <2>2. Digit(q[(j - 1) \div 4 + 1], (j - 1) % 4) \in Byte
    BY <1>2, <2>1, ValueOf
  <2> QED BY <2>2, TablesAssumption DEF Byte
<1>4. Words(q) \in [1 .. n -> Int]
  BY <1>3 DEF Words
<1>5. ASSUME NEW i \in 1 .. Len(q), NEW k \in 0 .. 3
      PROVE  Words(q)[4 * (i - 1) + k + 1] = Digit(q[i], k)
  <2> DEFINE j == 4 * (i - 1) + k + 1
  <2>1. j \in 1 .. n /\ (j - 1) \div 4 + 1 = i /\ (j - 1) % 4 = k
    BY <1>1
  <2> HIDE DEF j
  <2> QED BY <2>1 DEF Words, j
<1>6. Words(q) \in Seq(Int) /\ Len(Words(q)) = n
  BY <1>1, <1>4
<1>7. \A i \in 1 .. Len(q) : \A k \in 0 .. 3 :
         Words(q)[4 * (i - 1) + k + 1] = Digit(q[i], k)
  BY <1>5
<1> QED BY <1>6, <1>7

(* b holds the bytes q from offset p on, as far as b goes.                 *)
Holds(b, p, q) == \A i \in 1 .. Len(q) : p + i <= Len(b) => b[p + i] = q[i]

(* b is a tables file for s, cut off somewhere or not.                     *)
CutOf(b, s) == /\ Len(b) \in 0 .. Len(Serialised(s))
               /\ \A i \in 1 .. Len(b) : b[i] = Serialised(s)[i]

LEMMA HoldsParts ==
    ASSUME NEW q \in Seq(Int), NEW r \in Seq(Int), NEW b, NEW p \in Nat, Len(b) \in Nat,
           Holds(b, p, q \o r)
    PROVE  Holds(b, p, q) /\ Holds(b, p + Len(q), r)
<1>1. /\ Len(q \o r) = Len(q) + Len(r) /\ Len(q) \in Nat /\ Len(r) \in Nat
      /\ \A i \in 1 .. Len(q) + Len(r) : (q \o r)[i] = IF i <= Len(q) THEN q[i] ELSE r[i - Len(q)]
  BY ConcatProperties
<1>2. Holds(b, p, q)
  <2> SUFFICES ASSUME NEW i \in 1 .. Len(q), p + i <= Len(b) PROVE b[p + i] = q[i]
    BY DEF Holds
  <2>1. i \in 1 .. Len(q \o r) /\ (q \o r)[i] = q[i]
    BY <1>1
  <2> QED BY <2>1 DEF Holds
<1>3. Holds(b, p + Len(q), r)
  <2> SUFFICES ASSUME NEW i \in 1 .. Len(r), (p + Len(q)) + i <= Len(b)
               PROVE b[(p + Len(q)) + i] = r[i]
    BY DEF Holds
  <2> DEFINE j == Len(q) + i
  <2>1. j \in 1 .. Len(q) + Len(r) /\ ~(j <= Len(q)) /\ j - Len(q) = i
        /\ p + j = (p + Len(q)) + i
    BY <1>1
  <2> HIDE DEF j
  <2>2. j \in 1 .. Len(q \o r) /\ (q \o r)[j] = r[i]
    BY <1>1, <2>1
  <2>3. b[p + j] = r[i]
    BY <2>1, <2>2 DEF Holds
  <2> QED BY <2>1, <2>3
<1> QED BY <1>2, <1>3

(* A word of the file is the one that was written, if it is there.         *)
LEMMA WordRead ==
    ASSUME NEW q \in Seq(Int), NEW b, NEW p \in Nat, Len(b) \in Nat, Holds(b, p, Words(q)),
           NEW i \in 1 .. Len(q), p + 4 * i <= Len(b)
    PROVE  /\ WordAt(b, p + 4 * (i - 1)) = Signed(Value(q[i]))
           /\ q[i] \in Int32 => WordAt(b, p + 4 * (i - 1)) = q[i]
<1>1. /\ Len(Words(q)) = 4 * Len(q) /\ Len(q) \in Nat /\ q[i] \in Int
      /\ \A k \in 0 .. 3 : Words(q)[4 * (i - 1) + k + 1] = Digit(q[i], k)
  <2>1. Len(q) \in Nat /\ q[i] \in Int
    OBVIOUS
  <2>2. /\ Len(Words(q)) = 4 * Len(q)
        /\ \A k \in 0 .. 3 : Words(q)[4 * (i - 1) + k + 1] = Digit(q[i], k)
    BY WordsAre
  <2> QED BY <2>1, <2>2
<1>2. ASSUME NEW k \in 0 .. 3 PROVE b[(p + 4 * (i - 1)) + (k + 1)] = Digit(q[i], k)
  <2> DEFINE j == 4 * (i - 1) + k + 1
  <2>1. j \in 1 .. Len(Words(q)) /\ p + j <= Len(b) /\ p + j = (p + 4 * (i - 1)) + (k + 1)
    BY <1>1
  <2>2. Words(q)[j] = Digit(q[i], k)
    BY <1>1
  <2> HIDE DEF j
  <2> QED BY <2>1, <2>2 DEF Holds
<1> DEFINE o == p + 4 * (i - 1)
<1>3. /\ b[o + 1] = Digit(q[i], 0) /\ b[o + 2] = Digit(q[i], 1)
      /\ b[o + 3] = Digit(q[i], 2) /\ b[o + 4] = Digit(q[i], 3)
  BY <1>2
<1> HIDE DEF o
<1>4. WordAt(b, o) = Signed(Value(q[i]))
  BY <1>3 DEF WordAt, Value
<1> QED BY <1>1, <1>4, ReadBack DEF o

LEMMA IntSeq ==
    ASSUME NEW S, S \subseteq Int, NEW q \in Seq(S)
    PROVE  q \in Seq(Int) /\ Len(q) \in Nat /\ \A i \in 1 .. Len(q) : q[i] \in S
<1>1. Len(q) \in Nat /\ q \in [1 .. Len(q) -> S]
  OBVIOUS
<1>2. q \in [1 .. Len(q) -> Int]
  BY <1>1
<1> QED BY <1>1, <1>2

LEMMA RangeSeq ==
    ASSUME NEW x \in Int, NEW y \in Int, NEW q \in Seq(x .. y)
    PROVE  q \in Seq(Int) /\ Len(q) \in Nat /\ \A i \in 1 .. Len(q) : q[i] \in x .. y
<1>1. x .. y \subseteq Int
  OBVIOUS
<1> QED BY <1>1, IntSeq

(* The arrays of words, and what their entries can be.                     *)
IntArrays(s) ==
    {"nxt", "acc_n", "acc_e", "cond_n", "cond_b", "trail"}
    \cup IF s.compressed THEN {"base", "def", "chk"} ELSE {}
Entry(s, a) ==
    CASE a = "ec" -> 0 .. Nclasses(s) - 1
      [] a \in {"acc_n", "acc_e"} -> -1 .. Len(s.trail) - 1
      [] a = "base" -> 0 .. Pool(s) - Nclasses(s)
      [] a \in {"nxt", "cond_n", "cond_b", "def", "chk"} -> -1 .. Nstates(s) - 1
      [] a = "trail" -> Int32
      [] OTHER -> Byte
Length(s, a) ==
    CASE a = "ec" -> Len(s.ec)
      [] a = "meta" -> Nclasses(s)
      [] a \in {"acc_n", "acc_e", "base", "def"} -> Nstates(s)
      [] a = "nxt" -> Len(s.nxt)
      [] a = "chk" -> Pool(s)
      [] a \in {"cond_n", "cond_b"} -> Len(s.cond_n)
      [] a = "trail" -> Len(s.trail)

LEMMA Shape ==
    ASSUME NEW s \in Scanners
    PROVE  /\ s.compressed \in BOOLEAN
           /\ Nstates(s) \in Nat \ {0} /\ Nclasses(s) \in Nat \ {0}
           /\ Len(s.nxt) \in Nat /\ Len(s.cond_n) \in Nat /\ Len(s.trail) \in Nat
           /\ Len(s.ec) \in Nat /\ Len(s.meta) \in Nat
           /\ Pool(s) \in Nat /\ (s.compressed => Pool(s) = Len(s.nxt))
           /\ ~s.compressed => Len(s.nxt) = Nstates(s) * Nclasses(s)
           /\ s.meta \in Seq(Int) /\ (\A i \in 1 .. Len(s.meta) : s.meta[i] \in Byte)
           /\ s.compressed => Len(s.meta) = Nclasses(s)
           /\ \A a \in IntArrays(s) \cup {"ec"} :
                 /\ s[a] \in Seq(Int) /\ Len(s[a]) = Length(s, a)
                 /\ \A i \in 1 .. Len(s[a]) : s[a][i] \in Entry(s, a)
           /\ \A a \in IntArrays(s) : \A i \in 1 .. Len(s[a]) : s[a][i] \in Int32
           /\ Nstates(s) \in Int32 /\ Nclasses(s) \in Int32 /\ Pool(s) \in Int32
           /\ Len(s.cond_n) \in Int32 /\ Len(s.trail) \in Int32
<1>1. WellFormed(s)
  BY ScannersAssumption
<1>2. /\ s.compressed \in BOOLEAN
      /\ Nstates(s) > 0 /\ Nclasses(s) \in 1 .. Radix /\ Nstates(s) = Len(s.acc_n)
      /\ Nstates(s) \in Int32 /\ Len(s.nxt) \in Int32
      /\ Len(s.cond_n) \in Int32 /\ Len(s.trail) \in Int32
  BY <1>1 DEF WellFormed, Nstates
<1>3. Radix \in Nat /\ Radix > 1 /\ Words32 \in Nat /\ Words32 >= 8 * Radix
  <2>1. Radix \in Nat /\ Radix > 1
    BY TablesAssumption
  <2>2. Radix * Radix >= 2 * Radix /\ Radix * Radix \in Nat
    BY <2>1
  <2>3. Radix * Radix * Radix >= 2 * (Radix * Radix) /\ Radix * Radix * Radix \in Nat
    BY <2>1, <2>2
  <2>4. Radix * (Radix * Radix * Radix) >= 2 * (Radix * Radix * Radix)
        /\ Radix * (Radix * Radix * Radix) \in Nat
    BY <2>1, <2>3
  <2> QED BY <2>1, <2>2, <2>3, <2>4 DEF Words32
<1>4. 0 \in Int32 /\ -1 \in Int32 /\ Nclasses(s) \in Int32 /\ Int32 \subseteq Int
  BY <1>2, <1>3 DEF Int32
<1>5. \A x \in Int, y \in Int : x \in {0, -1} /\ y \in Int32 => x .. y \subseteq Int32
  BY <1>3 DEF Int32
<1>6. /\ s.ec \in Seq(Int) /\ Len(s.ec) \in Nat
      /\ \A i \in 1 .. Len(s.ec) : s.ec[i] \in 0 .. Nclasses(s) - 1
  <2>1. s.ec \in Seq(0 .. Nclasses(s) - 1) /\ Nclasses(s) - 1 \in Int
    BY <1>1, <1>2, <1>3 DEF WellFormed
  <2> QED BY <2>1, RangeSeq
<1>7. /\ s.meta \in Seq(Int) /\ Len(s.meta) \in Nat
      /\ \A i \in 1 .. Len(s.meta) : s.meta[i] \in Byte
  <2>1. s.meta \in Seq(Byte) /\ Byte \subseteq Int
    BY <1>1, <1>3 DEF WellFormed, Byte
  <2> QED BY <2>1, IntSeq
<1>8. /\ s.nxt \in Seq(Int) /\ Len(s.nxt) \in Nat
      /\ \A i \in 1 .. Len(s.nxt) : s.nxt[i] \in -1 .. Nstates(s) - 1
  <2>1. s.nxt \in Seq(-1 .. Nstates(s) - 1) /\ Nstates(s) - 1 \in Int
    BY <1>1, <1>2, <1>4 DEF WellFormed
  <2> QED BY <2>1, RangeSeq
<1>9. /\ s.trail \in Seq(Int) /\ Len(s.trail) \in Nat
      /\ \A i \in 1 .. Len(s.trail) : s.trail[i] \in Int32
  <2>1. s.trail \in Seq(Int32)
    BY <1>1 DEF WellFormed
  <2> QED BY <1>4, <2>1, IntSeq
<1>10. ASSUME NEW a \in {"acc_n", "acc_e"}
       PROVE  /\ s[a] \in Seq(Int) /\ Len(s[a]) = Nstates(s) /\ Nstates(s) \in Nat
              /\ \A i \in 1 .. Len(s[a]) : s[a][i] \in -1 .. Len(s.trail) - 1
  <2>1. s[a] \in Seq(-1 .. Len(s.trail) - 1) /\ Len(s[a]) = Nstates(s)
    BY <1>1 DEF WellFormed, Nstates
  <2>2. Len(s.trail) - 1 \in Int /\ -1 \in Int
    BY <1>9
  <2>3. /\ s[a] \in Seq(Int) /\ Len(s[a]) \in Nat
        /\ \A i \in 1 .. Len(s[a]) : s[a][i] \in -1 .. Len(s.trail) - 1
    BY <2>1, <2>2, RangeSeq
  <2> QED BY <2>1, <2>3
<1>11. ASSUME NEW a \in {"cond_n", "cond_b"}
       PROVE  /\ s[a] \in Seq(Int) /\ Len(s[a]) = Len(s.cond_n) /\ Len(s.cond_n) \in Nat
              /\ \A i \in 1 .. Len(s[a]) : s[a][i] \in -1 .. Nstates(s) - 1
  <2>1. s[a] \in Seq(-1 .. Nstates(s) - 1) /\ Len(s[a]) = Len(s.cond_n)
    BY <1>1 DEF WellFormed
  <2>2. Nstates(s) - 1 \in Int /\ -1 \in Int
    BY <1>2, <1>4
  <2>3. /\ s[a] \in Seq(Int) /\ Len(s[a]) \in Nat
        /\ \A i \in 1 .. Len(s[a]) : s[a][i] \in -1 .. Nstates(s) - 1
    BY <2>1, <2>2, RangeSeq
  <2> QED BY <2>1, <2>3
<1>12. ASSUME s.compressed
       PROVE  /\ s.base \in Seq(Int) /\ Len(s.base) = Nstates(s)
              /\ \A i \in 1 .. Len(s.base) : s.base[i] \in 0 .. Pool(s) - Nclasses(s)
  <2>1. s.base \in Seq(0 .. Pool(s) - Nclasses(s)) /\ Len(s.base) = Nstates(s)
    BY <1>1, <1>12 DEF WellFormed
  <2>2. Pool(s) - Nclasses(s) \in Int
    BY <1>2, <1>3, <1>8, <1>12 DEF Pool
  <2> QED BY <2>1, <2>2, RangeSeq
<1>13. ASSUME s.compressed, NEW a \in {"def", "chk"}
       PROVE  /\ s[a] \in Seq(Int) /\ Len(s[a]) = IF a = "def" THEN Nstates(s) ELSE Pool(s)
              /\ \A i \in 1 .. Len(s[a]) : s[a][i] \in -1 .. Nstates(s) - 1
  <2>1. /\ s[a] \in Seq(-1 .. Nstates(s) - 1)
        /\ Len(s[a]) = IF a = "def" THEN Nstates(s) ELSE Pool(s)
    BY <1>1, <1>13 DEF WellFormed
  <2>2. Nstates(s) - 1 \in Int /\ -1 \in Int
    BY <1>2, <1>4
  <2>3. /\ s[a] \in Seq(Int) /\ Len(s[a]) \in Nat
        /\ \A i \in 1 .. Len(s[a]) : s[a][i] \in -1 .. Nstates(s) - 1
    BY <2>1, <2>2, RangeSeq
  <2> QED BY <2>1, <2>3
<1>14. /\ s.compressed => Pool(s) = Len(s.nxt) /\ Len(s.meta) = Nclasses(s)
       /\ ~s.compressed => Pool(s) = 0 /\ Len(s.nxt) = Nstates(s) * Nclasses(s)
  BY <1>1 DEF Pool, Nclasses, WellFormed
<1>15. Pool(s) \in Nat /\ Pool(s) \in Int32
  BY <1>2, <1>4, <1>8, <1>14
<1>16. ASSUME NEW a \in IntArrays(s) \cup {"ec"}
       PROVE  /\ s[a] \in Seq(Int) /\ Len(s[a]) = Length(s, a)
              /\ \A i \in 1 .. Len(s[a]) : s[a][i] \in Entry(s, a)
  <2>1. CASE a = "ec"
    BY <1>6, <2>1 DEF Length, Entry
  <2>2. CASE a = "nxt"
    BY <1>8, <2>2 DEF Length, Entry
  <2>3. CASE a \in {"acc_n", "acc_e"}
    BY <1>10, <2>3 DEF Length, Entry
  <2>4. CASE a \in {"cond_n", "cond_b"}
    BY <1>11, <2>4 DEF Length, Entry
  <2>5. CASE a = "trail"
    BY <1>9, <2>5 DEF Length, Entry
  <2>6. CASE a = "base" /\ s.compressed
    BY <1>12, <2>6 DEF Length, Entry
  <2>7. CASE a \in {"def", "chk"} /\ s.compressed
    BY <1>13, <2>7 DEF Length, Entry
  <2> QED BY <2>1, <2>2, <2>3, <2>4, <2>5, <2>6, <2>7 DEF IntArrays
<1>17. ASSUME NEW a \in IntArrays(s)
       PROVE  Entry(s, a) \subseteq Int32
  <2>1. /\ Nstates(s) - 1 \in Int32 /\ Len(s.trail) - 1 \in Int32
        /\ Pool(s) - Nclasses(s) \in Int /\ 2 * (Pool(s) - Nclasses(s)) < Words32
    <3>1. Nstates(s) \in Int /\ 2 * Nstates(s) < Words32 /\ 2 * Len(s.trail) < Words32
          /\ 2 * Pool(s) < Words32
      BY <1>2, <1>15 DEF Int32
    <3>2. \A y \in Int : y >= -1 /\ 2 * y < Words32 => y \in Int32
      BY <1>3 DEF Int32
    <3>3. Nstates(s) - 1 >= -1 /\ 2 * (Nstates(s) - 1) < Words32 /\ Nstates(s) - 1 \in Int
      BY <1>2, <1>3, <3>1
    <3>4. Len(s.trail) - 1 >= -1 /\ 2 * (Len(s.trail) - 1) < Words32 /\ Len(s.trail) - 1 \in Int
      BY <1>3, <1>9, <3>1
    <3>5. Nclasses(s) \in Int /\ Nclasses(s) > 0
      BY <1>2, <1>3
    <3>6. Pool(s) - Nclasses(s) \in Int /\ 2 * (Pool(s) - Nclasses(s)) < Words32
      BY <1>3, <1>15, <3>1, <3>5
    <3> QED BY <3>2, <3>3, <3>4, <3>6
  <2>2. 0 .. Pool(s) - Nclasses(s) \subseteq Int32
    BY <1>3, <2>1 DEF Int32
  <2>3. -1 .. Nstates(s) - 1 \subseteq Int32 /\ -1 .. Len(s.trail) - 1 \subseteq Int32
    BY <1>4, <1>5, <2>1
  <2> QED BY <2>2, <2>3 DEF IntArrays, Entry
<1>18. \A a \in IntArrays(s) : \A i \in 1 .. Len(s[a]) : s[a][i] \in Int32
  BY <1>16, <1>17
<1>19. Nstates(s) \in Nat \ {0} /\ Nclasses(s) \in Nat \ {0}
  BY <1>2, <1>3, <1>4
<1> QED BY <1>2, <1>4, <1>6, <1>7, <1>8, <1>9, <1>11, <1>14, <1>15, <1>16, <1>18, <1>19

(* Where the sections of a file for s start.                               *)
TableStart(s) == 34 + Len(s.ec) + Nclasses(s)
TableEnd(s) ==
    TableStart(s) + IF s.compressed THEN 8 * Nstates(s) + 8 * Len(s.nxt) ELSE 4 * Len(s.nxt)
Offset(s, x) ==
    CASE x = "ec" -> 34
      [] x = "meta" -> 34 + Len(s.ec)
      [] x \in {"pool", "base"} -> TableStart(s)
      [] x = "def" -> TableStart(s) + 4 * Nstates(s)
      [] x = "nxt" -> TableStart(s) + IF s.compressed THEN 8 * Nstates(s) ELSE 0
      [] x = "chk" -> TableStart(s) + 8 * Nstates(s) + 4 * Len(s.nxt)
      [] x = "acc_n" -> TableEnd(s)
      [] x = "acc_e" -> TableEnd(s) + 4 * Nstates(s)
      [] x = "ncond" -> TableEnd(s) + 8 * Nstates(s)
      [] x = "cond_n" -> TableEnd(s) + 8 * Nstates(s) + 4
      [] x = "cond_b" -> TableEnd(s) + 8 * Nstates(s) + 4 + 4 * Len(s.cond_n)
      [] x = "trail" -> TableEnd(s) + 8 * Nstates(s) + 4 + 8 * Len(s.cond_n)

HeadWords == <<Magic, 1, Len(Name)>>
Fields(s) == <<IF s.compressed THEN 1 ELSE 0, Nclasses(s), Nstates(s), Len(s.trail), Pool(s)>>

(* A sequence of numbers of a given length, and two of them in a row.      *)
IsInts(q, n) == q \in Seq(Int) /\ Len(q) = n /\ n \in Nat
LEMMA Row ==
    ASSUME NEW q, NEW m, IsInts(q, m), NEW r, NEW n, IsInts(r, n)
    PROVE  IsInts(q \o r, m + n)
<1>1. q \in Seq(Int) /\ r \in Seq(Int) /\ Len(q) = m /\ Len(r) = n /\ m \in Nat /\ n \in Nat
  BY DEF IsInts
<1>2. q \o r \in Seq(Int) /\ Len(q \o r) = m + n
  BY <1>1, ConcatProperties
<1> QED BY <1>1, <1>2 DEF IsInts

LEMMA RowHeld ==
    ASSUME NEW q, NEW m, IsInts(q, m), NEW r, NEW n, IsInts(r, n),
           NEW b, NEW p \in Nat, Len(b) \in Nat, Holds(b, p, q \o r)
    PROVE  Holds(b, p, q) /\ Holds(b, p + m, r)
<1>1. q \in Seq(Int) /\ r \in Seq(Int) /\ Len(q) = m
  BY DEF IsInts
<1>2. Holds(b, p, q) /\ Holds(b, p + Len(q), r)
  BY <1>1, HoldsParts
<1> QED BY <1>1, <1>2

LEMMA RowFirst ==
    ASSUME NEW q, NEW m, IsInts(q, m), NEW r, NEW n, IsInts(r, n),
           NEW b, Len(b) \in Nat, Holds(b, 0, q \o r)
    PROVE  Holds(b, 0, q) /\ Holds(b, m, r)
<1>1. m \in Nat /\ 0 + m = m
  BY DEF IsInts
<1>2. Holds(b, 0, q) /\ Holds(b, 0 + m, r)
  BY RowHeld
<1> QED BY <1>1, <1>2

LEMMA WordsRow ==
    ASSUME NEW q, NEW n, IsInts(q, n)
    PROVE  IsInts(Words(q), 4 * n)
BY WordsAre DEF IsInts

LEMMA MetaBytesAre ==
    ASSUME NEW s \in Scanners
    PROVE  IsInts(MetaBytes(s), Nclasses(s))
<1>1. /\ Nclasses(s) \in Nat /\ Len(s.meta) \in Nat /\ Byte \subseteq Int
      /\ \A i \in 1 .. Len(s.meta) : s.meta[i] \in Byte
  BY Shape, TablesAssumption DEF Byte
<1>2. \A i \in 1 .. Nclasses(s) : i <= Len(s.meta) => i \in 1 .. Len(s.meta)
  BY <1>1
<1>3. ASSUME NEW i \in 1 .. Nclasses(s)
      PROVE  (IF i <= Len(s.meta) THEN s.meta[i] ELSE i - 1) \in Int
  <2>1. CASE i <= Len(s.meta)
    <3>1. s.meta[i] \in Byte
      BY <1>1, <1>2, <2>1
    <3> QED BY <1>1, <2>1, <3>1
  <2>2. CASE ~(i <= Len(s.meta))
    BY <1>1, <2>2
  <2> QED BY <2>1, <2>2
<1>4. MetaBytes(s) \in [1 .. Nclasses(s) -> Int]
  BY <1>3 DEF MetaBytes
<1> QED BY <1>1, <1>4 DEF IsInts

(* The body of a file: the comb, or the full table.                        *)
BodyOf(s) ==
    IF s.compressed
    THEN Words(s.base) \o Words(s.def) \o Words(s.nxt) \o Words(s.chk)
    ELSE Words(s.nxt)

LEMMA BodyAre ==
    ASSUME NEW s \in Scanners
    PROVE  /\ IsInts(BodyOf(s), TableEnd(s) - TableStart(s))
           /\ \A b : Len(b) \in Nat /\ Holds(b, TableStart(s), BodyOf(s)) =>
                 \A a \in {"base", "def", "nxt", "chk"} \cap IntArrays(s) :
                    Holds(b, Offset(s, a), Words(s[a]))
<1> DEFINE N == Nstates(s)  P == Len(s.nxt)  T == TableStart(s)
<1>1. /\ s.compressed \in BOOLEAN /\ N \in Nat /\ P \in Nat /\ T \in Nat
      /\ (s.compressed => Pool(s) = P)
  BY Shape DEF TableStart
<1>2. \A a \in IntArrays(s) : s[a] \in Seq(Int) /\ Len(s[a]) = Length(s, a)
  BY Shape
<1>3. CASE s.compressed
  <2>1. /\ IsInts(s.base, N) /\ IsInts(s.def, N) /\ IsInts(s.nxt, P) /\ IsInts(s.chk, P)
    BY <1>1, <1>2, <1>3 DEF IsInts, Length, IntArrays
  <2> DEFINE w1 == Words(s.base)  w2 == Words(s.def)  w3 == Words(s.nxt)  w4 == Words(s.chk)
  <2>2. IsInts(w1, 4 * N) /\ IsInts(w2, 4 * N) /\ IsInts(w3, 4 * P) /\ IsInts(w4, 4 * P)
    BY <2>1, WordsRow
  <2> DEFINE v2 == w1 \o w2  v3 == v2 \o w3  v4 == v3 \o w4
  <2>3. BodyOf(s) = v4
    BY <1>3 DEF BodyOf
  <2> HIDE DEF w1, w2, w3, w4
  <2>4. IsInts(v2, 4 * N + 4 * N)
    BY <2>2, Row
  <2> HIDE DEF v2
  <2>5. IsInts(v3, (4 * N + 4 * N) + 4 * P)
    BY <2>2, <2>4, Row
  <2> HIDE DEF v3
  <2>6. IsInts(v4, ((4 * N + 4 * N) + 4 * P) + 4 * P)
    BY <2>2, <2>5, Row
  <2> HIDE DEF v4
  <2>7. /\ TableEnd(s) - TableStart(s) = ((4 * N + 4 * N) + 4 * P) + 4 * P
        /\ Offset(s, "base") = T /\ Offset(s, "def") = T + 4 * N
        /\ Offset(s, "nxt") = T + (4 * N + 4 * N)
        /\ Offset(s, "chk") = T + ((4 * N + 4 * N) + 4 * P)
    BY <1>1, <1>3 DEF TableEnd, Offset
  <2>8. ASSUME NEW b, Len(b) \in Nat, Holds(b, T, BodyOf(s)),
               NEW a \in {"base", "def", "nxt", "chk"}
        PROVE  Holds(b, Offset(s, a), Words(s[a]))
    <3>1. Holds(b, T, v3) /\ Holds(b, T + ((4 * N + 4 * N) + 4 * P), w4)
      BY <1>1, <2>2, <2>3, <2>5, <2>8, RowHeld DEF v4
    <3>2. Holds(b, T, v2) /\ Holds(b, T + (4 * N + 4 * N), w3)
      BY <1>1, <2>2, <2>4, <2>8, <3>1, RowHeld DEF v3
    <3>3. Holds(b, T, w1) /\ Holds(b, T + 4 * N, w2)
      BY <1>1, <2>2, <2>8, <3>2, RowHeld DEF v2
    <3> QED BY <2>7, <3>1, <3>2, <3>3 DEF w1, w2, w3, w4
  <2> QED BY <2>3, <2>6, <2>7, <2>8
<1>4. CASE ~s.compressed
  <2>1. IsInts(s.nxt, P)
    BY <1>1, <1>2 DEF IsInts, IntArrays
  <2>2. BodyOf(s) = Words(s.nxt) /\ TableEnd(s) - TableStart(s) = 4 * P /\ Offset(s, "nxt") = T
    BY <1>1, <1>4 DEF BodyOf, TableEnd, Offset
  <2>3. IntArrays(s) \cap {"base", "def", "nxt", "chk"} = {"nxt"}
    BY <1>4 DEF IntArrays
  <2>4. IsInts(Words(s.nxt), 4 * P)
    BY <2>1, WordsRow
  <2> QED BY <2>2, <2>3, <2>4
<1> QED BY <1>1, <1>3, <1>4

(* Where everything is in a file, cut off or not.                          *)
LEMMA Layout ==
    ASSUME NEW s \in Scanners
    PROVE  /\ Len(Serialised(s)) = Offset(s, "trail") + 4 * Len(s.trail)
           /\ Len(Serialised(s)) \in Nat /\ Serialised(s) \in Seq(Int)
           /\ \A b : CutOf(b, s) =>
                 /\ Len(b) \in Nat
                 /\ Holds(b, 0, Words(HeadWords)) /\ Holds(b, 14, Words(Fields(s)))
                 /\ Holds(b, Offset(s, "ec"), s.ec) /\ Holds(b, Offset(s, "meta"), MetaBytes(s))
                 /\ \A a \in IntArrays(s) : Holds(b, Offset(s, a), Words(s[a]))
                 /\ Holds(b, Offset(s, "ncond"), Words(<<Len(s.cond_n)>>))
<1> DEFINE E == Len(s.ec)  C == Nclasses(s)  N == Nstates(s)  K == Len(s.cond_n)  T == Len(s.trail)
           B == TableEnd(s) - TableStart(s)
<1>1. /\ E \in Nat /\ C \in Nat /\ N \in Nat /\ K \in Nat /\ T \in Nat /\ Len(s.nxt) \in Nat
      /\ s.compressed \in BOOLEAN /\ Pool(s) \in Nat
  BY Shape
<1>2. /\ TableStart(s) \in Nat /\ TableEnd(s) \in Nat /\ B \in Nat
      /\ TableStart(s) = 34 + E + C /\ TableStart(s) + B = TableEnd(s)
  <2>1. TableStart(s) \in Nat /\ TableStart(s) = 34 + E + C
    BY <1>1 DEF TableStart
  <2>2. PICK z \in Nat : TableEnd(s) = TableStart(s) + z
    <3>1. 8 * N + 8 * Len(s.nxt) \in Nat /\ 4 * Len(s.nxt) \in Nat
      BY <1>1
    <3> QED BY <3>1 DEF TableEnd
  <2> QED BY <2>1, <2>2
<1>3. /\ IsInts(s.ec, E) /\ IsInts(s.acc_n, N) /\ IsInts(s.acc_e, N)
      /\ IsInts(s.cond_n, K) /\ IsInts(s.cond_b, K) /\ IsInts(s.trail, T)
  <2>1. \A a \in {"ec", "acc_n", "acc_e", "cond_n", "cond_b", "trail"} :
           s[a] \in Seq(Int) /\ Len(s[a]) = Length(s, a)
    BY Shape DEF IntArrays
  <2> QED BY <1>1, <2>1 DEF IsInts, Length
<1>4. /\ IsInts(HeadWords, 3) /\ IsInts(Name, 2) /\ IsInts(Fields(s), 5) /\ IsInts(<<K>>, 1)
  <2>1. Magic \in Int /\ Len(Name) = 2
    BY TablesAssumption DEF Name
  <2>2. IsInts(HeadWords, 3) /\ IsInts(Name, 2) /\ IsInts(<<K>>, 1)
    BY <1>1, <2>1 DEF IsInts, HeadWords, Name
  <2>3. IsInts(Fields(s), 5)
    BY <1>1 DEF IsInts, Fields
  <2> QED BY <2>2, <2>3
<1> DEFINE p1 == Words(HeadWords)
           p2 == Name
           p3 == Words(Fields(s))
           p4 == s.ec
           p5 == MetaBytes(s)
           p6 == BodyOf(s)
           p7 == Words(s.acc_n)
           p8 == Words(s.acc_e)
           p9 == Words(<<K>>)
           p10 == Words(s.cond_n)
           p11 == Words(s.cond_b)
           p12 == Words(s.trail)
<1>5. /\ IsInts(p1, 12)
      /\ IsInts(p2, 2)
      /\ IsInts(p3, 20)
      /\ IsInts(p4, E)
      /\ IsInts(p5, C)
      /\ IsInts(p6, B)
      /\ IsInts(p7, 4 * N)
      /\ IsInts(p8, 4 * N)
      /\ IsInts(p9, 4)
      /\ IsInts(p10, 4 * K)
      /\ IsInts(p11, 4 * K)
      /\ IsInts(p12, 4 * T)
  <2>1. /\ IsInts(p1, 4 * 3) /\ IsInts(p3, 4 * 5) /\ IsInts(p7, 4 * N) /\ IsInts(p8, 4 * N)
        /\ IsInts(p9, 4 * 1) /\ IsInts(p10, 4 * K) /\ IsInts(p11, 4 * K) /\ IsInts(p12, 4 * T)
    BY <1>3, <1>4, WordsRow
  <2>2. IsInts(p5, C) /\ IsInts(p6, B)
    BY MetaBytesAre, BodyAre
  <2> QED BY <1>3, <1>4, <2>1, <2>2
<1> DEFINE c2 == p1 \o p2
           c3 == c2 \o p3
           c4 == c3 \o p4
           c5 == c4 \o p5
           c6 == c5 \o p6
           c7 == c6 \o p7
           c8 == c7 \o p8
           c9 == c8 \o p9
           c10 == c9 \o p10
           c11 == c10 \o p11
           c12 == c11 \o p12
<1>6. Serialised(s) = c12
  BY DEF Serialised, BodyOf, HeadWords, Fields
<1> HIDE DEF p1, p2, p3, p4, p5, p6, p7, p8, p9, p10, p11, p12
<1>7. IsInts(c2, 14)
  <2>1. IsInts(p1 \o p2, (12) + 2)
    BY <1>5, Row
  <2>2. (12) + 2 = 14
    BY <1>1, <1>2
  <2> QED BY <2>1, <2>2
<1> HIDE DEF c2
<1>8. IsInts(c3, 34)
  <2>1. IsInts(c2 \o p3, (14) + 20)
    BY <1>5, <1>7, Row
  <2>2. (14) + 20 = 34
    BY <1>1, <1>2
  <2> QED BY <2>1, <2>2
<1> HIDE DEF c3
<1>9. IsInts(c4, 34 + E)
  <2>1. IsInts(c3 \o p4, (34) + E)
    BY <1>5, <1>8, Row
  <2>2. (34) + E = 34 + E
    BY <1>1, <1>2
  <2> QED BY <2>1, <2>2
<1> HIDE DEF c4
<1>10. IsInts(c5, TableStart(s))
  <2>1. IsInts(c4 \o p5, (34 + E) + C)
    BY <1>5, <1>9, Row
  <2>2. (34 + E) + C = TableStart(s)
    BY <1>1, <1>2
  <2> QED BY <2>1, <2>2
<1> HIDE DEF c5
<1>11. IsInts(c6, TableEnd(s))
  <2>1. IsInts(c5 \o p6, (TableStart(s)) + B)
    BY <1>5, <1>10, Row
  <2>2. (TableStart(s)) + B = TableEnd(s)
    BY <1>1, <1>2
  <2> QED BY <2>1, <2>2
<1> HIDE DEF c6
<1>12. IsInts(c7, TableEnd(s) + 4 * N)
  <2>1. IsInts(c6 \o p7, (TableEnd(s)) + 4 * N)
    BY <1>5, <1>11, Row
  <2>2. (TableEnd(s)) + 4 * N = TableEnd(s) + 4 * N
    BY <1>1, <1>2
  <2> QED BY <2>1, <2>2
<1> HIDE DEF c7
<1>13. IsInts(c8, TableEnd(s) + 8 * N)
  <2>1. IsInts(c7 \o p8, (TableEnd(s) + 4 * N) + 4 * N)
    BY <1>5, <1>12, Row
  <2>2. (TableEnd(s) + 4 * N) + 4 * N = TableEnd(s) + 8 * N
    BY <1>1, <1>2
  <2> QED BY <2>1, <2>2
<1> HIDE DEF c8
<1>14. IsInts(c9, TableEnd(s) + 8 * N + 4)
  <2>1. IsInts(c8 \o p9, (TableEnd(s) + 8 * N) + 4)
    BY <1>5, <1>13, Row
  <2>2. (TableEnd(s) + 8 * N) + 4 = TableEnd(s) + 8 * N + 4
    BY <1>1, <1>2
  <2> QED BY <2>1, <2>2
<1> HIDE DEF c9
<1>15. IsInts(c10, TableEnd(s) + 8 * N + 4 + 4 * K)
  <2>1. IsInts(c9 \o p10, (TableEnd(s) + 8 * N + 4) + 4 * K)
    BY <1>5, <1>14, Row
  <2>2. (TableEnd(s) + 8 * N + 4) + 4 * K = TableEnd(s) + 8 * N + 4 + 4 * K
    BY <1>1, <1>2
  <2> QED BY <2>1, <2>2
<1> HIDE DEF c10
<1>16. IsInts(c11, TableEnd(s) + 8 * N + 4 + 8 * K)
  <2>1. IsInts(c10 \o p11, (TableEnd(s) + 8 * N + 4 + 4 * K) + 4 * K)
    BY <1>5, <1>15, Row
  <2>2. (TableEnd(s) + 8 * N + 4 + 4 * K) + 4 * K = TableEnd(s) + 8 * N + 4 + 8 * K
    <3>1. N \in Nat /\ K \in Nat /\ TableEnd(s) \in Nat
      BY <1>1, <1>2
    <3> HIDE DEF N, K
    <3> QED BY <3>1
  <2> QED BY <2>1, <2>2
<1> HIDE DEF c11
<1>17. IsInts(c12, TableEnd(s) + 8 * N + 4 + 8 * K + 4 * T)
  <2>1. IsInts(c11 \o p12, (TableEnd(s) + 8 * N + 4 + 8 * K) + 4 * T)
    BY <1>5, <1>16, Row
  <2>2. (TableEnd(s) + 8 * N + 4 + 8 * K) + 4 * T = TableEnd(s) + 8 * N + 4 + 8 * K + 4 * T
    BY <1>1, <1>2
  <2> QED BY <2>1, <2>2
<1> HIDE DEF c12
<1>18. ASSUME NEW b, CutOf(b, s)
      PROVE  /\ Len(b) \in Nat
             /\ Holds(b, 0, p1)
             /\ Holds(b, 14, p3)
             /\ Holds(b, 34, p4)
             /\ Holds(b, 34 + E, p5)
             /\ Holds(b, TableStart(s), p6)
             /\ Holds(b, TableEnd(s), p7)
             /\ Holds(b, TableEnd(s) + 4 * N, p8)
             /\ Holds(b, TableEnd(s) + 8 * N, p9)
             /\ Holds(b, TableEnd(s) + 8 * N + 4, p10)
             /\ Holds(b, TableEnd(s) + 8 * N + 4 + 4 * K, p11)
             /\ Holds(b, TableEnd(s) + 8 * N + 4 + 8 * K, p12)
  <2>1. Len(b) \in Nat
    BY <1>6, <1>17, <1>18 DEF CutOf, IsInts
  <2>2. Holds(b, 0, c12)
    BY <1>6, <2>1, <1>17, <1>18 DEF CutOf, Holds, IsInts
  <2>3. Holds(b, 0, c11) /\ Holds(b, TableEnd(s) + 8 * N + 4 + 8 * K, p12)
    BY <1>5, <1>16, <2>1, <2>2, RowFirst DEF c12
  <2>4. Holds(b, 0, c10) /\ Holds(b, TableEnd(s) + 8 * N + 4 + 4 * K, p11)
    BY <1>5, <1>15, <2>1, <2>3, RowFirst DEF c11
  <2>5. Holds(b, 0, c9) /\ Holds(b, TableEnd(s) + 8 * N + 4, p10)
    BY <1>5, <1>14, <2>1, <2>4, RowFirst DEF c10
  <2>6. Holds(b, 0, c8) /\ Holds(b, TableEnd(s) + 8 * N, p9)
    BY <1>5, <1>13, <2>1, <2>5, RowFirst DEF c9
  <2>7. Holds(b, 0, c7) /\ Holds(b, TableEnd(s) + 4 * N, p8)
    BY <1>5, <1>12, <2>1, <2>6, RowFirst DEF c8
  <2>8. Holds(b, 0, c6) /\ Holds(b, TableEnd(s), p7)
    BY <1>5, <1>11, <2>1, <2>7, RowFirst DEF c7
  <2>9. Holds(b, 0, c5) /\ Holds(b, TableStart(s), p6)
    BY <1>5, <1>10, <2>1, <2>8, RowFirst DEF c6
  <2>10. Holds(b, 0, c4) /\ Holds(b, 34 + E, p5)
    BY <1>5, <1>9, <2>1, <2>9, RowFirst DEF c5
  <2>11. Holds(b, 0, c3) /\ Holds(b, 34, p4)
    BY <1>5, <1>8, <2>1, <2>10, RowFirst DEF c4
  <2>12. Holds(b, 0, c2) /\ Holds(b, 14, p3)
    BY <1>5, <1>7, <2>1, <2>11, RowFirst DEF c3
  <2>13. Holds(b, 0, p1) /\ Holds(b, 12, p2)
    BY <1>5, <2>1, <2>12, RowFirst DEF c2
  <2> QED BY <2>1, <2>3, <2>4, <2>5, <2>6, <2>7, <2>8, <2>9, <2>10, <2>11, <2>12, <2>13
<1>19. /\ Offset(s, "ec") = 34 /\ Offset(s, "meta") = 34 + E
       /\ Offset(s, "acc_n") = TableEnd(s) /\ Offset(s, "acc_e") = TableEnd(s) + 4 * N
       /\ Offset(s, "ncond") = TableEnd(s) + 8 * N
       /\ Offset(s, "cond_n") = TableEnd(s) + 8 * N + 4
       /\ Offset(s, "cond_b") = TableEnd(s) + 8 * N + 4 + 4 * K
       /\ Offset(s, "trail") = TableEnd(s) + 8 * N + 4 + 8 * K
  BY DEF Offset
<1>20. ASSUME NEW b, CutOf(b, s), NEW a \in IntArrays(s)
       PROVE  Holds(b, Offset(s, a), Words(s[a]))
  <2>1. CASE a \in {"base", "def", "nxt", "chk"}
    <3>1. Len(b) \in Nat /\ Holds(b, TableStart(s), BodyOf(s))
      BY <1>18, <1>20 DEF p6
    <3> QED BY <2>1, <3>1, BodyAre
  <2>2. CASE a \in {"acc_n", "acc_e", "cond_n", "cond_b", "trail"}
    BY <1>18, <1>19, <1>20, <2>2 DEF p7, p8, p10, p11, p12
  <2> QED BY <2>1, <2>2 DEF IntArrays
<1>21. /\ Len(Serialised(s)) = Offset(s, "trail") + 4 * T /\ Len(Serialised(s)) \in Nat
       /\ Serialised(s) \in Seq(Int)
  BY <1>6, <1>17, <1>19 DEF IsInts
<1> QED BY <1>18, <1>19, <1>20, <1>21 DEF p1, p3, p4, p5, p9

(* The sections follow each other without a gap, up to the end.            *)
Names(s) == {"ec", "meta", "acc_n", "acc_e", "ncond", "cond_n", "cond_b", "trail", "nxt"}
            \cup IF s.compressed THEN {"pool", "base", "def", "chk"} ELSE {}
Size(s, x) ==
    CASE x = "pool" -> 0
      [] x = "ncond" -> 4
      [] x \in {"ec", "meta"} -> Length(s, x)
      [] OTHER -> 4 * Length(s, x)
Follows(s, x) ==
    CASE x = "ec" -> "meta"
      [] x = "meta" -> IF s.compressed THEN "pool" ELSE "nxt"
      [] x = "pool" -> "base"
      [] x = "base" -> "def"
      [] x = "def" -> "nxt"
      [] x = "nxt" -> IF s.compressed THEN "chk" ELSE "acc_n"
      [] x = "chk" -> "acc_n"
      [] x = "acc_n" -> "acc_e"
      [] x = "acc_e" -> "ncond"
      [] x = "ncond" -> "cond_n"
      [] x = "cond_n" -> "cond_b"
      [] x = "cond_b" -> "trail"

LEMMA Offsets ==
    ASSUME NEW s \in Scanners, NEW x \in Names(s)
    PROVE  /\ Offset(s, x) \in Nat /\ Offset(s, x) >= 34 /\ Size(s, x) \in Nat
           /\ Offset(s, x) + Size(s, x) <= Len(Serialised(s))
           /\ x # "trail" => Offset(s, Follows(s, x)) = Offset(s, x) + Size(s, x)
<1> DEFINE E == Len(s.ec)  C == Nclasses(s)  N == Nstates(s)  P == Len(s.nxt)
           K == Len(s.cond_n)  T == Len(s.trail)  L == Len(Serialised(s))
<1>1. /\ E \in Nat /\ C \in Nat /\ N \in Nat /\ P \in Nat /\ K \in Nat /\ T \in Nat
      /\ s.compressed \in BOOLEAN /\ (s.compressed => Pool(s) = P)
  BY Shape
<1>2. L = Offset(s, "trail") + 4 * T
  BY Layout
<1>3. /\ Length(s, "ec") = E /\ Length(s, "meta") = C /\ Length(s, "nxt") = P
      /\ (\A a \in {"acc_n", "acc_e", "base", "def"} : Length(s, a) = N)
      /\ (s.compressed => Length(s, "chk") = P)
      /\ Length(s, "cond_n") = K /\ Length(s, "cond_b") = K /\ Length(s, "trail") = T
  BY <1>1 DEF Length
<1> DEFINE A == 34 + E + C  Z == IF s.compressed THEN A + 8 * N + 8 * P ELSE A + 4 * P
<1>4. TableStart(s) = A /\ TableEnd(s) = Z
  <2>1. TableStart(s) = A
    BY DEF TableStart
  <2>2. CASE s.compressed
    BY <1>1, <2>1, <2>2 DEF TableEnd
  <2>3. CASE ~s.compressed
    BY <1>1, <2>1, <2>3 DEF TableEnd
  <2> QED BY <2>1, <2>2, <2>3
<1>5. /\ Offset(s, "ec") = 34 /\ Offset(s, "meta") = 34 + E
      /\ Offset(s, "pool") = A /\ Offset(s, "base") = A /\ Offset(s, "def") = A + 4 * N
      /\ Offset(s, "nxt") = A + (IF s.compressed THEN 8 * N ELSE 0)
      /\ Offset(s, "chk") = A + 8 * N + 4 * P
      /\ Offset(s, "acc_n") = Z /\ Offset(s, "acc_e") = Z + 4 * N
      /\ Offset(s, "ncond") = Z + 8 * N /\ Offset(s, "cond_n") = Z + 8 * N + 4
      /\ Offset(s, "cond_b") = Z + 8 * N + 4 + 4 * K
      /\ Offset(s, "trail") = Z + 8 * N + 4 + 8 * K
  BY <1>4 DEF Offset
<1>6. /\ Size(s, "ec") = E /\ Size(s, "meta") = C /\ Size(s, "pool") = 0
      /\ Size(s, "nxt") = 4 * P /\ Size(s, "ncond") = 4
      /\ (\A a \in {"acc_n", "acc_e", "base", "def"} : Size(s, a) = 4 * N)
      /\ (s.compressed => Size(s, "chk") = 4 * P)
      /\ Size(s, "cond_n") = 4 * K /\ Size(s, "cond_b") = 4 * K /\ Size(s, "trail") = 4 * T
  BY <1>3 DEF Size
<1> DEFINE Good(y) == /\ Offset(s, y) \in Nat /\ Offset(s, y) >= 34 /\ Size(s, y) \in Nat
                      /\ Offset(s, y) + Size(s, y) <= L
                      /\ y # "trail" => Offset(s, Follows(s, y)) = Offset(s, y) + Size(s, y)
<1> HIDE DEF E, C, N, P, K, T, L
<1>7. A \in Nat /\ A >= 34 /\ A = 34 + E + C
  BY <1>1
<1>8. /\ s.compressed => Z = A + 8 * N + 8 * P
      /\ ~s.compressed => Z = A + 4 * P
  OBVIOUS
<1> HIDE DEF A, Z
<1>9. Z \in Nat /\ Z >= A
  BY <1>1, <1>7, <1>8
<1>10. L = Z + 8 * N + 4 + 8 * K + 4 * T /\ L \in Nat
  BY <1>1, <1>2, <1>5, <1>9
<1>11. /\ s.compressed => Offset(s, "nxt") = A + 8 * N
       /\ ~s.compressed => Offset(s, "nxt") = A
  BY <1>1, <1>5, <1>7
<1>12. Good("ec")
  <2>1. /\ Offset(s, "ec") = 34 /\ Size(s, "ec") = E
        /\ Follows(s, "ec") = "meta" /\ Offset(s, "meta") = 34 + E
    BY <1>1, <1>5, <1>6, <1>11 DEF Follows
  <2>2. /\ 34 \in Nat /\ 34 >= 34 /\ E \in Nat
        /\ (34) + E <= L /\ 34 + E = (34) + E
    BY <1>1, <1>7, <1>8, <1>9, <1>10
  <2> QED BY <2>1, <2>2
<1>13. ASSUME s.compressed PROVE Good("meta")
  <2>1. /\ Offset(s, "meta") = 34 + E /\ Size(s, "meta") = C
        /\ Follows(s, "meta") = "pool" /\ Offset(s, "pool") = A
    BY <1>1, <1>5, <1>6, <1>11, <1>13 DEF Follows
  <2>2. /\ 34 + E \in Nat /\ 34 + E >= 34 /\ C \in Nat
        /\ (34 + E) + C <= L /\ A = (34 + E) + C
    BY <1>1, <1>7, <1>8, <1>9, <1>10, <1>13
  <2> QED BY <2>1, <2>2
<1>14. ASSUME ~s.compressed PROVE Good("meta")
  <2>1. /\ Offset(s, "meta") = 34 + E /\ Size(s, "meta") = C
        /\ Follows(s, "meta") = "nxt" /\ Offset(s, "nxt") = A
    BY <1>1, <1>5, <1>6, <1>11, <1>14 DEF Follows
  <2>2. /\ 34 + E \in Nat /\ 34 + E >= 34 /\ C \in Nat
        /\ (34 + E) + C <= L /\ A = (34 + E) + C
    BY <1>1, <1>7, <1>8, <1>9, <1>10, <1>14
  <2> QED BY <2>1, <2>2
<1>15. ASSUME s.compressed PROVE Good("pool")
  <2>1. /\ Offset(s, "pool") = A /\ Size(s, "pool") = 0
        /\ Follows(s, "pool") = "base" /\ Offset(s, "base") = A
    BY <1>1, <1>5, <1>6, <1>11, <1>15 DEF Follows
  <2>2. /\ A \in Nat /\ A >= 34 /\ 0 \in Nat
        /\ (A) + 0 <= L /\ A = (A) + 0
    BY <1>1, <1>7, <1>8, <1>9, <1>10, <1>15
  <2> QED BY <2>1, <2>2
<1>16. ASSUME s.compressed PROVE Good("base")
  <2>1. /\ Offset(s, "base") = A /\ Size(s, "base") = 4 * N
        /\ Follows(s, "base") = "def" /\ Offset(s, "def") = A + 4 * N
    BY <1>1, <1>5, <1>6, <1>11, <1>16 DEF Follows
  <2>2. /\ A \in Nat /\ A >= 34 /\ 4 * N \in Nat
        /\ (A) + 4 * N <= L /\ A + 4 * N = (A) + 4 * N
    BY <1>1, <1>7, <1>8, <1>9, <1>10, <1>16
  <2> QED BY <2>1, <2>2
<1>17. ASSUME s.compressed PROVE Good("def")
  <2>1. /\ Offset(s, "def") = A + 4 * N /\ Size(s, "def") = 4 * N
        /\ Follows(s, "def") = "nxt" /\ Offset(s, "nxt") = A + 8 * N
    BY <1>1, <1>5, <1>6, <1>11, <1>17 DEF Follows
  <2>2. /\ A + 4 * N \in Nat /\ A + 4 * N >= 34 /\ 4 * N \in Nat
        /\ (A + 4 * N) + 4 * N <= L /\ A + 8 * N = (A + 4 * N) + 4 * N
    BY <1>1, <1>7, <1>8, <1>9, <1>10, <1>17
  <2> QED BY <2>1, <2>2
<1>18. ASSUME s.compressed PROVE Good("nxt")
  <2>1. /\ Offset(s, "nxt") = A + 8 * N /\ Size(s, "nxt") = 4 * P
        /\ Follows(s, "nxt") = "chk" /\ Offset(s, "chk") = A + 8 * N + 4 * P
    BY <1>1, <1>5, <1>6, <1>11, <1>18 DEF Follows
  <2>2. /\ A + 8 * N \in Nat /\ A + 8 * N >= 34 /\ 4 * P \in Nat
        /\ (A + 8 * N) + 4 * P <= L /\ A + 8 * N + 4 * P = (A + 8 * N) + 4 * P
    BY <1>1, <1>7, <1>8, <1>9, <1>10, <1>18
  <2> QED BY <2>1, <2>2
<1>19. ASSUME ~s.compressed PROVE Good("nxt")
  <2>1. /\ Offset(s, "nxt") = A /\ Size(s, "nxt") = 4 * P
        /\ Follows(s, "nxt") = "acc_n" /\ Offset(s, "acc_n") = Z
    BY <1>1, <1>5, <1>6, <1>11, <1>19 DEF Follows
  <2>2. /\ A \in Nat /\ A >= 34 /\ 4 * P \in Nat
        /\ (A) + 4 * P <= L /\ Z = (A) + 4 * P
    BY <1>1, <1>7, <1>8, <1>9, <1>10, <1>19
  <2> QED BY <2>1, <2>2
<1>20. ASSUME s.compressed PROVE Good("chk")
  <2>1. /\ Offset(s, "chk") = A + 8 * N + 4 * P /\ Size(s, "chk") = 4 * P
        /\ Follows(s, "chk") = "acc_n" /\ Offset(s, "acc_n") = Z
    BY <1>1, <1>5, <1>6, <1>11, <1>20 DEF Follows
  <2>2. /\ A + 8 * N + 4 * P \in Nat /\ A + 8 * N + 4 * P >= 34 /\ 4 * P \in Nat
        /\ (A + 8 * N + 4 * P) + 4 * P <= L /\ Z = (A + 8 * N + 4 * P) + 4 * P
    BY <1>1, <1>7, <1>8, <1>9, <1>10, <1>20
  <2> QED BY <2>1, <2>2
<1>21. Good("acc_n")
  <2>1. /\ Offset(s, "acc_n") = Z /\ Size(s, "acc_n") = 4 * N
        /\ Follows(s, "acc_n") = "acc_e" /\ Offset(s, "acc_e") = Z + 4 * N
    BY <1>1, <1>5, <1>6, <1>11 DEF Follows
  <2>2. /\ Z \in Nat /\ Z >= 34 /\ 4 * N \in Nat
        /\ (Z) + 4 * N <= L /\ Z + 4 * N = (Z) + 4 * N
    BY <1>1, <1>7, <1>8, <1>9, <1>10
  <2> QED BY <2>1, <2>2
<1>22. Good("acc_e")
  <2>1. /\ Offset(s, "acc_e") = Z + 4 * N /\ Size(s, "acc_e") = 4 * N
        /\ Follows(s, "acc_e") = "ncond" /\ Offset(s, "ncond") = Z + 8 * N
    BY <1>1, <1>5, <1>6, <1>11 DEF Follows
  <2>2. /\ Z + 4 * N \in Nat /\ Z + 4 * N >= 34 /\ 4 * N \in Nat
        /\ (Z + 4 * N) + 4 * N <= L /\ Z + 8 * N = (Z + 4 * N) + 4 * N
    BY <1>1, <1>7, <1>8, <1>9, <1>10
  <2> QED BY <2>1, <2>2
<1>23. Good("ncond")
  <2>1. /\ Offset(s, "ncond") = Z + 8 * N /\ Size(s, "ncond") = 4
        /\ Follows(s, "ncond") = "cond_n" /\ Offset(s, "cond_n") = Z + 8 * N + 4
    BY <1>1, <1>5, <1>6, <1>11 DEF Follows
  <2>2. /\ Z + 8 * N \in Nat /\ Z + 8 * N >= 34 /\ 4 \in Nat
        /\ (Z + 8 * N) + 4 <= L /\ Z + 8 * N + 4 = (Z + 8 * N) + 4
    BY <1>1, <1>7, <1>8, <1>9, <1>10
  <2> QED BY <2>1, <2>2
<1>24. Good("cond_n")
  <2>1. /\ Offset(s, "cond_n") = Z + 8 * N + 4 /\ Size(s, "cond_n") = 4 * K
        /\ Follows(s, "cond_n") = "cond_b" /\ Offset(s, "cond_b") = Z + 8 * N + 4 + 4 * K
    BY <1>1, <1>5, <1>6, <1>11 DEF Follows
  <2>2. /\ Z + 8 * N + 4 \in Nat /\ Z + 8 * N + 4 >= 34 /\ 4 * K \in Nat
        /\ (Z + 8 * N + 4) + 4 * K <= L /\ Z + 8 * N + 4 + 4 * K = (Z + 8 * N + 4) + 4 * K
    BY <1>1, <1>7, <1>8, <1>9, <1>10
  <2> QED BY <2>1, <2>2
<1>25. Good("cond_b")
  <2>1. /\ Offset(s, "cond_b") = Z + 8 * N + 4 + 4 * K /\ Size(s, "cond_b") = 4 * K
        /\ Follows(s, "cond_b") = "trail" /\ Offset(s, "trail") = Z + 8 * N + 4 + 8 * K
    BY <1>1, <1>5, <1>6, <1>11 DEF Follows
  <2>2. /\ Z + 8 * N + 4 + 4 * K \in Nat /\ Z + 8 * N + 4 + 4 * K >= 34 /\ 4 * K \in Nat
        /\ (Z + 8 * N + 4 + 4 * K) + 4 * K <= L /\ Z + 8 * N + 4 + 8 * K = (Z + 8 * N + 4 + 4 * K) + 4 * K
    BY <1>1, <1>7, <1>8, <1>9, <1>10
  <2> QED BY <2>1, <2>2
<1>26. Good("trail")
  <2>1. Offset(s, "trail") = Z + 8 * N + 4 + 8 * K /\ Size(s, "trail") = 4 * T
    BY <1>5, <1>6
  <2>2. /\ Z + 8 * N + 4 + 8 * K \in Nat /\ Z + 8 * N + 4 + 8 * K >= 34 /\ 4 * T \in Nat
        /\ (Z + 8 * N + 4 + 8 * K) + 4 * T <= L
    BY <1>1, <1>7, <1>9, <1>10
  <2> QED BY <2>1, <2>2
<1> HIDE DEF Good
<1>27. Good(x)
  BY <1>1, <1>12, <1>13, <1>14, <1>15, <1>16, <1>17, <1>18, <1>19, <1>20, <1>21, <1>22, <1>23, <1>24, <1>25, <1>26 DEF Names
<1> QED BY <1>27 DEF Good, L

-----------------------------------------------------------------------------
(* The inductive invariant.                                                *)

(* The run of lex and the disk: the outputs behind the next one are of     *)
(* this run, and a tables file is a whole or cut-off one for its scanner.  *)
Outputs == {"scanner", "tables", "header", "done"}
Jobs == [gen : Nat, scanner : Scanners, next : Outputs, exit : {0, 1}]
FileFor(f) == f.scanner \in Scanners /\ CutOf(f.bytes, f.scanner)
Written(output) ==
    \/ job.next = "done" /\ job.exit = 0
    \/ job.next = "header" /\ output \in {"scanner", "tables"}
    \/ job.next = "tables" /\ output = "scanner"
DiskOK ==
    /\ job = [gen |-> 0, next |-> "done", exit |-> 1] \/ job \in Jobs
    /\ cfile = None \/ cfile.scanner \in Scanners
    /\ tfile = None \/ FileFor(tfile)
    /\ Written("scanner") => cfile.gen = job.gen
    /\ Written("tables") => tfile.gen = job.gen
    /\ Written("header") => hfile.gen = job.gen

(* The program: the arrays that can be loaded keep the lengths they were   *)
(* compiled with, the others keep all that they were compiled with.        *)
LiveShape ==
    /\ live = [a \in Arrays(Own) |-> live[a]]
    /\ \A a \in FileArrays(Own) : live[a] \in Seq(Int) /\ Len(live[a]) = Len(Emitted(Own)[a])
    /\ \A a \in OwnArrays(Own) : live[a] = Emitted(Own)[a]
ProgOK ==
    /\ prog # None => Own \in Scanners /\ LiveShape
    /\ source # None => prog # None /\ FileFor(source)
    /\ stage \in Int /\ pos \in Nat
    /\ stage # Idle => /\ source # None /\ result = "none"
                       /\ stage \in 0 .. Len(Sections)
    /\ source # None /\ ~foreign => ~OtherKind(source)
    /\ result = "ok" => source # None

(* Inside a file of the program's kind: the loader stands where the        *)
(* writer put the section, the lengths compared so far agree, and the      *)
(* arrays read so far are those of the file's scanner.                     *)
Condition == IF Own.compressed THEN 10 ELSE 6
Loading ==
    stage > 0 /\ ~OtherKind(source) =>
        /\ Len(source.bytes) >= 34
        /\ Nclasses(source.scanner) = Nclasses(Own)
        /\ Nstates(source.scanner) = Nstates(Own)
        /\ Own.compressed /\ stage > 3 => Len(source.scanner.nxt) = Len(Own.nxt)
        /\ stage > Condition => Len(source.scanner.cond_n) = Len(Own.cond_n)
        /\ pos = Offset(source.scanner, Sections[stage])
        /\ \A k \in 1 .. stage - 1 : Sections[k] \in FileArrays(Own) =>
              live[Sections[k]] = Emitted(source.scanner)[Sections[k]]

(* Every entry of the arrays is in range, whatever was loaded over it.     *)
InRange ==
    prog # None /\ ~foreign =>
        \A a \in IntArrays(Own) \cup {"ec"} :
            \A i \in 1 .. Len(live[a]) : live[a][i] \in Entry(Own, a)

(* The whole file of the program's own scanner is never refused.           *)
OwnFile == /\ source # None /\ source.scanner = Own
           /\ source.bytes = Serialised(Own) /\ Own.trail # <<>>
NotRefused == OwnFile => result # "bad" /\ (stage = Idle => result = "ok")

ProgramInv == ProgOK /\ Loading /\ LoadedWhole /\ InRange /\ NotRefused
IInv == DiskOK /\ ProgramInv

LEMMA InitInv == Init => IInv
<1> SUFFICES ASSUME Init PROVE IInv
  OBVIOUS
<1>1. /\ job = [gen |-> 0, next |-> "done", exit |-> 1]
      /\ cfile = None /\ tfile = None /\ hfile = None
      /\ prog = None /\ stage = -1 /\ source = None /\ pos = 0
      /\ result = "none" /\ foreign = FALSE
  BY DEF Init, Idle
<1>2. DiskOK
  BY <1>1 DEF DiskOK, Written
<1>3. ProgOK
  BY <1>1 DEF ProgOK, Idle
<1>4. Loading /\ LoadedWhole /\ InRange /\ NotRefused
  BY <1>1 DEF Loading, LoadedWhole, InRange, NotRefused, OwnFile
<1> QED BY <1>2, <1>3, <1>4 DEF IInv, ProgramInv

(* Steps that leave the program alone.                                     *)
LEMMA ProgramSame ==
    ASSUME ProgramInv, UNCHANGED program
    PROVE  ProgramInv'
<1>1. /\ prog' = prog /\ live' = live /\ stage' = stage /\ source' = source
      /\ pos' = pos /\ result' = result /\ foreign' = foreign
  BY DEF program
<1>2. Own' = Own
  BY <1>1 DEF Own
<1>3. Sections' = Sections /\ OtherKind(source)' = OtherKind(source) /\ Condition' = Condition
  BY <1>1, <1>2 DEF Sections, OtherKind, Condition
<1>4. ProgOK'
  BY <1>1, <1>2, <1>3 DEF ProgramInv, ProgOK, LiveShape
<1>5. Loading'
  BY <1>1, <1>2, <1>3 DEF ProgramInv, Loading
<1>6. LoadedWhole' /\ InRange' /\ NotRefused'
  BY <1>1, <1>2, <1>3 DEF ProgramInv, LoadedWhole, InRange, NotRefused, OwnFile
<1> QED BY <1>4, <1>5, <1>6 DEF ProgramInv

(* Writing one output: a failure ends the run with an error, anything else *)
(* leaves a file of this run.                                              *)
LEMMA WholeIsCut ==
    ASSUME NEW s \in Scanners
    PROVE  /\ CutOf(Serialised(s), s)
           /\ \A n \in Nat : n < Len(Serialised(s)) => CutOf(SubSeq(Serialised(s), 1, n), s)
<1> DEFINE S == Serialised(s)
<1>1. Len(S) \in Nat
  BY Layout
<1>2. CutOf(S, s)
  BY <1>1 DEF CutOf
<1>3. ASSUME NEW n \in Nat, n < Len(S) PROVE CutOf(SubSeq(S, 1, n), s)
  <2> HIDE DEF S
  <2> DEFINE T == {S[i] : i \in 1 .. n}
  <2>1. /\ Len(SubSeq(S, 1, n)) = (IF 1 <= n THEN n - 1 + 1 ELSE 0)
        /\ \A i \in 1 .. n - 1 + 1 : SubSeq(S, 1, n)[i] = S[1 + i - 1]
    <3>1. \A i \in 1 .. n : S[i] \in T
      OBVIOUS
    <3> HIDE DEF T
    <3> QED BY <3>1, SubSeqProperties
  <2>2. Len(SubSeq(S, 1, n)) = n
    BY <2>1
  <2>3. ASSUME NEW i \in 1 .. n PROVE SubSeq(S, 1, n)[i] = S[i]
    <3>1. i \in 1 .. n - 1 + 1 /\ 1 + i - 1 = i
      OBVIOUS
    <3> QED BY <2>1, <3>1
  <2>4. n \in 0 .. Len(S)
    BY <1>1, <1>3
  <2> QED BY <2>2, <2>3, <2>4 DEF CutOf, S
<1> QED BY <1>2, <1>3

LEMMA DiskStep ==
    ASSUME DiskOK, Lex \/ WriteScanner \/ WriteTables \/ WriteHeader
    PROVE  DiskOK'
<1>1. CASE Lex
  <2>1. PICK s \in Scanners :
           job' = [gen |-> job.gen + 1, scanner |-> s, next |-> "scanner", exit |-> 0]
    BY <1>1 DEF Lex
  <2>2. job.gen \in Nat
    BY DEF DiskOK, Jobs
  <2>3. job' \in Jobs /\ job'.next = "scanner"
    BY <2>1, <2>2 DEF Jobs, Outputs
  <2>4. cfile' = cfile /\ tfile' = tfile /\ hfile' = hfile
    BY <1>1 DEF Lex
  <2> QED BY <2>3, <2>4 DEF DiskOK, Written
<1> SUFFICES ASSUME job \in Jobs, job.next \in {"scanner", "tables", "header"} PROVE DiskOK'
  BY <1>1 DEF DiskOK, WriteScanner, WriteTables, WriteHeader
<1>2. job.scanner \in Scanners /\ job.gen \in Nat
  BY DEF Jobs
<1>3. ASSUME Fail PROVE /\ job' \in Jobs /\ job'.next = "done" /\ job'.exit = 1
                        /\ job'.gen = job.gen
  BY <1>3 DEF Fail, Jobs, Outputs
<1>4. ASSUME NEW x \in Outputs, Continue(x)
      PROVE  /\ job' \in Jobs /\ job'.next = x /\ job'.gen = job.gen
             /\ job'.exit = job.exit
  BY <1>4 DEF Continue, Jobs
<1>5. CASE WriteScanner
  <2>1. /\ job.next = "scanner" /\ tfile' = tfile /\ hfile' = hfile
        /\ \/ Fail /\ cfile' = cfile
           \/ (cfile' = Text \/ cfile' \in CutText) /\ (Fail \/ Continue("tables"))
    BY <1>5 DEF WriteScanner, Writing
  <2>2. \A f : f = Text \/ f \in CutText => f.scanner = job.scanner /\ f.gen = job.gen
    BY DEF Text, CutText
  <2>3. CASE Fail
    <3>1. cfile' = None \/ cfile'.scanner \in Scanners
      BY <1>2, <2>1, <2>2 DEF DiskOK
    <3> QED BY <1>3, <2>1, <2>3, <3>1 DEF DiskOK, Written
  <2>4. CASE Continue("tables") /\ ~Fail
    <3>1. cfile'.scanner \in Scanners /\ cfile'.gen = job.gen
      BY <1>2, <2>1, <2>2, <2>4
    <3>2. job' \in Jobs /\ job'.next = "tables" /\ job'.gen = job.gen
      BY <1>4, <2>4 DEF Outputs
    <3> QED BY <2>1, <3>1, <3>2 DEF DiskOK, Written
  <2> QED BY <2>1, <2>3, <2>4
<1>6. CASE WriteTables
  <2>1. /\ job.next = "tables" /\ cfile' = cfile /\ hfile' = hfile
        /\ \/ Fail /\ tfile' = tfile
           \/ (tfile' = Dump \/ tfile' \in CutDump) /\ (Fail \/ Continue("header"))
    BY <1>6 DEF WriteTables, Writing
  <2>2. ASSUME NEW f, f = Dump \/ f \in CutDump PROVE FileFor(f) /\ f.gen = job.gen
    <3>1. CASE f = Dump
      <4>1. f.bytes = Serialised(job.scanner) /\ f.scanner = job.scanner /\ f.gen = job.gen
        BY <3>1 DEF Dump
      <4> QED BY <1>2, <4>1, WholeIsCut DEF FileFor
    <3>2. CASE f \in CutDump
      <4>1. PICK n \in Cuts : /\ n < Len(Dump.bytes)
                              /\ f = [Dump EXCEPT !.bytes = SubSeq(@, 1, n)]
        BY <3>2 DEF CutDump
      <4>2. /\ n \in Nat /\ n < Len(Serialised(job.scanner))
            /\ f.bytes = SubSeq(Serialised(job.scanner), 1, n)
            /\ f.scanner = job.scanner /\ f.gen = job.gen
        BY <4>1, TablesAssumption DEF Dump
      <4> QED BY <1>2, <4>2, WholeIsCut DEF FileFor
    <3> QED BY <2>2, <3>1, <3>2
  <2>3. CASE Fail
    <3>1. tfile' = None \/ FileFor(tfile')
      BY <2>1, <2>2 DEF DiskOK
    <3> QED BY <1>3, <2>1, <2>3, <3>1 DEF DiskOK, Written
  <2>4. CASE Continue("header") /\ ~Fail
    <3>1. FileFor(tfile') /\ tfile'.gen = job.gen
      BY <2>1, <2>2, <2>4
    <3>2. job' \in Jobs /\ job'.next = "header" /\ job'.gen = job.gen
      BY <1>4, <2>4 DEF Outputs
    <3> QED BY <2>1, <3>1, <3>2 DEF DiskOK, Written
  <2> QED BY <2>1, <2>3, <2>4
<1>7. CASE WriteHeader
  <2>1. /\ job.next = "header" /\ cfile' = cfile /\ tfile' = tfile
        /\ \/ Fail /\ hfile' = hfile
           \/ (hfile' = Text \/ hfile' \in CutText) /\ (Fail \/ Continue("done"))
    BY <1>7 DEF WriteHeader, Writing
  <2>2. \A f : f = Text \/ f \in CutText => f.gen = job.gen
    BY DEF Text, CutText
  <2>3. CASE Fail
    BY <1>3, <2>1, <2>3 DEF DiskOK, Written
  <2>4. CASE Continue("done") /\ ~Fail
    <3>1. hfile'.gen = job.gen
      BY <2>1, <2>2, <2>4
    <3>2. job' \in Jobs /\ job'.next = "done" /\ job'.gen = job.gen
      BY <1>4, <2>4 DEF Outputs
    <3> QED BY <2>1, <3>1, <3>2 DEF DiskOK, Written
  <2> QED BY <2>1, <2>3, <2>4
<1> QED BY <1>1, <1>5, <1>6, <1>7

-----------------------------------------------------------------------------
(* The program starts, and opens a file.                                   *)

LEMMA EmittedAre ==
    ASSUME NEW s \in Scanners
    PROVE  /\ Emitted(s) = [a \in Arrays(s) |-> Emitted(s)[a]]
           /\ \A a \in FileArrays(s) : Emitted(s)[a] \in Seq(Int)
           /\ FileArrays(s) = IntArrays(s) \cup {"ec"} \cup IF s.compressed THEN {"meta"} ELSE {}
           /\ \A a \in IntArrays(s) \cup {"ec"} :
                 \A i \in 1 .. Len(Emitted(s)[a]) : Emitted(s)[a][i] \in Entry(s, a)
           /\ \A a \in FileArrays(s) \ {"trail"} : Emitted(s)[a] = s[a]
           /\ s.trail # <<>> => Emitted(s)["trail"] = s.trail
           /\ s.trail = <<>> => Len(s.trail) = 0 /\ Len(Emitted(s)["trail"]) = 1
<1>1. /\ s.compressed \in BOOLEAN
      /\ s.meta \in Seq(Int)
      /\ \A a \in IntArrays(s) \cup {"ec"} :
            s[a] \in Seq(Int) /\ \A i \in 1 .. Len(s[a]) : s[a][i] \in Entry(s, a)
  BY Shape
<1>2. FileArrays(s) = IntArrays(s) \cup {"ec"} \cup IF s.compressed THEN {"meta"} ELSE {}
  BY <1>1 DEF FileArrays, IntArrays
<1>3. /\ \A a \in FileArrays(s) \ {"trail"} : Emitted(s)[a] = s[a]
      /\ Emitted(s)["trail"] = IF s.trail = <<>> THEN <<0>> ELSE s.trail
      /\ Emitted(s) = [a \in Arrays(s) |-> Emitted(s)[a]]
  BY DEF Emitted, Arrays, FileArrays, MayBeEmpty
<1>4. \A a \in FileArrays(s) : s[a] \in Seq(Int)
  BY <1>1, <1>2
<1>5. <<0>> \in Seq(Int) /\ Len(<<0>>) = 1 /\ <<0>>[1] = 0
  OBVIOUS
<1>6. \A a \in FileArrays(s) : Emitted(s)[a] \in Seq(Int)
  BY <1>3, <1>4, <1>5
<1>8. 0 \in Entry(s, "trail")
  <2>1. Words32 \in Nat /\ Words32 > 0
    <3>1. Radix \in Nat /\ Words32 \in Int
      BY TablesAssumption DEF Words32
    <3> QED BY <3>1, TablesAssumption
  <2> QED BY <2>1 DEF Entry, Int32
<1>9. ASSUME NEW a \in IntArrays(s) \cup {"ec"}, NEW i \in 1 .. Len(Emitted(s)[a])
      PROVE  Emitted(s)[a][i] \in Entry(s, a)
  <2>1. CASE a = "trail" /\ s.trail = <<>>
    <3>1. Emitted(s)[a] = <<0>>
      BY <1>3, <2>1
    <3>2. i = 1
      BY <1>5, <1>9, <3>1
    <3> QED BY <1>5, <1>8, <2>1, <3>1, <3>2
  <2>2. CASE ~(a = "trail" /\ s.trail = <<>>)
    <3>1. Emitted(s)[a] = s[a]
      BY <1>2, <1>3, <2>2
    <3> QED BY <1>1, <1>9, <3>1
  <2> QED BY <2>1, <2>2
<1>10. s.trail = <<>> => Len(s.trail) = 0 /\ Len(Emitted(s)["trail"]) = 1
  BY <1>3, <1>5
<1> QED BY <1>2, <1>3, <1>6, <1>9, <1>10

LEMMA StartInv ==
    ASSUME IInv, Start
    PROVE  ProgramInv'
<1>1. /\ stage = -1 /\ stage' = stage /\ cfile.scanner \in Scanners
      /\ prog' = [gen |-> cfile.gen, scanner |-> cfile.scanner]
      /\ live' = Emitted(cfile.scanner) /\ source' = None /\ pos' = 0
      /\ result' = "none" /\ foreign' = FALSE
  BY DEF Start, IInv, DiskOK, Idle
<1>2. Own' = cfile.scanner
  BY <1>1 DEF Own
<1>3. /\ live' = [a \in Arrays(Own') |-> live'[a]]
      /\ \A a \in FileArrays(Own') : live'[a] \in Seq(Int)
      /\ \A a \in IntArrays(Own') \cup {"ec"} :
            \A i \in 1 .. Len(live'[a]) : live'[a][i] \in Entry(Own', a)
  BY <1>1, <1>2, EmittedAre
<1>4. LiveShape'
  BY <1>1, <1>2, <1>3 DEF LiveShape
<1>5. ProgOK'
  BY <1>1, <1>2, <1>4 DEF ProgOK, Idle
<1>6. InRange'
  BY <1>3 DEF InRange
<1>7. Loading' /\ LoadedWhole' /\ NotRefused'
  BY <1>1 DEF Loading, LoadedWhole, NotRefused, OwnFile
<1> QED BY <1>5, <1>6, <1>7 DEF ProgramInv

(* What a step of the loader leaves alone.                                 *)
LEMMA SameProgram ==
    ASSUME prog' = prog
    PROVE  /\ Own' = Own /\ Sections' = Sections /\ Condition' = Condition
           /\ \A f : OtherKind(f)' = OtherKind(f)
           /\ live' = live => LiveShape' = LiveShape
BY DEF Own, Sections, Condition, OtherKind, LiveShape

LEMMA SectionsAre ==
    /\ Own.compressed =>
                /\ Len(Sections) = 13
                /\ Sections[1] = "ec" /\ Sections[2] = "meta" /\ Sections[3] = "pool"
                /\ Sections[4] = "base" /\ Sections[5] = "def" /\ Sections[6] = "nxt"
                /\ Sections[7] = "chk" /\ Sections[8] = "acc_n"
                /\ Sections[9] = "acc_e" /\ Sections[10] = "ncond"
                /\ Sections[11] = "cond_n" /\ Sections[12] = "cond_b"
                /\ Sections[13] = "trail"
    /\ ~Own.compressed =>
                /\ Len(Sections) = 9
                /\ Sections[1] = "ec" /\ Sections[2] = "meta" /\ Sections[3] = "nxt"
                /\ Sections[4] = "acc_n" /\ Sections[5] = "acc_e"
                /\ Sections[6] = "ncond" /\ Sections[7] = "cond_n"
                /\ Sections[8] = "cond_b" /\ Sections[9] = "trail"
    /\ Len(Sections) \in {9, 13}
<1>1. CASE Own.compressed
  BY <1>1 DEF Sections
<1>2. CASE ~Own.compressed
  BY <1>2 DEF Sections
<1> QED BY <1>1, <1>2

LEMMA FloadInv ==
    ASSUME IInv, Fload
    PROVE  ProgramInv'
<1>1. /\ prog # None /\ prog' = prog /\ live' = live /\ source' = tfile /\ pos' = 0
      /\ tfile = None => stage' = -1 /\ result' = "bad" /\ foreign' = foreign
      /\ tfile # None => /\ stage' = 0 /\ result' = "none"
                         /\ foreign' = (foreign \/ OtherKind(tfile))
  BY DEF Fload, Bad, Idle
<1>2. Own' = Own /\ LiveShape' = LiveShape /\ Sections' = Sections
  BY <1>1, SameProgram
<1>3. OtherKind(source)' = OtherKind(tfile)
  BY <1>1, <1>2 DEF OtherKind
<1>4. tfile # None => FileFor(tfile)
  BY DEF IInv, DiskOK
<1>5. 0 \in 0 .. Len(Sections)
  BY SectionsAre
<1>6. ProgOK'
  <2>1. /\ Own \in Scanners /\ LiveShape
        /\ (tfile = None \/ ~foreign' => ~OtherKind(tfile) \/ tfile = None)
    BY <1>1 DEF IInv, ProgramInv, ProgOK
  <2> QED BY <1>1, <1>2, <1>3, <1>4, <1>5, <2>1 DEF ProgOK, Idle
<1>7. Loading' /\ LoadedWhole'
  BY <1>1 DEF Loading, LoadedWhole
<1>8. InRange'
  <2>1. ~foreign' => ~foreign
    BY <1>1
  <2> QED BY <1>1, <1>2, <2>1 DEF IInv, ProgramInv, InRange
<1>9. NotRefused'
  BY <1>1 DEF NotRefused, OwnFile, Idle
<1> QED BY <1>6, <1>7, <1>8, <1>9 DEF ProgramInv

(* A step of the loader: the load fails, succeeds or goes on.              *)
LEMMA LoaderStep ==
    ASSUME ProgramInv, stage # Idle, prog' = prog, source' = source, foreign' = foreign,
           pos' \in Nat, LiveShape', InRange',
           \/ stage' = Idle /\ result' = "bad" /\ ~OwnFile
           \/ /\ stage' = Idle /\ result' = "ok"
              /\ ~OtherKind(source) =>
                    \A a \in FileArrays(Own) : live'[a] = Emitted(source.scanner)[a]
           \/ stage' \in 1 .. Len(Sections) /\ result' = result /\ Loading'
    PROVE  ProgramInv'
<1>1. /\ source # None /\ result = "none" /\ prog # None /\ Own \in Scanners /\ FileFor(source)
      /\ (~foreign => ~OtherKind(source))
  BY DEF ProgramInv, ProgOK
<1>2. Own' = Own /\ Sections' = Sections
  BY SameProgram
<1>3. OtherKind(source)' = OtherKind(source) /\ OwnFile' = OwnFile
  BY <1>2 DEF OtherKind, OwnFile
<1>4. Len(Sections) \in Nat
  BY SectionsAre
<1>5. stage' \in Int /\ (stage' # Idle => stage' \in 0 .. Len(Sections) /\ result' = "none")
  BY <1>1, <1>4 DEF Idle
<1>6. ProgOK'
  BY <1>1, <1>2, <1>3, <1>5 DEF ProgOK
<1>7. Loading'
  BY DEF Loading, Idle
<1>8. LoadedWhole'
  <2>1. \A a \in OwnArrays(Own) : live'[a] = Emitted(Own)[a]
    BY <1>2 DEF LiveShape
  <2>2. \A a \in Arrays(Own) : a \in FileArrays(Own) \/ a \in OwnArrays(Own)
    BY DEF Arrays
  <2>3. \A a \in OwnArrays(Own) : a \notin FileArrays(Own)
    BY DEF OwnArrays, FileArrays
  <2> QED BY <1>1, <1>2, <1>3, <2>1, <2>2, <2>3 DEF LoadedWhole, Idle
<1>9. NotRefused'
  BY <1>1, <1>3, <1>4 DEF NotRefused, Idle
<1> QED BY <1>6, <1>7, <1>8, <1>9 DEF ProgramInv

LEMMA SmallWords == {0, 1, 2} \subseteq Int32 /\ Words32 \in Nat /\ Magic \in Int
<1>1. Radix \in Nat /\ Radix > 1 /\ Magic \in 0 .. Words32 - 1
  BY TablesAssumption
<1>2. Radix * Radix >= 4 /\ Radix * Radix \in Nat
  BY <1>1
<1>3. Radix * Radix * Radix >= 8 /\ Radix * Radix * Radix \in Nat
  BY <1>1, <1>2
<1>4. Radix * (Radix * Radix * Radix) >= 16 /\ Radix * (Radix * Radix * Radix) \in Nat
  BY <1>1, <1>3
<1> QED BY <1>1, <1>4 DEF Words32, Int32

LEMMA WordReadAt ==
    ASSUME NEW q \in Seq(Int), NEW b, NEW p \in Nat, Len(b) \in Nat, Holds(b, p, Words(q)),
           NEW i \in Nat, i >= 1, i <= Len(q), p + 4 * i <= Len(b),
           NEW o, o = p + 4 * (i - 1)
    PROVE  /\ WordAt(b, o) = Signed(Value(q[i]))
           /\ q[i] \in Int32 => WordAt(b, o) = q[i]
<1>1. i \in 1 .. Len(q)
  OBVIOUS
<1> QED BY <1>1, WordRead

(* The header of a file, read back.                                        *)
LEMMA HeaderOf ==
    ASSUME NEW s \in Scanners, NEW b, CutOf(b, s)
    PROVE  /\ Len(b) \in Nat
           /\ Len(b) >= 12 => /\ WordAt(b, 0) = Signed(Magic) /\ WordAt(b, 4) = 1
                              /\ WordAt(b, 8) = 2
           /\ Len(b) >= 34 => /\ WordAt(b, 12 + 2 + 4 * 1) = Nclasses(s)
                              /\ WordAt(b, 12 + 2 + 4 * 2) = Nstates(s)
                              /\ WordAt(b, 12 + 2 + 4 * 4) = Pool(s)
<1>1. Len(b) \in Nat /\ Holds(b, 0, Words(HeadWords)) /\ Holds(b, 14, Words(Fields(s)))
  BY Layout
<1>2. /\ HeadWords \in Seq(Int) /\ Len(HeadWords) = 3 /\ HeadWords[1] = Magic
      /\ HeadWords[2] = 1 /\ HeadWords[3] = 2
  BY SmallWords DEF HeadWords, Name
<1>3. /\ Fields(s) \in Seq(Int) /\ Len(Fields(s)) = 5 /\ Fields(s)[2] = Nclasses(s)
      /\ Fields(s)[3] = Nstates(s) /\ Fields(s)[5] = Pool(s)
      /\ Nclasses(s) \in Int32 /\ Nstates(s) \in Int32 /\ Pool(s) \in Int32
  <2>1. /\ s.compressed \in BOOLEAN /\ Nclasses(s) \in Int /\ Nstates(s) \in Int
        /\ Len(s.trail) \in Int /\ Pool(s) \in Int
        /\ Nclasses(s) \in Int32 /\ Nstates(s) \in Int32 /\ Pool(s) \in Int32
    BY Shape
  <2> QED BY <2>1 DEF Fields
<1>4. ASSUME Len(b) >= 12
      PROVE  WordAt(b, 0) = Signed(Magic) /\ WordAt(b, 4) = 1 /\ WordAt(b, 8) = 2
  <2>1. WordAt(b, 0) = Signed(Value(HeadWords[1]))
    <3>1. 1 <= Len(HeadWords) /\ 0 + 4 * 1 <= Len(b) /\ 0 = 0 + 4 * (1 - 1)
      BY <1>1, <1>2, <1>4
    <3> QED BY <1>1, <1>2, <3>1, WordReadAt
  <2>2. Value(Magic) = Magic
    BY SmallWords, TablesAssumption, ReadBack
  <2>3. WordAt(b, 0) = Signed(Magic)
    BY <1>2, <2>1, <2>2
  <2>4. WordAt(b, 4) = 1
    <3>1. 2 <= Len(HeadWords) /\ 0 + 4 * 2 <= Len(b) /\ 4 = 0 + 4 * (2 - 1)
          /\ HeadWords[2] \in Int32
      BY <1>1, <1>2, <1>4, SmallWords
    <3>2. WordAt(b, 4) = HeadWords[2]
      BY <1>1, <1>2, <3>1, WordReadAt
    <3> QED BY <1>2, <3>2
  <2>5. WordAt(b, 8) = 2
    <3>1. 3 <= Len(HeadWords) /\ 0 + 4 * 3 <= Len(b) /\ 8 = 0 + 4 * (3 - 1)
          /\ HeadWords[3] \in Int32
      BY <1>1, <1>2, <1>4, SmallWords
    <3>2. WordAt(b, 8) = HeadWords[3]
      BY <1>1, <1>2, <3>1, WordReadAt
    <3> QED BY <1>2, <3>2
  <2> QED BY <2>3, <2>4, <2>5
<1>5. ASSUME Len(b) >= 34
      PROVE  /\ WordAt(b, 12 + 2 + 4 * 1) = Nclasses(s)
             /\ WordAt(b, 12 + 2 + 4 * 2) = Nstates(s)
             /\ WordAt(b, 12 + 2 + 4 * 4) = Pool(s)
  <2>1. WordAt(b, 18) = Nclasses(s)
    <3>1. 2 <= Len(Fields(s)) /\ 14 + 4 * 2 <= Len(b) /\ 18 = 14 + 4 * (2 - 1)
      BY <1>1, <1>3, <1>5
    <3> QED BY <1>1, <1>3, <3>1, WordReadAt
  <2>2. WordAt(b, 22) = Nstates(s)
    <3>1. 3 <= Len(Fields(s)) /\ 14 + 4 * 3 <= Len(b) /\ 22 = 14 + 4 * (3 - 1)
      BY <1>1, <1>3, <1>5
    <3> QED BY <1>1, <1>3, <3>1, WordReadAt
  <2>3. WordAt(b, 30) = Pool(s)
    <3>1. 5 <= Len(Fields(s)) /\ 14 + 4 * 5 <= Len(b) /\ 30 = 14 + 4 * (5 - 1)
      BY <1>1, <1>3, <1>5
    <3> QED BY <1>1, <1>3, <3>1, WordReadAt
  <2> QED BY <2>1, <2>2, <2>3
<1> QED BY <1>1, <1>4, <1>5

LEMMA HeaderInv ==
    ASSUME ProgramInv, Header
    PROVE  ProgramInv'
<1> DEFINE s == source.scanner  b == source.bytes
<1>1. /\ stage = 0 /\ source # None /\ prog # None /\ result = "none" /\ LiveShape
      /\ s \in Scanners /\ CutOf(b, s) /\ Own \in Scanners /\ pos \in Nat
  BY DEF ProgramInv, ProgOK, Header, FileFor, Idle
<1>2. /\ prog' = prog /\ live' = live /\ source' = source /\ foreign' = foreign
  BY DEF Header
<1>3. /\ Own' = Own /\ Sections' = Sections /\ LiveShape' = LiveShape /\ Condition' = Condition
  BY <1>2, SameProgram
<1>4. InRange'
  BY <1>2, <1>3 DEF ProgramInv, InRange
<1>5. /\ Len(b) \in Nat
      /\ Len(b) >= 12 => /\ WordAt(b, 0) = Signed(Magic) /\ WordAt(b, 4) = 1
                         /\ WordAt(b, 8) = 2
      /\ Len(b) >= 34 => /\ WordAt(b, 12 + 2 + 4 * 1) = Nclasses(s)
                         /\ WordAt(b, 12 + 2 + 4 * 2) = Nstates(s)
  BY <1>1, HeaderOf
<1>6. Len(b) >= 12 => NameLength = 2 /\ HeaderEnd = 34
  BY <1>5 DEF NameLength, HeaderEnd
<1>7. CASE HeaderRead
  <2>1. stage' = 1 /\ pos' = HeaderEnd /\ result' = result
    BY <1>7 DEF Header
  <2>2. /\ HeaderEnd = 34 /\ NameLength = 2 /\ Len(b) >= 34
        /\ Field(1) = Nclasses(Own) /\ Field(2) = Nstates(Own)
    BY <1>6, <1>7 DEF HeaderRead
  <2>3. Nclasses(s) = Nclasses(Own) /\ Nstates(s) = Nstates(Own)
    BY <1>5, <2>2 DEF Field
  <2>4. Sections[1] = "ec" /\ 1 \in 1 .. Len(Sections) /\ Offset(s, "ec") = 34
    <3>1. Sections[1] = "ec" /\ Len(Sections) \in {9, 13}
      BY SectionsAre
    <3> QED BY <3>1 DEF Offset
  <2>5. Loading'
    <3>1. ~(1 > 3) /\ ~(1 > Condition) /\ 1 .. 1 - 1 = {}
      BY DEF Condition
    <3> QED BY <1>2, <1>3, <2>1, <2>2, <2>3, <2>4, <3>1 DEF Loading
  <2>6. stage # Idle /\ pos' \in Nat /\ stage' \in 1 .. Len(Sections) /\ LiveShape'
    BY <1>1, <1>3, <2>1, <2>2, <2>4 DEF Idle
  <2> QED BY <1>2, <1>4, <2>1, <2>5, <2>6, LoaderStep
<1>8. CASE ~HeaderRead
  <2>1. stage' = Idle /\ result' = "bad" /\ pos' = pos
    BY <1>8 DEF Header, Bad
  <2>2. ~OwnFile
    <3> SUFFICES ASSUME OwnFile PROVE HeaderRead
      BY <1>8
    <3>1. s = Own /\ b = Serialised(Own)
      BY DEF OwnFile
    <3>2. Len(b) >= 34
      <4>1. /\ Offset(Own, "trail") \in Nat /\ Offset(Own, "trail") >= 34
            /\ Size(Own, "trail") \in Nat
            /\ Offset(Own, "trail") + Size(Own, "trail") <= Len(Serialised(Own))
        BY <1>1, Offsets DEF Names
      <4> QED BY <1>5, <3>1, <4>1
    <3> QED BY <1>5, <1>6, <3>1, <3>2 DEF HeaderRead, Field
  <2>3. stage # Idle /\ pos' \in Nat /\ LiveShape'
    BY <1>1, <1>3, <2>1 DEF Idle
  <2> QED BY <1>2, <1>4, <2>1, <2>2, <2>3, LoaderStep
<1> QED BY <1>7, <1>8

-----------------------------------------------------------------------------
(* The sections, read or compared one after the other.                     *)

LEMMA SectionAt ==
    ASSUME Own.compressed \in BOOLEAN, stage \in 1 .. Len(Sections)
    PROVE  /\ Section \in Names(Own)
           /\ stage = Len(Sections) <=> Section = "trail"
           /\ stage # Len(Sections) => Sections[stage + 1] = Follows(Own, Section)
           /\ Section \in {"base", "def", "chk"} => stage > 3 /\ Own.compressed
           /\ Section = "nxt" /\ Own.compressed => stage > 3
           /\ Section \in {"cond_n", "cond_b"} => stage > Condition
           /\ Section = "pool" <=> stage = 3 /\ Own.compressed
           /\ Section = "ncond" <=> stage = Condition
<1>1. CASE Own.compressed
  <2>1. /\ Len(Sections) = 13 /\ Condition = 10
        /\ Follows(Own, "meta") = "pool" /\ Follows(Own, "nxt") = "chk"
    BY <1>1, SectionsAre DEF Condition, Follows
  <2>2. stage \in {1, 2, 3, 4, 5, 6, 7, 8, 9, 10, 11, 12, 13}
    BY <2>1
  <2>3. CASE stage \in {1, 2, 3, 4}
    BY <1>1, <2>1, <2>3, SectionsAre DEF Section, Names, Follows
  <2>4. CASE stage \in {5, 6, 7, 8}
    BY <1>1, <2>1, <2>4, SectionsAre DEF Section, Names, Follows
  <2>5. CASE stage \in {9, 10, 11, 12, 13}
    BY <1>1, <2>1, <2>5, SectionsAre DEF Section, Names, Follows
  <2> QED BY <2>2, <2>3, <2>4, <2>5
<1>2. CASE ~Own.compressed
  <2>1. /\ Len(Sections) = 9 /\ Condition = 6
        /\ Follows(Own, "meta") = "nxt" /\ Follows(Own, "nxt") = "acc_n"
    BY <1>2, SectionsAre DEF Condition, Follows
  <2>2. stage \in {1, 2, 3, 4, 5, 6, 7, 8, 9}
    BY <2>1
  <2>3. CASE stage \in {1, 2, 3, 4}
    BY <1>2, <2>1, <2>3, SectionsAre DEF Section, Names, Follows
  <2>4. CASE stage \in {5, 6, 7, 8, 9}
    BY <1>2, <2>1, <2>4, SectionsAre DEF Section, Names, Follows
  <2> QED BY <2>2, <2>3, <2>4
<1> QED BY <1>1, <1>2

(* Every array is in some section.                                         *)
LEMMA ArraysRead ==
    ASSUME Own.compressed \in BOOLEAN, NEW a \in FileArrays(Own)
    PROVE  \E k \in 1 .. Len(Sections) : Sections[k] = a
<1>1. CASE Own.compressed
  <2>1. Len(Sections) = 13
    BY <1>1, SectionsAre
  <2>2. {1, 2, 3, 4, 5, 6, 7, 8, 9, 10, 11, 12, 13} \subseteq 1 .. Len(Sections)
    BY <2>1
  <2> QED BY <1>1, <2>2, SectionsAre DEF FileArrays
<1>2. CASE ~Own.compressed
  <2>1. Len(Sections) = 9
    BY <1>2, SectionsAre
  <2>2. {1, 2, 3, 4, 5, 6, 7, 8, 9} \subseteq 1 .. Len(Sections)
    BY <2>1
  <2> QED BY <1>2, <2>2, SectionsAre DEF FileArrays
<1> QED BY <1>1, <1>2

(* What the loader may rely on in a file of its kind.                      *)
LEMMA KindAgrees ==
    ASSUME ProgramInv, stage > 0
    PROVE  /\ source # None /\ prog # None /\ result = "none" /\ stage \in 1 .. Len(Sections)
           /\ LiveShape /\ Own \in Scanners /\ Own.compressed \in BOOLEAN
           /\ source.scanner \in Scanners /\ CutOf(source.bytes, source.scanner)
           /\ pos \in Nat /\ stage # Idle
           /\ (~foreign => ~OtherKind(source)) /\ (OwnFile => ~OtherKind(source))
           /\ ~OtherKind(source) =>
                 /\ source.scanner.compressed = Own.compressed
                 /\ Len(source.scanner.trail) = Len(Own.trail)
                 /\ FileArrays(source.scanner) = FileArrays(Own)
                 /\ IntArrays(source.scanner) = IntArrays(Own)
                 /\ Names(source.scanner) = Names(Own)
                 /\ Follows(source.scanner, Section) = Follows(Own, Section)
<1>1. stage \in Int /\ stage # Idle
  BY DEF ProgramInv, ProgOK, Idle
<1>2. /\ source # None /\ prog # None /\ result = "none" /\ stage \in 0 .. Len(Sections)
      /\ LiveShape /\ Own \in Scanners /\ FileFor(source) /\ pos \in Nat
      /\ ~foreign => ~OtherKind(source)
  BY <1>1 DEF ProgramInv, ProgOK
<1>3. stage \in 1 .. Len(Sections)
  BY <1>1, <1>2
<1>4. source.scanner \in Scanners /\ CutOf(source.bytes, source.scanner)
  BY <1>2 DEF FileFor
<1>5. Own.compressed \in BOOLEAN /\ source.scanner.compressed \in BOOLEAN
  BY <1>2, <1>4, Shape
<1>6. OwnFile => ~OtherKind(source)
  BY DEF OwnFile, OtherKind
<1>7. ~OtherKind(source) =>
         source.scanner.compressed = Own.compressed /\ Len(source.scanner.trail) = Len(Own.trail)
  BY DEF OtherKind
<1>8. ~OtherKind(source) =>
         /\ FileArrays(source.scanner) = FileArrays(Own) /\ IntArrays(source.scanner) = IntArrays(Own)
         /\ Names(source.scanner) = Names(Own)
         /\ Follows(source.scanner, Section) = Follows(Own, Section)
  BY <1>7 DEF FileArrays, IntArrays, Names, Follows
<1> QED BY <1>1, <1>2, <1>3, <1>4, <1>5, <1>6, <1>7, <1>8

(* The section was read or compared, and holds what the writer put there.  *)
Advanced ==
    /\ pos' = Offset(source.scanner, Section) + Size(source.scanner, Section)
    /\ \A a \in FileArrays(Own) \ {Section} : live'[a] = live[a]
    /\ Section \in FileArrays(Own) => live'[Section] = Emitted(source.scanner)[Section]
    /\ Section = "pool" => Len(source.scanner.nxt) = Len(Own.nxt)
    /\ Section = "ncond" => Len(source.scanner.cond_n) = Len(Own.cond_n)

LEMMA SectionInv ==
    ASSUME ProgramInv, stage > 0, prog' = prog, source' = source, foreign' = foreign,
           pos' \in Nat, LiveShape', InRange',
           \/ Bad /\ ~OwnFile
           \/ Onward /\ (~OtherKind(source) => Advanced)
    PROVE  ProgramInv'
<1> DEFINE s == source.scanner
<1>1. /\ source # None /\ prog # None /\ result = "none" /\ stage \in 1 .. Len(Sections)
      /\ LiveShape /\ Own \in Scanners /\ Own.compressed \in BOOLEAN
      /\ s \in Scanners /\ stage # Idle
      /\ ~OtherKind(source) =>
            /\ FileArrays(s) = FileArrays(Own) /\ Names(s) = Names(Own)
            /\ Follows(s, Section) = Follows(Own, Section)
  BY KindAgrees
<1>2. /\ Own' = Own /\ Sections' = Sections /\ Condition' = Condition
      /\ OtherKind(source)' = OtherKind(source)
  BY SameProgram DEF OtherKind
<1>3. CASE Bad /\ ~OwnFile
  BY <1>1, <1>3, LoaderStep DEF Bad
<1>4. CASE Onward /\ (~OtherKind(source) => Advanced)
  <2>1. /\ Section \in Names(Own)
        /\ stage # Len(Sections) => /\ Sections[stage + 1] = Follows(Own, Section)
                                    /\ Section # "trail"
        /\ Section = "pool" <=> stage = 3 /\ Own.compressed
        /\ Section = "ncond" <=> stage = Condition
    BY <1>1, SectionAt
  <2>2. Len(Sections) \in Nat /\ stage \in Nat /\ Condition \in Nat
    BY <1>1, SectionsAre DEF Condition
  <2>3. ASSUME ~OtherKind(source), NEW k \in 1 .. stage, Sections[k] \in FileArrays(Own)
        PROVE  live'[Sections[k]] = Emitted(s)[Sections[k]]
    <3>1. CASE Sections[k] = Section
      BY <1>4, <2>3, <3>1 DEF Advanced
    <3>2. CASE Sections[k] # Section
      <4>1. k # stage /\ k \in 1 .. stage - 1
        BY <2>2, <2>3, <3>2 DEF Section
      <4>2. live[Sections[k]] = Emitted(s)[Sections[k]]
        BY <2>3, <4>1 DEF ProgramInv, Loading
      <4> QED BY <1>4, <2>3, <3>2, <4>2 DEF Advanced
    <3> QED BY <3>1, <3>2
  <2>4. CASE stage = Len(Sections)
    <3>1. stage' = Idle /\ result' = "ok"
      BY <1>4, <2>4 DEF Onward
    <3>2. ASSUME ~OtherKind(source) PROVE \A a \in FileArrays(Own) : live'[a] = Emitted(s)[a]
      BY <1>1, <2>3, <2>4, <3>2, ArraysRead
    <3> QED BY <1>1, <3>1, <3>2, LoaderStep
  <2>5. CASE stage # Len(Sections)
    <3>1. stage' = stage + 1 /\ result' = result
      BY <1>4, <2>5 DEF Onward
    <3>2. stage' \in 1 .. Len(Sections) /\ 1 .. stage' - 1 = 1 .. stage
      BY <1>1, <2>2, <2>5, <3>1
    <3>3. ASSUME ~OtherKind(source)
          PROVE  /\ Len(source.bytes) >= 34
                 /\ Nclasses(s) = Nclasses(Own) /\ Nstates(s) = Nstates(Own)
                 /\ Own.compressed /\ stage' > 3 => Len(s.nxt) = Len(Own.nxt)
                 /\ stage' > Condition => Len(s.cond_n) = Len(Own.cond_n)
                 /\ pos' = Offset(s, Sections[stage'])
      <4>1. /\ Len(source.bytes) >= 34
            /\ Nclasses(s) = Nclasses(Own) /\ Nstates(s) = Nstates(Own)
            /\ Own.compressed /\ stage > 3 => Len(s.nxt) = Len(Own.nxt)
            /\ stage > Condition => Len(s.cond_n) = Len(Own.cond_n)
        BY <3>3 DEF ProgramInv, Loading
      <4>2. stage' > 3 => stage > 3 \/ stage = 3
        BY <2>2, <3>1
      <4>3. stage' > Condition => stage > Condition \/ stage = Condition
        BY <2>2, <3>1
      <4>4. Offset(s, Follows(s, Section)) = Offset(s, Section) + Size(s, Section)
        BY <1>1, <2>1, <2>5, <3>3, Offsets
      <4>5. pos' = Offset(s, Sections[stage'])
        BY <1>1, <1>4, <2>1, <2>5, <3>1, <3>3, <4>4 DEF Advanced
      <4> QED BY <1>4, <2>1, <3>3, <4>1, <4>2, <4>3, <4>5 DEF Advanced
    <3>4. Loading'
      BY <1>2, <2>3, <3>2, <3>3 DEF Loading
    <3> QED BY <1>1, <3>1, <3>2, <3>4, LoaderStep
  <2> QED BY <2>4, <2>5
<1> QED BY <1>3, <1>4

(* The comparisons: the size of the comb, and the number of conditions.    *)
LEMMA CheckPoolInv ==
    ASSUME ProgramInv, CheckPool
    PROVE  ProgramInv'
<1> DEFINE s == source.scanner  b == source.bytes
<1>1. stage > 0 /\ Section = "pool"
  BY DEF CheckPool, InSection, Section
<1>2. /\ prog # None /\ stage \in 1 .. Len(Sections) /\ LiveShape /\ Own \in Scanners
      /\ Own.compressed \in BOOLEAN /\ s \in Scanners /\ CutOf(b, s) /\ pos \in Nat
      /\ OwnFile => ~OtherKind(source)
      /\ ~OtherKind(source) => s.compressed = Own.compressed /\ Names(s) = Names(Own)
  BY <1>1, KindAgrees
<1>3. /\ prog' = prog /\ source' = source /\ foreign' = foreign /\ live' = live /\ pos' = pos
      /\ (PoolOk /\ Onward) \/ (~PoolOk /\ Bad)
  BY DEF CheckPool
<1>4. LiveShape' /\ InRange' /\ Own.compressed
  <2>1. Own' = Own /\ LiveShape' = LiveShape
    BY <1>3, SameProgram
  <2> QED BY <1>1, <1>2, <1>3, <2>1, SectionAt DEF ProgramInv, InRange
<1>5. ASSUME ~OtherKind(source)
      PROVE  /\ pos = Offset(s, "pool") /\ Field(4) = Pool(s)
             /\ Pool(s) = Len(s.nxt) /\ Pool(Own) = Len(Own.nxt) /\ Offset(s, "pool") \in Nat
  <2>1. pos = Offset(s, "pool")
    BY <1>1, <1>5 DEF ProgramInv, Loading, Section
  <2>2. Field(4) = Pool(s)
    <3>1. /\ Len(b) \in Nat
          /\ Len(b) >= 12 => WordAt(b, 8) = 2
          /\ Len(b) >= 34 => WordAt(b, 12 + 2 + 4 * 4) = Pool(s)
      BY <1>2, HeaderOf
    <3>2. Len(b) >= 34 /\ Len(b) >= 12
      BY <1>1, <1>5, <3>1 DEF ProgramInv, Loading
    <3> QED BY <3>1, <3>2 DEF Field, NameLength
  <2>3. Pool(s) = Len(s.nxt) /\ Pool(Own) = Len(Own.nxt)
    BY <1>2, <1>4, <1>5, Shape
  <2>4. Offset(s, "pool") \in Nat
    BY <1>2, <1>4, <1>5, Offsets DEF Names
  <2> QED BY <2>1, <2>2, <2>3, <2>4
<1>6. CASE PoolOk
  <2>1. ~OtherKind(source) => Advanced
    <3>1. Size(s, "pool") = 0 /\ Section \notin FileArrays(Own)
      BY <1>1 DEF Size, FileArrays
    <3>2. ~OtherKind(source) => pos' = Offset(s, "pool") + 0
      BY <1>3, <1>5
    <3> QED BY <1>1, <1>3, <1>5, <1>6, <3>1, <3>2 DEF Advanced, PoolOk
  <2>2. Onward
    BY <1>3, <1>6
  <2> QED BY <1>1, <1>2, <1>3, <1>4, <2>1, <2>2, SectionInv
<1>7. CASE ~PoolOk
  <2>1. ~OwnFile
    BY <1>2, <1>5, <1>7 DEF OwnFile, PoolOk
  <2>2. Bad
    BY <1>3, <1>7
  <2> QED BY <1>1, <1>2, <1>3, <1>4, <2>1, <2>2, SectionInv
<1> QED BY <1>6, <1>7

(* How much of the file is left.                                           *)
LEMMA LeftIs ==
    ASSUME Len(source.bytes) \in Nat, pos \in Nat
    PROVE  /\ Left \in Nat /\ Left \div 4 \in Nat
           /\ pos <= Len(source.bytes) => pos + Left = Len(source.bytes)
           /\ ~(pos <= Len(source.bytes)) => Left = 0
           /\ 4 * (Left \div 4) <= Left /\ Left < 4 * (Left \div 4) + 4
<1>1. /\ Left \in Nat
      /\ pos <= Len(source.bytes) => pos + Left = Len(source.bytes)
      /\ ~(pos <= Len(source.bytes)) => Left = 0
  BY DEF Left
<1> QED BY <1>1

LEMMA CheckConditionsInv ==
    ASSUME ProgramInv, CheckConditions
    PROVE  ProgramInv'
<1> DEFINE s == source.scanner  b == source.bytes
           ok == Left >= 4 /\ WordAt(b, pos) = Len(Own.cond_n)
<1>1. stage > 0 /\ Section = "ncond"
  BY DEF CheckConditions, InSection, Section
<1>2. /\ prog # None /\ stage \in 1 .. Len(Sections) /\ LiveShape /\ Own \in Scanners
      /\ Own.compressed \in BOOLEAN /\ s \in Scanners /\ CutOf(b, s) /\ pos \in Nat
      /\ OwnFile => ~OtherKind(source)
      /\ ~OtherKind(source) => s.compressed = Own.compressed /\ Names(s) = Names(Own)
  BY <1>1, KindAgrees
<1>3. /\ prog' = prog /\ source' = source /\ foreign' = foreign /\ live' = live
      /\ (ok /\ Onward /\ pos' = pos + 4) \/ (~ok /\ Bad /\ pos' = pos)
  BY DEF CheckConditions
<1> HIDE DEF ok
<1>4. LiveShape' /\ InRange' /\ pos' \in Nat
  <2>1. Own' = Own /\ LiveShape' = LiveShape
    BY <1>3, SameProgram
  <2>2. pos' \in Nat
    BY <1>2, <1>3
  <2> QED BY <1>2, <1>3, <2>1, <2>2 DEF ProgramInv, InRange
<1>5. Len(b) \in Nat /\ Holds(b, Offset(s, "ncond"), Words(<<Len(s.cond_n)>>))
  BY <1>2, Layout
<1>6. ASSUME ~OtherKind(source)
      PROVE  /\ pos = Offset(s, "ncond")
             /\ Left >= 4 => WordAt(b, pos) = Len(s.cond_n)
  <2>1. pos = Offset(s, "ncond")
    BY <1>1, <1>6 DEF ProgramInv, Loading, Section
  <2>2. ASSUME Left >= 4 PROVE WordAt(b, pos) = Len(s.cond_n)
    <3> DEFINE q == <<Len(s.cond_n)>>
    <3>1. q \in Seq(Int) /\ Len(q) = 1 /\ q[1] = Len(s.cond_n) /\ q[1] \in Int32
      BY <1>2, Shape
    <3> HIDE DEF q
    <3>2. pos + 4 * 1 <= Len(b) /\ pos = pos + 4 * (1 - 1) /\ 1 <= Len(q)
      BY <1>2, <1>5, <2>2, <3>1, LeftIs
    <3>3. Holds(b, pos, Words(q))
      BY <1>5, <2>1 DEF q
    <3>4. WordAt(b, pos) = q[1]
      BY <1>2, <1>5, <3>1, <3>2, <3>3, WordReadAt
    <3> QED BY <3>1, <3>4
  <2> QED BY <2>1, <2>2
<1>7. CASE ok
  <2>1. ~OtherKind(source) => Advanced
    <3>1. Size(s, "ncond") = 4 /\ Section \notin FileArrays(Own)
      BY <1>1 DEF Size, FileArrays
    <3>2. pos' = pos + 4 /\ WordAt(b, pos) = Len(Own.cond_n) /\ Left >= 4
      BY <1>3, <1>7 DEF ok
    <3> QED BY <1>1, <1>3, <1>6, <3>1, <3>2 DEF Advanced
  <2>2. Onward
    BY <1>3, <1>7
  <2> QED BY <1>1, <1>2, <1>3, <1>4, <2>1, <2>2, SectionInv
<1>8. CASE ~ok
  <2>1. ~OwnFile
    <3> SUFFICES ASSUME OwnFile PROVE ok
      BY <1>8
    <3>1. s = Own /\ b = Serialised(s) /\ ~OtherKind(source)
      BY <1>2 DEF OwnFile
    <3>2. /\ Offset(s, "ncond") + Size(s, "ncond") <= Len(b) /\ Size(s, "ncond") = 4
          /\ Offset(s, "ncond") \in Nat
      BY <1>2, <3>1, Offsets DEF Names, Size
    <3>3. Left >= 4
      <4>1. pos = Offset(s, "ncond")
        BY <1>6, <3>1
      <4>2. pos \in Nat /\ Len(b) \in Nat /\ pos + 4 <= Len(b)
        BY <1>2, <1>5, <3>2, <4>1
      <4>3. Left \in Nat /\ (pos <= Len(b) => pos + Left = Len(b))
        BY <4>2, LeftIs
      <4> QED BY <4>2, <4>3
    <3> QED BY <1>6, <3>1, <3>3 DEF ok
  <2>2. Bad
    BY <1>3, <1>8
  <2> QED BY <1>1, <1>2, <1>3, <1>4, <2>1, <2>2, SectionInv
<1> QED BY <1>7, <1>8

(* In a file of its kind, the section that the loader stands at has the    *)
(* length and the range of entries that it expects.                        *)
LEMMA SectionFits ==
    ASSUME ProgramInv, stage > 0, ~OtherKind(source)
    PROVE  /\ pos = Offset(source.scanner, Section)
           /\ Section \in IntArrays(Own) \cup {"ec", "meta"} =>
                 Length(source.scanner, Section) = Length(Own, Section)
           /\ Section \in IntArrays(Own) \cup {"ec"} =>
                 Entry(source.scanner, Section) = Entry(Own, Section)
<1> DEFINE s == source.scanner
<1>1. /\ stage \in 1 .. Len(Sections) /\ Own \in Scanners /\ Own.compressed \in BOOLEAN
      /\ s \in Scanners /\ s.compressed = Own.compressed /\ Len(s.trail) = Len(Own.trail)
  BY KindAgrees
<1>2. /\ Nclasses(s) = Nclasses(Own) /\ Nstates(s) = Nstates(Own)
      /\ Own.compressed /\ stage > 3 => Len(s.nxt) = Len(Own.nxt)
      /\ stage > Condition => Len(s.cond_n) = Len(Own.cond_n)
      /\ pos = Offset(s, Section)
  BY DEF ProgramInv, Loading, Section
<1>3. /\ Section \in {"base", "def", "chk"} => stage > 3 /\ Own.compressed
      /\ Section = "nxt" /\ Own.compressed => stage > 3
      /\ Section \in {"cond_n", "cond_b"} => stage > Condition
  BY <1>1, SectionAt
<1>4. Len(s.ec) = Len(Own.ec)
  BY <1>1, ScannersAssumption
<1>5. /\ s.compressed => Pool(s) = Len(s.nxt) /\ Pool(Own) = Len(Own.nxt)
      /\ ~s.compressed => /\ Len(s.nxt) = Nstates(s) * Nclasses(s)
                          /\ Len(Own.nxt) = Nstates(Own) * Nclasses(Own)
  BY <1>1, Shape
<1>6. /\ Section = "nxt" => Len(s.nxt) = Len(Own.nxt)
      /\ Section \in {"base", "def", "chk"} => Pool(s) = Pool(Own)
  BY <1>1, <1>2, <1>3, <1>5
<1>7. Section \in IntArrays(Own) \cup {"ec", "meta"} => Length(s, Section) = Length(Own, Section)
  BY <1>1, <1>2, <1>3, <1>4, <1>6 DEF Length, IntArrays
<1>8. Section \in IntArrays(Own) \cup {"ec"} => Entry(s, Section) = Entry(Own, Section)
  BY <1>1, <1>2, <1>6 DEF Entry, IntArrays
<1> QED BY <1>2, <1>7, <1>8

LEMMA FileInts ==
    ASSUME NEW s \in Scanners, NEW b, CutOf(b, s)
    PROVE  /\ \A i \in 1 .. Len(b) : b[i] \in Int
           /\ \A p \in Nat : p + 4 <= Len(b) => WordAt(b, p) \in Int
<1>1. /\ Len(b) \in 0 .. Len(Serialised(s)) /\ Len(Serialised(s)) \in Nat
      /\ Serialised(s) \in Seq(Int)
      /\ \A i \in 1 .. Len(b) : b[i] = Serialised(s)[i]
  BY Layout DEF CutOf
<1>2. \A i \in 1 .. Len(b) : b[i] \in Int
  <2> TAKE i \in 1 .. Len(b)
  <2>1. i \in 1 .. Len(Serialised(s))
    BY <1>1
  <2> QED BY <1>1, <2>1
<1>3. ASSUME NEW p \in Nat, p + 4 <= Len(b) PROVE WordAt(b, p) \in Int
  <2>1. Len(b) \in Nat
    BY <1>1
  <2>2. b[p + 1] \in Int /\ b[p + 2] \in Int /\ b[p + 3] \in Int /\ b[p + 4] \in Int
    BY <1>2, <1>3, <2>1
  <2>3. /\ Weight[1] \in Int /\ Weight[2] \in Int /\ Weight[3] \in Int /\ Weight[4] \in Int
        /\ Words32 \in Int
    <3>1. Radix \in Nat /\ Radix * Radix \in Nat /\ Radix * Radix * Radix \in Nat
      BY TablesAssumption
    <3> QED BY <3>1, SmallWords DEF Weight
  <2> DEFINE u == b[p + 1] * Weight[1] + b[p + 2] * Weight[2]
                  + b[p + 3] * Weight[3] + b[p + 4] * Weight[4]
  <2>4. u \in Int
    <3>1. /\ b[p + 1] * Weight[1] \in Int /\ b[p + 2] * Weight[2] \in Int
          /\ b[p + 3] * Weight[3] \in Int /\ b[p + 4] * Weight[4] \in Int
      BY <2>2, <2>3
    <3> QED BY <3>1
  <2> HIDE DEF u
  <2>5. Signed(u) \in Int
    BY <2>3, <2>4 DEF Signed
  <2> QED BY <2>5 DEF WordAt, u
<1> QED BY <1>2, <1>3

(* The array that is read over keeps its length; the others stay.          *)
LEMMA OneArray ==
    ASSUME LiveShape, prog' = prog, NEW a \in FileArrays(Own), NEW q, q \in [1 .. Len(live[a]) -> Int],
           live' = [live EXCEPT ![a] = q]
    PROVE  LiveShape' /\ live'[a] = q /\ \A c \in FileArrays(Own) \ {a} : live'[c] = live[c]
<1>1. /\ live = [c \in Arrays(Own) |-> live[c]]
      /\ \A c \in FileArrays(Own) : live[c] \in Seq(Int) /\ Len(live[c]) = Len(Emitted(Own)[c])
      /\ \A c \in OwnArrays(Own) : live[c] = Emitted(Own)[c]
  BY DEF LiveShape
<1>2. Len(live[a]) \in Nat
  BY <1>1
<1>3. q \in Seq(Int) /\ Len(q) = Len(live[a])
  BY <1>2
<1>4. /\ live'[a] = q /\ (\A c \in Arrays(Own) \ {a} : live'[c] = live[c])
      /\ live' = [c \in Arrays(Own) |-> live'[c]]
      /\ \A c \in FileArrays(Own) : c \in Arrays(Own)
      /\ \A c \in OwnArrays(Own) : c \in Arrays(Own) \ {a}
  <2>1. /\ \A c \in FileArrays(Own) : c \in Arrays(Own)
        /\ \A c \in OwnArrays(Own) : c \in Arrays(Own)
    BY DEF Arrays
  <2>2. \A c \in OwnArrays(Own) : c # a
    BY DEF OwnArrays, FileArrays
  <2> QED BY <1>1, <2>1, <2>2
<1>5. Own' = Own
  BY SameProgram
<1>6. /\ \A c \in FileArrays(Own) : live'[c] \in Seq(Int) /\ Len(live'[c]) = Len(Emitted(Own)[c])
      /\ \A c \in OwnArrays(Own) : live'[c] = Emitted(Own)[c]
  BY <1>1, <1>3, <1>4
<1> QED BY <1>4, <1>5, <1>6 DEF LiveShape

(* yy_read_int_array() over one array.                                     *)
LEMMA ReadIntsInv ==
    ASSUME ProgramInv, ReadInts
    PROVE  ProgramInv'
<1> DEFINE s == source.scanner  b == source.bytes  x == Section
           total == Len(live[x])
           n == IF Left \div 4 < total THEN Left \div 4 ELSE total
           q == [i \in DOMAIN live[x] |-> IF i <= n THEN WordAt(b, pos + 4 * (i - 1)) ELSE live[x][i]]
<1>1. /\ stage > 0
      /\ x \in {"base", "def", "nxt", "chk", "acc_n", "acc_e", "cond_n", "cond_b", "trail"}
  BY DEF ReadInts, InSection, Section
<1>2. /\ prog # None /\ stage \in 1 .. Len(Sections) /\ LiveShape /\ Own \in Scanners
      /\ Own.compressed \in BOOLEAN /\ s \in Scanners /\ CutOf(b, s) /\ pos \in Nat
      /\ (~foreign => ~OtherKind(source)) /\ (OwnFile => ~OtherKind(source))
      /\ ~OtherKind(source) =>
            /\ s.compressed = Own.compressed /\ Len(s.trail) = Len(Own.trail)
            /\ FileArrays(s) = FileArrays(Own) /\ IntArrays(s) = IntArrays(Own) /\ Names(s) = Names(Own)
  BY <1>1, KindAgrees
<1>3. /\ prog' = prog /\ source' = source /\ foreign' = foreign
      /\ live' = [live EXCEPT ![x] = q] /\ pos' = pos + 4 * n
      /\ (n = total /\ Onward) \/ (n # total /\ Bad)
  BY DEF ReadInts, IntsRead, Section
<1>4. x \in IntArrays(Own) /\ x \in FileArrays(Own) /\ x \in Names(Own) /\ x # "pool" /\ x # "ncond"
  <2>1. x \in {"base", "def", "chk"} => Own.compressed
    BY <1>2, SectionAt
  <2> QED BY <1>1, <1>2, <2>1 DEF IntArrays, FileArrays, Names
<1>5. live[x] \in Seq(Int) /\ total \in Nat /\ DOMAIN live[x] = 1 .. total
  <2>1. live[x] \in Seq(Int)
    BY <1>2, <1>4 DEF LiveShape
  <2> QED BY <2>1
<1>6. Len(b) \in Nat
  BY <1>2, Layout
<1> HIDE DEF x, total
<1>7. /\ n \in 0 .. total
      /\ \A i \in 1 .. total : i <= n => pos + 4 * i <= Len(b) /\ pos + 4 * (i - 1) \in Nat
      /\ pos + 4 * total <= Len(b) => n = total
      /\ Len(b) <= pos /\ total = 1 => n = 0
  <2>1. /\ Left \in Nat /\ Left \div 4 \in Nat
        /\ pos <= Len(b) => pos + Left = Len(b)
        /\ ~(pos <= Len(b)) => Left = 0
        /\ 4 * (Left \div 4) <= Left /\ Left < 4 * (Left \div 4) + 4
    BY <1>2, <1>6, LeftIs
  <2> DEFINE l == Left  d == Left \div 4  e == Len(b)
  <2>2. /\ l \in Nat /\ d \in Nat /\ e \in Nat /\ pos \in Nat /\ total \in Nat
        /\ (pos <= e => pos + l = e) /\ (~(pos <= e) => l = 0)
        /\ 4 * d <= l /\ l < 4 * d + 4
    BY <1>2, <1>5, <1>6, <2>1
  <2>3. n = IF d < total THEN d ELSE total
    OBVIOUS
  <2> HIDE DEF l, d, e, n
  <2>4. n \in 0 .. total /\ n <= d
    BY <2>2, <2>3
  <2>5. ASSUME NEW i \in 1 .. total, i <= n
        PROVE  pos + 4 * i <= e /\ pos + 4 * (i - 1) \in Nat
    BY <2>2, <2>4, <2>5
  <2>6. pos + 4 * total <= e => n = total
    BY <2>2, <2>3
  <2>7. e <= pos /\ total = 1 => n = 0
    BY <2>2, <2>3
  <2> QED BY <2>4, <2>5, <2>6, <2>7 DEF e
<1> HIDE DEF n
<1>8. \A i \in 1 .. total : i <= n => WordAt(b, pos + 4 * (i - 1)) \in Int
  <2> SUFFICES ASSUME NEW i \in 1 .. total, i <= n PROVE WordAt(b, pos + 4 * (i - 1)) \in Int
    OBVIOUS
  <2>1. pos + 4 * (i - 1) \in Nat /\ pos + 4 * i <= Len(b)
    BY <1>7
  <2>2. (pos + 4 * (i - 1)) + 4 <= Len(b)
    BY <1>2, <1>5, <1>6, <2>1
  <2> QED BY <1>2, <2>1, <2>2, FileInts
<1>9. q \in [1 .. Len(live[x]) -> Int]
  <2>1. \A i \in 1 .. total : live[x][i] \in Int
    BY <1>5 DEF total
  <2> QED BY <1>5, <1>8, <2>1 DEF total
<1>10. \A i \in 1 .. total : q[i] = IF i <= n THEN WordAt(b, pos + 4 * (i - 1)) ELSE live[x][i]
  BY <1>5
<1>11. q \in Seq(Int) /\ Len(q) = total
  BY <1>5, <1>9 DEF total
<1> HIDE DEF q
<1>12. LiveShape' /\ live'[x] = q /\ \A c \in FileArrays(Own) \ {x} : live'[c] = live[c]
  BY <1>2, <1>3, <1>4, <1>9, OneArray
<1>13. pos' \in Nat
  BY <1>2, <1>3, <1>5, <1>7
<1>14. total = Len(Emitted(Own)[x])
  BY <1>2, <1>4 DEF LiveShape, total
(* A file of the program's kind: what is read is what was written.         *)
<1>15. ASSUME ~OtherKind(source), ~(x = "trail" /\ Own.trail = <<>>)
       PROVE  /\ \A i \in 1 .. total : i <= n => q[i] = s[x][i] /\ q[i] \in Entry(Own, x)
              /\ n = total => q = Emitted(s)[x] /\ pos' = Offset(s, x) + Size(s, x)
              /\ b = Serialised(s) => n = total
  <2>1. pos = Offset(s, x) /\ Length(s, x) = Length(Own, x) /\ Entry(s, x) = Entry(Own, x)
    BY <1>1, <1>4, <1>15, SectionFits DEF x
  <2>2. /\ s[x] \in Seq(Int) /\ Len(s[x]) = Length(s, x)
        /\ \A i \in 1 .. Len(s[x]) : s[x][i] \in Entry(s, x) /\ s[x][i] \in Int32
        /\ Len(Own[x]) = Length(Own, x)
    BY <1>2, <1>4, <1>15, Shape
  <2>3. Emitted(Own)[x] = Own[x]
    BY <1>2, <1>4, <1>15, EmittedAre
  <2>4. Emitted(s)[x] = s[x]
    <3>1. CASE x # "trail"
      BY <1>2, <1>4, <1>15, <3>1, EmittedAre
    <3>2. CASE x = "trail"
      <4>1. Own.trail \in Seq(Int) /\ Own.trail # <<>>
        BY <1>2, <1>15, <3>2, Shape DEF IntArrays
      <4>2. Len(Own.trail) # 0
        BY <4>1
      <4>3. s.trail # <<>>
        BY <1>2, <1>15, <4>2, EmittedAre
      <4> QED BY <1>2, <3>2, <4>3, EmittedAre
    <3> QED BY <3>1, <3>2
  <2>5. total = Len(s[x]) /\ total = Length(s, x)
    BY <1>14, <2>1, <2>2, <2>3
  <2>6. Holds(b, pos, Words(s[x]))
    BY <1>2, <1>4, <1>15, <2>1, Layout
  <2>7. ASSUME NEW i \in 1 .. total, i <= n PROVE q[i] = s[x][i] /\ q[i] \in Entry(Own, x)
    <3>1. i \in 1 .. Len(s[x]) /\ pos + 4 * i <= Len(b)
      BY <1>7, <2>5, <2>7
    <3>2. s[x][i] \in Int32 => WordAt(b, pos + 4 * (i - 1)) = s[x][i]
      BY <1>2, <1>6, <2>2, <2>6, <3>1, WordRead
    <3> QED BY <1>10, <2>1, <2>2, <2>7, <3>1, <3>2
  <2>8. /\ Offset(s, x) \in Nat /\ Offset(s, x) + Size(s, x) <= Len(Serialised(s))
        /\ Size(s, x) = 4 * total
    <3>1. Offset(s, x) \in Nat /\ Offset(s, x) + Size(s, x) <= Len(Serialised(s))
      BY <1>2, <1>4, <1>15, Offsets
    <3>2. Size(s, x) = 4 * Length(s, x)
      BY <1>1 DEF Size, x
    <3> QED BY <2>5, <3>1, <3>2
  <2>9. ASSUME n = total PROVE q = Emitted(s)[x] /\ pos' = Offset(s, x) + Size(s, x)
    <3>1. \A i \in 1 .. total : i <= n
      BY <1>5, <2>9
    <3>2. \A i \in 1 .. total : q[i] = s[x][i]
      BY <2>7, <3>1
    <3>3. q = s[x]
      BY <1>11, <2>2, <2>5, <3>2
    <3> QED BY <1>3, <2>1, <2>4, <2>8, <2>9, <3>3
  <2>10. b = Serialised(s) => n = total
    BY <1>7, <2>1, <2>8
  <2> QED BY <2>7, <2>9, <2>10
(* A program without rules finds no trail length in such a file.           *)
<1>16. ASSUME ~OtherKind(source), x = "trail" /\ Own.trail = <<>>
       PROVE  total = 1 /\ n = 0 /\ ~OwnFile
  <2>1. Len(Own.trail) = 0 /\ total = 1
    BY <1>2, <1>14, <1>16, EmittedAre
  <2>2. pos = Offset(s, "trail")
    BY <1>1, <1>16, SectionFits DEF x
  <2>3. Len(s.trail) = 0
    BY <1>2, <1>16, <2>1
  <2>4. Len(Serialised(s)) = Offset(s, "trail") + 4 * 0 /\ Len(Serialised(s)) \in Nat
    BY <1>2, <2>3, Layout
  <2>5. Len(b) <= pos
    <3>1. Len(b) \in 0 .. Len(Serialised(s))
      BY <1>2 DEF CutOf
    <3> QED BY <1>2, <2>2, <2>4, <3>1
  <2> QED BY <1>7, <1>16, <2>1, <2>5 DEF OwnFile
<1>17. InRange'
  <2>1. Own' = Own
    BY <1>3, SameProgram
  <2> SUFFICES ASSUME ~foreign, NEW a \in IntArrays(Own) \cup {"ec"}, NEW i \in 1 .. Len(live'[a])
               PROVE  live'[a][i] \in Entry(Own, a)
    BY <1>3, <2>1 DEF InRange
  <2>2. a \in FileArrays(Own)
    BY <1>2, EmittedAre
  <2>3. \A j \in 1 .. Len(live[a]) : live[a][j] \in Entry(Own, a)
    BY <1>2 DEF ProgramInv, InRange
  <2>4. CASE a # x
    BY <1>12, <2>2, <2>3, <2>4
  <2>5. CASE a = x
    <3>1. i \in 1 .. total /\ live'[a][i] = q[i]
      BY <1>11, <1>12, <2>5
    <3>2. CASE i <= n
      <4>1. ~(x = "trail" /\ Own.trail = <<>>)
        BY <1>2, <1>16, <3>1, <3>2
      <4> QED BY <1>2, <1>15, <2>5, <3>1, <3>2, <4>1
    <3>3. CASE ~(i <= n)
      BY <1>10, <2>3, <2>5, <3>1, <3>3 DEF total
    <3> QED BY <3>2, <3>3
  <2> QED BY <2>4, <2>5
<1>18. CASE n = total
  <2>1. ASSUME ~OtherKind(source) PROVE Advanced
    <3>1. ~(x = "trail" /\ Own.trail = <<>>)
      BY <1>16, <1>18, <2>1
    <3>2. q = Emitted(s)[x] /\ pos' = Offset(s, x) + Size(s, x)
      BY <1>15, <1>18, <2>1, <3>1
    <3> QED BY <1>4, <1>12, <3>2 DEF Advanced, x
  <2>2. Onward
    BY <1>3, <1>18
  <2> QED BY <1>1, <1>3, <1>12, <1>13, <1>17, <2>1, <2>2, SectionInv
<1>19. CASE n # total
  <2>1. ~OwnFile
    <3> SUFFICES ASSUME OwnFile PROVE FALSE
      OBVIOUS
    <3>1. s = Own /\ b = Serialised(s) /\ ~OtherKind(source)
      BY <1>2 DEF OwnFile
    <3> QED BY <1>15, <1>16, <1>19, <3>1
  <2>2. Bad
    BY <1>3, <1>19
  <2> QED BY <1>1, <1>3, <1>12, <1>13, <1>17, <2>1, <2>2, SectionInv
<1> QED BY <1>18, <1>19

(* fread() over the classes of the bytes and the meta classes.             *)
LEMMA ReadBytesInv ==
    ASSUME ProgramInv, ReadBytes
    PROVE  ProgramInv'
<1> DEFINE s == source.scanner  b == source.bytes  x == Section
           n == IF Left < ByteCount THEN Left ELSE ByteCount
           q == [i \in DOMAIN live[x] |-> IF i <= n THEN b[pos + i] ELSE live[x][i]]
<1>1. stage > 0 /\ x \in {"ec", "meta"}
  BY DEF ReadBytes, InSection, Section
<1>2. /\ prog # None /\ stage \in 1 .. Len(Sections) /\ LiveShape /\ Own \in Scanners
      /\ Own.compressed \in BOOLEAN /\ s \in Scanners /\ CutOf(b, s) /\ pos \in Nat
      /\ (~foreign => ~OtherKind(source)) /\ (OwnFile => ~OtherKind(source))
      /\ ~OtherKind(source) =>
            s.compressed = Own.compressed /\ FileArrays(s) = FileArrays(Own) /\ Names(s) = Names(Own)
  BY <1>1, KindAgrees
<1>3. /\ prog' = prog /\ source' = source /\ foreign' = foreign
      /\ live' = [a \in DOMAIN live |-> IF a # x THEN live[a] ELSE q] /\ pos' = pos + n
      /\ (n = ByteCount /\ Onward) \/ (n # ByteCount /\ Bad)
  BY DEF ReadBytes
<1>4. /\ live = [a \in Arrays(Own) |-> live[a]]
      /\ \A a \in FileArrays(Own) : live[a] \in Seq(Int) /\ Len(live[a]) = Len(Emitted(Own)[a])
  BY <1>2 DEF LiveShape
<1>5. /\ x \in Names(Own) /\ x # "pool" /\ x # "ncond"
      /\ x \in FileArrays(Own) <=> x = "ec" \/ Own.compressed
  BY <1>1 DEF Names, FileArrays
<1>6. ByteCount \in Nat /\ ByteCount = Length(Own, x)
  <2>1. Len(Own.ec) \in Nat /\ Nclasses(Own) \in Nat
    BY <1>2, Shape
  <2> QED BY <1>1, <2>1 DEF ByteCount, Length
<1>7. ASSUME x \in FileArrays(Own)
      PROVE  live[x] \in Seq(Int) /\ Len(live[x]) = ByteCount /\ DOMAIN live[x] = 1 .. ByteCount
  <2>1. live[x] \in Seq(Int) /\ Emitted(Own)[x] = Own[x]
    BY <1>1, <1>2, <1>4, <1>7, EmittedAre
  <2>2. Len(Own[x]) = Length(Own, x)
    BY <1>1, <1>2, <1>5, <1>7, Shape DEF Length
  <2>3. Len(live[x]) = ByteCount
    BY <1>4, <1>6, <1>7, <2>1, <2>2
  <2> QED BY <1>6, <2>1, <2>3
<1>8. Len(b) \in Nat
  BY <1>2, Layout
<1>9. /\ n \in 0 .. ByteCount /\ n \in Nat
      /\ \A i \in 1 .. ByteCount : i <= n => pos + i <= Len(b) /\ pos + i \in 1 .. Len(b)
      /\ pos + ByteCount <= Len(b) => n = ByteCount
  <2>1. /\ Left \in Nat
        /\ pos <= Len(b) => pos + Left = Len(b)
        /\ ~(pos <= Len(b)) => Left = 0
    BY <1>2, <1>8, LeftIs
  <2> DEFINE l == Left  e == Len(b)  t == ByteCount
  <2>2. /\ l \in Nat /\ e \in Nat /\ pos \in Nat /\ t \in Nat
        /\ (pos <= e => pos + l = e) /\ (~(pos <= e) => l = 0)
    BY <1>2, <1>6, <1>8, <2>1
  <2>3. n = IF l < t THEN l ELSE t
    OBVIOUS
  <2> HIDE DEF l, e, t, n
  <2>4. n \in 0 .. t /\ n \in Nat /\ n <= l
    BY <2>2, <2>3
  <2>5. ASSUME NEW i \in 1 .. t, i <= n PROVE pos + i <= e /\ pos + i \in 1 .. e
    BY <2>2, <2>4, <2>5
  <2>6. pos + t <= e => n = t
    BY <2>2, <2>3
  <2> QED BY <2>4, <2>5, <2>6 DEF e, t
<1> HIDE DEF n
<1>10. ASSUME x \in FileArrays(Own)
       PROVE  /\ q \in [1 .. Len(live[x]) -> Int] /\ q \in Seq(Int) /\ Len(q) = ByteCount
              /\ \A i \in 1 .. ByteCount : q[i] = IF i <= n THEN b[pos + i] ELSE live[x][i]
  <2>1. /\ live[x] \in Seq(Int) /\ Len(live[x]) = ByteCount
        /\ DOMAIN live[x] = 1 .. ByteCount
    BY <1>7, <1>10
  <2>2. \A i \in 1 .. ByteCount : i <= n => b[pos + i] \in Int
    BY <1>2, <1>9, FileInts
  <2>3. \A i \in 1 .. ByteCount : live[x][i] \in Int
    BY <2>1
  <2>4. q \in [1 .. ByteCount -> Int]
    BY <2>1, <2>2, <2>3
  <2>5. \A i \in 1 .. ByteCount : q[i] = IF i <= n THEN b[pos + i] ELSE live[x][i]
    BY <2>1
  <2> QED BY <1>6, <2>1, <2>4, <2>5
<1> HIDE DEF q, x
<1>11. LiveShape' /\ (\A c \in FileArrays(Own) \ {x} : live'[c] = live[c])
       /\ (x \in FileArrays(Own) => live'[x] = q)
  <2>1. CASE x \in FileArrays(Own)
    <3>1. live' = [live EXCEPT ![x] = q]
      BY <1>3
    <3> QED BY <1>2, <1>3, <1>10, <2>1, <3>1, OneArray
  <2>2. CASE x \notin FileArrays(Own)
    <3>1. x \notin Arrays(Own)
      BY <1>1, <2>2 DEF Arrays, OwnArrays, x
    <3>2. live' = live
      BY <1>3, <1>4, <3>1
    <3> QED BY <1>2, <1>3, <2>2, <3>2, SameProgram
  <2> QED BY <2>1, <2>2
<1>12. pos' \in Nat
  BY <1>2, <1>3, <1>9
<1>13. ASSUME ~OtherKind(source)
       PROVE  /\ pos = Offset(s, x) /\ Size(s, x) = ByteCount
              /\ b = Serialised(s) => n = ByteCount
              /\ x = "ec" => \A i \in 1 .. ByteCount : i <= n => q[i] \in Entry(Own, x)
              /\ n = ByteCount /\ x \in FileArrays(Own) => q = Emitted(s)[x]
  <2>1. /\ pos = Offset(s, x) /\ Length(s, x) = ByteCount
        /\ x = "ec" => Entry(s, x) = Entry(Own, x)
    BY <1>1, <1>6, <1>13, SectionFits DEF x
  <2>2. Size(s, x) = ByteCount
    BY <1>1, <2>1 DEF Size, x
  <2>3. b = Serialised(s) => n = ByteCount
    BY <1>2, <1>5, <1>9, <1>13, <2>1, <2>2, Offsets
  <2>4. ASSUME x = "ec", NEW i \in 1 .. ByteCount, i <= n
        PROVE  b[pos + i] = s.ec[i] /\ s.ec[i] \in Entry(s, x)
    <3>1. Holds(b, pos, s.ec) /\ Len(s.ec) = ByteCount
      BY <1>2, <2>1, <2>4, Layout DEF Length
    <3>2. \A j \in 1 .. Len(s.ec) : s.ec[j] \in Entry(s, x)
      BY <1>2, <2>4, Shape
    <3> QED BY <1>9, <2>4, <3>1, <3>2 DEF Holds
  <2>5. ASSUME x = "meta", s.compressed, NEW i \in 1 .. ByteCount, i <= n
        PROVE  b[pos + i] = s.meta[i]
    <3>1. Nclasses(s) = ByteCount /\ Len(s.meta) = ByteCount
      BY <1>2, <2>1, <2>5, Shape DEF Length
    <3>2. Holds(b, pos, MetaBytes(s)) /\ Len(MetaBytes(s)) = ByteCount
      BY <1>2, <2>1, <2>5, <3>1, Layout, MetaBytesAre DEF IsInts
    <3>3. MetaBytes(s)[i] = s.meta[i]
      <4>1. i <= Len(s.meta)
        BY <1>6, <2>5, <3>1
      <4> QED BY <2>5, <3>1, <4>1 DEF MetaBytes
    <3> QED BY <1>9, <2>5, <3>2, <3>3 DEF Holds
  <2>6. x = "ec" => \A i \in 1 .. ByteCount : i <= n => q[i] \in Entry(Own, x)
    BY <1>5, <1>10, <2>1, <2>4
  <2>7. ASSUME n = ByteCount, x \in FileArrays(Own) PROVE q = Emitted(s)[x]
    <3>1. \A i \in 1 .. ByteCount : i <= n
      BY <1>6, <2>7
    <3>2. Emitted(s)[x] = s[x]
      BY <1>1, <1>2, <1>13, <2>7, EmittedAre DEF x
    <3>3. s[x] \in Seq(Int) /\ Len(s[x]) = ByteCount
      <4>1. CASE x = "ec"
        BY <1>2, <2>1, <4>1, Shape
      <4>2. CASE x = "meta"
        <5>1. s.compressed
          BY <1>2, <1>5, <1>13, <2>7, <4>2
        <5> QED BY <1>2, <2>1, <4>2, <5>1, Shape DEF Length
      <4> QED BY <1>1, <4>1, <4>2 DEF x
    <3>4. \A i \in 1 .. ByteCount : q[i] = s[x][i]
      <4>1. \A i \in 1 .. ByteCount : q[i] = b[pos + i]
        BY <1>10, <2>7, <3>1
      <4>2. CASE x = "ec"
        BY <2>4, <3>1, <4>1, <4>2
      <4>3. CASE x = "meta"
        <5>1. s.compressed
          BY <1>2, <1>5, <1>13, <2>7, <4>3
        <5> QED BY <2>5, <3>1, <4>1, <4>3, <5>1
      <4> QED BY <1>1, <4>2, <4>3 DEF x
    <3> QED BY <1>10, <2>7, <3>2, <3>3, <3>4
  <2> QED BY <2>1, <2>2, <2>3, <2>6, <2>7
<1>14. InRange'
  <2>1. Own' = Own
    BY <1>3, SameProgram
  <2> SUFFICES ASSUME ~foreign, NEW a \in IntArrays(Own) \cup {"ec"}, NEW i \in 1 .. Len(live'[a])
               PROVE  live'[a][i] \in Entry(Own, a)
    BY <1>3, <2>1 DEF InRange
  <2>2. a \in FileArrays(Own) /\ a # "meta"
    BY <1>2, EmittedAre DEF IntArrays
  <2>3. \A j \in 1 .. Len(live[a]) : live[a][j] \in Entry(Own, a)
    BY <1>2 DEF ProgramInv, InRange
  <2>4. CASE a # x
    BY <1>11, <2>2, <2>3, <2>4
  <2>5. CASE a = x
    <3>1. /\ i \in 1 .. ByteCount /\ live'[a][i] = q[i] /\ Len(live[a]) = ByteCount
          /\ q[i] = IF i <= n THEN b[pos + i] ELSE live[a][i]
      BY <1>7, <1>10, <1>11, <2>2, <2>5
    <3>2. x = "ec"
      BY <1>1, <2>2, <2>5 DEF x
    <3>3. CASE i <= n
      BY <1>2, <1>13, <2>5, <3>1, <3>2, <3>3
    <3>4. CASE ~(i <= n)
      BY <2>3, <3>1, <3>4
    <3> QED BY <3>3, <3>4
  <2> QED BY <2>4, <2>5
<1>15. CASE n = ByteCount
  <2>1. ASSUME ~OtherKind(source) PROVE Advanced
    BY <1>3, <1>5, <1>11, <1>13, <1>15, <2>1 DEF Advanced, x
  <2>2. Onward
    BY <1>3, <1>15
  <2> QED BY <1>1, <1>3, <1>11, <1>12, <1>14, <2>1, <2>2, SectionInv
<1>16. CASE n # ByteCount
  <2>1. ~OwnFile
    BY <1>2, <1>13, <1>16 DEF OwnFile
  <2>2. Bad
    BY <1>3, <1>16
  <2> QED BY <1>1, <1>3, <1>11, <1>12, <1>14, <2>1, <2>2, SectionInv
<1> QED BY <1>15, <1>16

-----------------------------------------------------------------------------
(* Theorems.                                                               *)

LEMMA NextInv ==
    ASSUME IInv, [Next]_vars
    PROVE  IInv'
<1>1. CASE Lex \/ WriteScanner \/ WriteTables \/ WriteHeader
  <2>1. UNCHANGED program
    BY <1>1 DEF Lex, WriteScanner, WriteTables, WriteHeader
  <2> QED BY <1>1, <2>1, DiskStep, ProgramSame DEF IInv
<1>2. CASE UNCHANGED vars
  <2>1. UNCHANGED program /\ UNCHANGED disk
    BY <1>2 DEF vars
  <2>2. DiskOK'
    BY <2>1 DEF IInv, DiskOK, disk, Written
  <2> QED BY <2>1, <2>2, ProgramSame DEF IInv
<1>3. ASSUME UNCHANGED disk PROVE DiskOK'
  BY <1>3 DEF IInv, DiskOK, disk, Written
<1>4. CASE Start
  BY <1>3, <1>4, StartInv DEF Start, IInv
<1>5. CASE Fload
  BY <1>3, <1>5, FloadInv DEF Fload, IInv
<1>6. CASE Header
  BY <1>3, <1>6, HeaderInv DEF Header, IInv
<1>7. CASE ReadBytes
  BY <1>3, <1>7, ReadBytesInv DEF ReadBytes, IInv
<1>8. CASE ReadInts
  BY <1>3, <1>8, ReadIntsInv DEF ReadInts, IInv
<1>9. CASE CheckPool
  BY <1>3, <1>9, CheckPoolInv DEF CheckPool, IInv
<1>10. CASE CheckConditions
  BY <1>3, <1>10, CheckConditionsInv DEF CheckConditions, IInv
<1> QED BY <1>1, <1>2, <1>4, <1>5, <1>6, <1>7, <1>8, <1>9, <1>10 DEF Next

(* The disk, the program and its loader stay consistent: every tables file *)
(* is a whole or cut-off one for its scanner, and the loader stands where  *)
(* the writer put the section it is about to read.                         *)
THEOREM Consistent == Spec => []IInv
BY InitInv, NextInv, PTL DEF Spec

(* A run of lex that reports success has written all three of its outputs. *)
THEOREM AllWritten == Spec => []SuccessInStep
<1>1. IInv => SuccessInStep
  BY DEF IInv, DiskOK, Written, SuccessInStep
<1> QED BY <1>1, Consistent, PTL

(* Every scanner loads the file that serialise_tables() wrote for it, with *)
(* the result that its arrays are those it was compiled with.              *)
THEOREM WriterAndLoaderAgree == Spec => []OwnFileLoads
<1>1. IInv => OwnFileLoads
  <2> SUFFICES ASSUME IInv, stage = Idle, OwnFile
               PROVE  result = "ok" /\ live = Emitted(Own)
    BY DEF OwnFileLoads, OwnFile
  <2>1. result = "ok"
    BY DEF IInv, ProgramInv, NotRefused
  <2>2. ~OtherKind(source)
    BY DEF OwnFile, OtherKind
  <2>3. \A a \in Arrays(Own) : live[a] = Emitted(Own)[a]
    BY <2>1, <2>2 DEF IInv, ProgramInv, LoadedWhole, OwnFile
  <2>4. Own \in Scanners /\ live = [a \in Arrays(Own) |-> live[a]]
    BY DEF IInv, ProgramInv, ProgOK, OwnFile, LiveShape
  <2>5. Emitted(Own) = [a \in Arrays(Own) |-> Emitted(Own)[a]]
    BY <2>4, EmittedAre
  <2> QED BY <2>1, <2>3, <2>4, <2>5
<1> QED BY <1>1, Consistent, PTL

(* When yytables_fload() reports success, each array that the file carries *)
(* is the whole one of the file's scanner, and each that it does not carry *)
(* (the accept lists and $ flags of the REJECT body, the boundaries, the   *)
(* lines of the rules) is still the program's.                             *)
THEOREM NoCutAccepted == Spec => []LoadedWhole
<1>1. IInv => LoadedWhole
  BY DEF IInv, ProgramInv
<1> QED BY <1>1, Consistent, PTL

(* Whatever was loaded, in part or whole, YY_TRANSITION stays inside.      *)
THEOREM LookupsInside == Spec => []LookupsStayInside
<1>1. IInv => LookupsStayInside
  <2> SUFFICES ASSUME IInv, prog # None, ~foreign PROVE LookupsStayInside
    BY DEF LookupsStayInside
  <2> DEFINE C == Nclasses(Own)  N == Nstates(Own)
  <2>1. Own \in Scanners /\ LiveShape /\ InRange
    BY DEF IInv, ProgramInv, ProgOK
  <2>2. /\ C \in Nat \ {0} /\ N \in Nat \ {0} /\ Own.compressed \in BOOLEAN
        /\ Len(Own.nxt) \in Nat /\ Len(Own.trail) \in Nat
        /\ Own.compressed => Pool(Own) = Len(Own.nxt)
        /\ ~Own.compressed => Len(Own.nxt) = N * C
    BY <2>1, Shape
  <2>3. ASSUME NEW a \in IntArrays(Own) \cup {"ec"}
        PROVE  /\ live[a] \in Seq(Int) /\ DOMAIN live[a] = 1 .. Len(live[a])
               /\ \A i \in 1 .. Len(live[a]) : live[a][i] \in Entry(Own, a)
               /\ a # "trail" => Len(live[a]) = Length(Own, a)
    <3>1. a \in FileArrays(Own)
      BY <2>1, EmittedAre
    <3>2. live[a] \in Seq(Int) /\ Len(live[a]) = Len(Emitted(Own)[a])
      BY <2>1, <3>1 DEF LiveShape
    <3>3. a # "trail" => Len(Emitted(Own)[a]) = Length(Own, a)
      BY <2>1, <3>1, EmittedAre, Shape
    <3> QED BY <2>1, <3>2, <3>3 DEF InRange
  <2>4. ASSUME NEW s \in 0 .. N - 1, NEW c \in DOMAIN live.ec
        PROVE  /\ live.ec[c] < C /\ Index(s, c) \in DOMAIN live.nxt
               /\ live.nxt[Index(s, c)] \in StateOrJam
    <3> DEFINE e == live.ec[c]  P == Len(Own.nxt)
    <3>1. e \in 0 .. C - 1
      BY <2>3, <2>4 DEF Entry
    <3>2. /\ DOMAIN live.nxt = 1 .. P
          /\ \A i \in 1 .. P : live.nxt[i] \in StateOrJam
      BY <2>3 DEF IntArrays, Entry, Length, StateOrJam
    <3>3. Index(s, c) \in 1 .. P
      <4>1. CASE Own.compressed
        <5>1. Len(live.base) = N /\ \A i \in 1 .. N : live.base[i] \in 0 .. P - C
          BY <2>2, <2>3, <4>1 DEF IntArrays, Entry, Length
        <5>2. s + 1 \in 1 .. N
          BY <2>2
        <5>3. live.base[s + 1] \in 0 .. P - C
          BY <5>1, <5>2
        <5> DEFINE d == live.base[s + 1]
        <5>4. d + e + 1 \in 1 .. P
          <6> HIDE DEF d, e, C, P
          <6>1. d \in 0 .. P - C
            BY <5>3 DEF d
          <6> QED BY <2>2, <3>1, <6>1 DEF P
        <5> QED BY <4>1, <5>4 DEF Index
      <4>2. CASE ~Own.compressed
        <5>1. P = N * C
          BY <2>2, <4>2
        <5>2. s * C + e + 1 \in 1 .. N * C
          <6> HIDE DEF e, C, N, P
          <6>1. C \in Nat /\ N \in Nat /\ s \in Nat /\ e \in Nat /\ s + 1 <= N /\ e + 1 <= C
            BY <2>2, <3>1
          <6>2. (s + 1) * C <= N * C /\ (s + 1) * C = s * C + C /\ s * C \in Nat /\ N * C \in Nat
            BY <6>1
          <6> QED BY <6>1, <6>2
        <5> QED BY <4>2, <5>1, <5>2 DEF Index
      <4> QED BY <4>1, <4>2
    <3> QED BY <2>2, <3>1, <3>2, <3>3
  <2>5. ASSUME NEW c \in DOMAIN live.cond_n
        PROVE  {live.cond_n[c], live.cond_b[c]} \subseteq StateOrJam
    <3>1. "cond_n" \in IntArrays(Own) /\ "cond_b" \in IntArrays(Own)
      BY DEF IntArrays
    <3>2. /\ Length(Own, "cond_n") = Length(Own, "cond_b")
          /\ Entry(Own, "cond_n") = StateOrJam /\ Entry(Own, "cond_b") = StateOrJam
      BY DEF Length, Entry, StateOrJam
    <3>3. c \in 1 .. Len(live["cond_n"]) /\ c \in 1 .. Len(live["cond_b"])
      BY <2>3, <2>5, <3>1, <3>2
    <3> QED BY <2>3, <3>1, <3>2, <3>3
  <2>6. ASSUME NEW i \in DOMAIN live.acc_n
        PROVE  {live.acc_n[i], live.acc_e[i]} \subseteq -1 .. Len(Own.trail) - 1
    <3>1. "acc_n" \in IntArrays(Own) /\ "acc_e" \in IntArrays(Own)
      BY DEF IntArrays
    <3>2. /\ Length(Own, "acc_n") = Length(Own, "acc_e")
          /\ Entry(Own, "acc_n") = -1 .. Len(Own.trail) - 1
          /\ Entry(Own, "acc_e") = -1 .. Len(Own.trail) - 1
      BY DEF Length, Entry
    <3>3. i \in 1 .. Len(live["acc_n"]) /\ i \in 1 .. Len(live["acc_e"])
      BY <2>3, <2>6, <3>1, <3>2
    <3> QED BY <2>3, <3>1, <3>2, <3>3
  <2> QED BY <2>4, <2>5, <2>6 DEF LookupsStayInside
<1> QED BY <1>1, Consistent, PTL
=============================================================================
