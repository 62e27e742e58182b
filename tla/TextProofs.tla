----------------------------- MODULE TextProofs -----------------------------
(***************************************************************************)
(* What holds of strings of any length that cross the border: what arrives *)
(* is well formed, and what was well formed comes back as it was sent.     *)
(* The transcoders are loops over their input: a loop unfolds into what it *)
(* makes of the first character and the loop over what is left, the first  *)
(* character is a matter of arithmetic, and induction on the length does   *)
(* the rest.                                                               *)
(***************************************************************************)
EXTENDS Utf, WellFoundedInduction, SequenceTheorems, TLAPS

(* Induction, and loops. *)

\* A set of numbers that is not empty has a least one.
LEMMA LeastNumber == ASSUME NEW T \in SUBSET Nat, T # {} PROVE \E x \in T : \A y \in T : x <= y
<1> DEFINE R == OpToRel(<, Nat)
<1>1. IsWellFoundedOn(R, Nat)
  BY NatLessThanWellFounded
<1>2. \A x, y \in Nat : (<<x, y>> \in R) <=> x < y
  BY DEF OpToRel
<1> HIDE DEF R
<1>3. PICK x \in T : \A y \in T : ~ (<<y, x>> \in R)
  BY <1>1, WFMin
<1>4. \A y \in T : x <= y
  <2> TAKE y \in T
  <2>1. x \in Nat /\ y \in Nat /\ ~ (<<y, x>> \in R)
    BY <1>3
  <2>2. (<<y, x>> \in R) <=> y < x
    BY <1>2, <2>1, Zenon
  <2> QED
    BY <2>1, <2>2
<1> QED
  BY <1>4

\* Induction over the numbers, said of a set.
LEMMA SetInduction ==
  ASSUME NEW S \in SUBSET Nat, 0 \in S, \A n \in S : n + 1 \in S
  PROVE S = Nat
<1> DEFINE T == Nat \ S
<1>1. CASE T # {}
  <2>1. PICK x \in T : \A y \in T : x <= y
    <3> HIDE DEF T
    <3>1. T \in SUBSET Nat
      BY DEF T
    <3> QED
      BY <1>1, <3>1, LeastNumber
  <2>2. x \in Nat /\ x # 0
    BY <2>1
  <2>3. x - 1 \in Nat /\ x - 1 \notin T
    BY <2>1, <2>2
  <2>4. x - 1 \in S /\ (x - 1) + 1 = x
    BY <2>2, <2>3
  <2> QED
    BY <2>1, <2>4
<1> QED
  BY <1>1

\* The function f is what a loop over n units collects from each of them on, piece by piece.
IsLoop(f, n, top, piece, step) ==
    f = [i \in 1..top |-> IF i > n THEN <<>> ELSE piece[i] \o f[i + step[i]]]

\* No step stands still, and none goes beyond the top.
Forward(n, top, step) ==
    /\ n \in Nat /\ top \in Nat /\ n < top
    /\ \A i \in 1..n : step[i] \in Nat \ {0} /\ i + step[i] <= top

\* A loop whose steps all go forward ends: the recursion defines something.
LEMMA LoopExists ==
    ASSUME NEW n, NEW top, NEW piece, NEW step, Forward(n, top, step)
    PROVE  \E f : IsLoop(f, n, top, piece, step)
<1> DEFINE Part(g, m) ==
        g = [i \in m..top |-> IF i > n THEN <<>> ELSE piece[i] \o g[i + step[i]]]
<1> DEFINE S == {k \in Nat : k < top => \E g : Part(g, top - k)}
<1>1. n \in Nat /\ top \in Nat /\ n < top
  BY DEF Forward
<1>2. 0 \in S
  <2> DEFINE g == [i \in top..top |-> <<>>]
  <2>1. \A i \in top..top : i > n
    BY <1>1
  <2>2. Part(g, top)
    BY <2>1
  <2>3. Part(g, top - 0)
    BY <2>2, <1>1, top - 0 = top
  <2> QED
    BY <2>3
<1> HIDE DEF Part
<1>3. ASSUME NEW k \in S PROVE k + 1 \in S
  <2>0. k \in Nat /\ k + 1 \in Nat /\ (k < top => \E g : Part(g, top - k))
    BY <1>3
  <2>1. SUFFICES ASSUME k + 1 < top PROVE \E g : Part(g, top - (k + 1))
    BY <2>0
  <2> DEFINE m == top - (k + 1)
  <2>2. /\ k \in Nat /\ m \in Nat /\ m >= 1 /\ top - k = m + 1
    BY <1>1, <2>0, <2>1
  <2>3. PICK g : Part(g, m + 1)
    <3>1. k < top
      BY <2>0, <2>1, <1>1
    <3> QED
      BY <2>0, <2>2, <3>1
  <2> DEFINE here == IF m > n THEN <<>> ELSE piece[m] \o g[m + step[m]]
  <2> DEFINE h == [i \in m..top |-> IF i = m THEN here ELSE g[i]]
  <2> HIDE DEF m
  <2>4. ASSUME NEW i \in m..top
        PROVE  h[i] = IF i > n THEN <<>> ELSE piece[i] \o h[i + step[i]]
    <3>1. CASE i > n
      <4>1. CASE i = m
        BY <4>1, <3>1
      <4>2. CASE i # m
        <5>1. i \in (m + 1)..top
          BY <4>2, <2>2, <1>1
        <5> QED
          BY <5>1, <4>2, <3>1, <2>3 DEF Part
      <4> QED
        BY <4>1, <4>2
    <3>2. CASE ~ (i > n)
      <4>1. i \in 1..n
        BY <3>2, <2>2, <1>1
      <4>2. i + step[i] \in m..top /\ i + step[i] # m /\ i + step[i] \in (m + 1)..top
        BY <4>1, <2>2, <1>1 DEF Forward
      <4>3. h[i + step[i]] = g[i + step[i]]
        BY <4>2
      <4>4. CASE i = m
        BY <4>3, <4>4, <3>2
      <4>5. CASE i # m
        <5>1. i \in (m + 1)..top
          BY <4>5, <2>2, <1>1
        <5>2. g[i] = piece[i] \o g[i + step[i]]
          BY <5>1, <2>3, <3>2 DEF Part
        <5> QED
          BY <5>2, <4>3, <4>5, <3>2
      <4> QED
        BY <4>4, <4>5
    <3> QED
      BY <3>1, <3>2
  <2>5. Part(h, m)
    <3>1. h = [i \in m..top |-> h[i]]
      OBVIOUS
    <3> HIDE DEF h
    <3> QED
      BY <3>1, <2>4 DEF Part
  <2> QED
    BY <2>5 DEF m
<1> HIDE DEF S
<1>4. S = Nat
  <2>1. S \in SUBSET Nat
    BY DEF S
  <2> QED
    BY <2>1, <1>2, <1>3, SetInduction
<1>5. top - 1 \in Nat /\ top - 1 < top /\ top - (top - 1) = 1
  BY <1>1
<1>6. \E g : Part(g, 1)
  BY <1>4, <1>5 DEF S
<1> QED
  BY <1>6 DEF Part, IsLoop

\* From the round after k units on, it is the loop over the units that are left.
LEMMA LoopSuffix ==
    ASSUME NEW n, NEW top, NEW piece, NEW step, Forward(n, top, step), NEW k \in 0..n,
           NEW f, IsLoop(f, n, top, piece, step),
           NEW tail, NEW hop, NEW g, IsLoop(g, n - k, top - k, tail, hop),
           \A i \in 1..n - k : tail[i] = piece[i + k] /\ hop[i] = step[i + k]
    PROVE  \A i \in 1..top - k : g[i] = f[i + k]
<1> DEFINE S == {j \in Nat : \A i \in 1..top - k : top - k - i <= j => g[i] = f[i + k]}
<1>1. n \in Nat /\ top \in Nat /\ n < top /\ k \in Nat /\ k <= n
  BY DEF Forward
<1>2. ASSUME NEW i \in 1..top - k, i > n - k
      PROVE  g[i] = f[i + k]
  <2>1. i + k \in 1..top /\ i + k > n
    BY <1>1, <1>2
  <2> QED
    BY <2>1, <1>2 DEF IsLoop
<1>3. 0 \in S
  <2>1. \A i \in 1..top - k : top - k - i <= 0 => i > n - k
    BY <1>1
  <2> QED
    BY <2>1, <1>2
<1>4. ASSUME NEW j \in S PROVE j + 1 \in S
  <2>1. ASSUME NEW i \in 1..top - k, top - k - i <= j + 1, ~ (i > n - k)
        PROVE  g[i] = f[i + k]
    <3>1. i \in 1..n - k /\ i + k \in 1..n /\ i + k \in 1..top /\ ~ (i + k > n)
      BY <1>1, <2>1
    <3>2. step[i + k] \in Nat \ {0} /\ i + k + step[i + k] <= top
      BY <3>1 DEF Forward
    <3>3. hop[i] = step[i + k] /\ tail[i] = piece[i + k]
      BY <3>1
    <3> DEFINE next == i + hop[i]
    <3>4. next \in 1..top - k /\ top - k - next <= j /\ next + k = (i + k) + step[i + k]
      BY <3>1, <3>2, <3>3, <2>1, <1>1
    <3>5. g[next] = f[next + k]
      BY <3>4
    <3>6. g[i] = tail[i] \o g[next]
      BY <2>1 DEF IsLoop
    <3>7. f[i + k] = piece[i + k] \o f[(i + k) + step[i + k]]
      BY <3>1 DEF IsLoop
    <3> QED
      BY <3>3, <3>4, <3>5, <3>6, <3>7
  <2> QED
    BY <2>1, <1>2, <1>1
<1> HIDE DEF S
<1>5. S = Nat
  <2>1. S \in SUBSET Nat
    BY DEF S
  <2> QED
    BY <2>1, <1>3, <1>4, SetInduction
<1>6. ASSUME NEW i \in 1..top - k PROVE g[i] = f[i + k]
  <2>1. top - k - i \in Nat /\ top - k - i <= top - k - i
    BY <1>1
  <2> QED
    BY <2>1, <1>5 DEF S
<1> QED
  BY <1>6

-----------------------------------------------------------------------------
(* What a code point is encoded as, and what a decoder answers. *)

\* The bytes of a std::string, the units of a Java string, code points, and those that are
\* no surrogates.
Octets == {b \in Nat : b < 256}
Shorts == {u \in Nat : u < 65536}
Points == {pt \in Nat : pt < 1114112}
Scalars == {pt \in Points : ~ IsSurrogate(pt)}

\* Sequences of one to four elements.
LEMMA Short ==
    ASSUME NEW S, NEW a \in S, NEW b \in S, NEW c \in S, NEW d \in S
    PROVE  /\ <<a>> \in Seq(S) /\ Len(<<a>>) = 1 /\ <<a>>[1] = a
           /\ <<a, b>> \in Seq(S) /\ Len(<<a, b>>) = 2 /\ <<a, b>>[1] = a /\ <<a, b>>[2] = b
           /\ <<a, b, c>> \in Seq(S) /\ Len(<<a, b, c>>) = 3
           /\ <<a, b, c>>[1] = a /\ <<a, b, c>>[2] = b /\ <<a, b, c>>[3] = c
           /\ <<a, b, c, d>> \in Seq(S) /\ Len(<<a, b, c, d>>) = 4
           /\ <<a, b, c, d>>[1] = a /\ <<a, b, c, d>>[2] = b
           /\ <<a, b, c, d>>[3] = c /\ <<a, b, c, d>>[4] = d
OBVIOUS

\* utf8_encode(), width by width (djinni_support.cpp:502-522).
LEMMA Encodes1 ==
    ASSUME NEW pt \in Nat, pt < 128
    PROVE  /\ Utf8Encode(pt) \in Seq(Octets) /\ Len(Utf8Encode(pt)) = 1
           /\ Utf8Encode(pt)[1] = pt
<1>1. Utf8Encode(pt) = <<pt>>
  BY SMT DEF Utf8Encode
<1>2. pt \in Octets
  BY SMT DEF Octets
<1> QED
  BY SMT, <1>1, <1>2, Short

\* Two bytes.
LEMMA Encodes2 ==
    ASSUME NEW pt \in Nat, pt >= 128, pt < 2048
    PROVE  /\ Utf8Encode(pt) \in Seq(Octets) /\ Len(Utf8Encode(pt)) = 2
           /\ Utf8Encode(pt)[1] = 192 + pt \div 64 /\ Utf8Encode(pt)[2] = 128 + (pt % 64)
<1> DEFINE a == 192 + pt \div 64
<1> DEFINE b == 128 + (pt % 64)
<1>0. ~ (pt < 128) /\ pt < 2048
  BY SMT
<1>1. Utf8Encode(pt) = <<a, b>>
  BY SMT, <1>0 DEF Utf8Encode
<1>2. a \in Octets /\ b \in Octets
  BY SMT DEF Octets
<1> HIDE DEF a, b
<1>3. /\ Utf8Encode(pt) \in Seq(Octets) /\ Len(Utf8Encode(pt)) = 2
      /\ Utf8Encode(pt)[1] = a /\ Utf8Encode(pt)[2] = b
  BY SMT, <1>1, <1>2, Short
<1> QED
  BY SMT, <1>3 DEF a, b

\* Three bytes.
LEMMA Encodes3 ==
    ASSUME NEW pt \in Nat, pt >= 2048, pt < 65536
    PROVE  /\ Utf8Encode(pt) \in Seq(Octets) /\ Len(Utf8Encode(pt)) = 3
           /\ Utf8Encode(pt)[1] = 224 + pt \div 4096
           /\ Utf8Encode(pt)[2] = 128 + ((pt \div 64) % 64)
           /\ Utf8Encode(pt)[3] = 128 + (pt % 64)
<1> DEFINE a == 224 + pt \div 4096
<1> DEFINE b == 128 + ((pt \div 64) % 64)
<1> DEFINE c == 128 + (pt % 64)
<1>0. ~ (pt < 128) /\ ~ (pt < 2048) /\ pt < 65536
  BY SMT
<1>1. Utf8Encode(pt) = <<a, b, c>>
  BY SMT, <1>0 DEF Utf8Encode
<1>2. a \in Octets /\ b \in Octets /\ c \in Octets
  <2>1. a \in Octets
    BY SMT DEF Octets
  <2>2. b \in Octets
    BY SMT DEF Octets
  <2>3. c \in Octets
    BY SMT DEF Octets
  <2> QED
    BY <2>1, <2>2, <2>3
<1> HIDE DEF a, b, c
<1>3. /\ Utf8Encode(pt) \in Seq(Octets) /\ Len(Utf8Encode(pt)) = 3
      /\ Utf8Encode(pt)[1] = a /\ Utf8Encode(pt)[2] = b /\ Utf8Encode(pt)[3] = c
  BY SMT, <1>1, <1>2, Short
<1> QED
  BY SMT, <1>3 DEF a, b, c

\* Four bytes.
LEMMA Encodes4 ==
    ASSUME NEW pt \in Points, pt >= 65536
    PROVE  /\ Utf8Encode(pt) \in Seq(Octets) /\ Len(Utf8Encode(pt)) = 4
           /\ Utf8Encode(pt)[1] = 240 + pt \div 262144
           /\ Utf8Encode(pt)[2] = 128 + ((pt \div 4096) % 64)
           /\ Utf8Encode(pt)[3] = 128 + ((pt \div 64) % 64)
           /\ Utf8Encode(pt)[4] = 128 + (pt % 64)
<1> DEFINE a == 240 + pt \div 262144
<1> DEFINE b == 128 + ((pt \div 4096) % 64)
<1> DEFINE c == 128 + ((pt \div 64) % 64)
<1> DEFINE d == 128 + (pt % 64)
<1>0. pt \in Nat /\ ~ (pt < 128) /\ ~ (pt < 2048) /\ ~ (pt < 65536) /\ pt < 1114112
  BY SMT DEF Points
<1>1. Utf8Encode(pt) = <<a, b, c, d>>
  BY SMT, <1>0 DEF Utf8Encode
<1>2. a \in Octets 
  BY SMT, <1>0 DEF Octets
<1>3. b \in Octets /\ d \in Octets
  BY SMT, <1>0 DEF Octets
<1>4. c \in Octets
  BY SMT, <1>0 DEF Octets
<1> HIDE DEF a, b, c, d
<1>5. /\ Utf8Encode(pt) \in Seq(Octets) /\ Len(Utf8Encode(pt)) = 4 /\ Utf8Encode(pt)[1] = a
      /\ Utf8Encode(pt)[2] = b /\ Utf8Encode(pt)[3] = c /\ Utf8Encode(pt)[4] = d
  BY SMT, <1>1, <1>2, <1>3, <1>4, Short
<1> QED
  BY SMT, <1>5 DEF a, b, c, d

\* utf16_encode(), one unit (djinni_support.cpp:407-416).
LEMMA EncodesUnit ==
    ASSUME NEW pt \in Shorts
    PROVE  /\ Utf16Encode(pt) \in Seq(Shorts) /\ Len(Utf16Encode(pt)) = 1
           /\ Utf16Encode(pt)[1] = pt
<1>1. pt < 65536
  BY SMT DEF Shorts
<1>2. Utf16Encode(pt) = <<pt>>
  BY SMT, <1>1 DEF Utf16Encode
<1> QED
  BY SMT, <1>2, Short

\* Two units.
LEMMA EncodesPair ==
    ASSUME NEW pt \in Points, pt >= 65536
    PROVE  /\ Utf16Encode(pt) \in Seq(Shorts) /\ Len(Utf16Encode(pt)) = 2
           /\ Utf16Encode(pt)[1] = 55296 + (pt - 65536) \div 1024
           /\ Utf16Encode(pt)[2] = 56320 + (pt % 1024)
<1> DEFINE a == 55296 + (pt - 65536) \div 1024
<1> DEFINE b == 56320 + (pt % 1024)
<1>0. pt \in Nat /\ ~ (pt < 65536) /\ pt < 1114112
  BY SMT DEF Points
<1>1. Utf16Encode(pt) = <<a, b>>
  BY SMT, <1>0 DEF Utf16Encode
<1>2. a \in Shorts /\ b \in Shorts
  <2>1. a \in Shorts
    BY SMT, <1>0 DEF Shorts
  <2>2. b \in Shorts
    BY SMT, <1>0 DEF Shorts
  <2> QED
    BY <2>1, <2>2
<1> HIDE DEF a, b
<1>3. /\ Utf16Encode(pt) \in Seq(Shorts) /\ Len(Utf16Encode(pt)) = 2
      /\ Utf16Encode(pt)[1] = a /\ Utf16Encode(pt)[2] = b
  BY SMT, <1>1, <1>2, Short
<1> QED
  BY SMT, <1>3 DEF a, b

\* What utf8_decode() answers, by the first byte and those that continue it.
Spelled(s, i, n, least) ==
    IF Continues(s, i, n) /\ least <= Payload(s, i, n) /\ Payload(s, i, n) < 1114112
    THEN Point(n, Payload(s, i, n)) ELSE Invalid

\* utf8_decode(), arm by arm (djinni_support.cpp:342-394).
LEMMA Utf8DecodeIs ==
    ASSUME NEW s, NEW i, s[i] \in Octets
    PROVE  /\ s[i] < 128 => Utf8Decode(s, i) = Point(1, s[i])
           /\ s[i] >= 128 /\ s[i] < 192 => Utf8Decode(s, i) = Invalid
           /\ s[i] >= 192 /\ s[i] < 224 => Utf8Decode(s, i) = Spelled(s, i, 2, 128)
           /\ s[i] >= 224 /\ s[i] < 240 => Utf8Decode(s, i) = Spelled(s, i, 3, 2048)
           /\ s[i] >= 240 /\ s[i] < 248 => Utf8Decode(s, i) = Spelled(s, i, 4, 65536)
           /\ s[i] >= 248 => Utf8Decode(s, i) = Invalid
<1>0. s[i] \in Int
  BY SMT DEF Octets
<1>1. ASSUME s[i] < 128 PROVE Utf8Decode(s, i) = Point(1, s[i])
  BY SMT, <1>1 DEF Utf8Decode
<1>2. ASSUME s[i] >= 128 /\ s[i] < 192 PROVE Utf8Decode(s, i) = Invalid
  <2>1. ~ (s[i] < 128) /\ s[i] < 192
    BY SMT, <1>0, <1>2
  <2> QED
    BY SMT, <2>1 DEF Utf8Decode
<1>3. ASSUME s[i] >= 192 /\ s[i] < 224 PROVE Utf8Decode(s, i) = Spelled(s, i, 2, 128)
  <2>1. ~ (s[i] < 128) /\ ~ (s[i] < 192) /\ s[i] < 224
    BY SMT, <1>0, <1>3
  <2> QED
    BY SMT, <2>1 DEF Utf8Decode, Spelled
<1>4. ASSUME s[i] >= 224 /\ s[i] < 240 PROVE Utf8Decode(s, i) = Spelled(s, i, 3, 2048)
  <2>1. ~ (s[i] < 128) /\ ~ (s[i] < 192) /\ ~ (s[i] < 224) /\ s[i] < 240
    BY SMT, <1>0, <1>4
  <2> QED
    BY SMT, <2>1 DEF Utf8Decode, Spelled
<1>5. ASSUME s[i] >= 240 /\ s[i] < 248 PROVE Utf8Decode(s, i) = Spelled(s, i, 4, 65536)
  <2>1. ~ (s[i] < 128) /\ ~ (s[i] < 192) /\ ~ (s[i] < 224) /\ ~ (s[i] < 240) /\ s[i] < 248
    BY SMT, <1>0, <1>5
  <2> QED
    BY SMT, <2>1 DEF Utf8Decode, Spelled
<1>6. ASSUME s[i] >= 248 PROVE Utf8Decode(s, i) = Invalid
  <2>1. ~ (s[i] < 128) /\ ~ (s[i] < 192) /\ ~ (s[i] < 224) /\ ~ (s[i] < 240) /\ ~ (s[i] < 248)
    BY SMT, <1>0, <1>6
  <2> QED
    BY SMT, <2>1 DEF Utf8Decode
<1> QED
  BY SMT, <1>1, <1>2, <1>3, <1>4, <1>5, <1>6

\* The bytes that continue a first one, each by itself.
LEMMA ContinuesIs ==
    ASSUME NEW s, NEW i \in Nat
    PROVE  /\ Continues(s, i, 2) <=> At(s, i + 1) \div 64 = 2
           /\ Continues(s, i, 3) <=> At(s, i + 1) \div 64 = 2 /\ At(s, i + 2) \div 64 = 2
           /\ Continues(s, i, 4) <=> /\ At(s, i + 1) \div 64 = 2 /\ At(s, i + 2) \div 64 = 2
                                     /\ At(s, i + 3) \div 64 = 2
<1>1. 1..2 - 1 = {1} /\ 1..3 - 1 = {1, 2} /\ 1..4 - 1 = {1, 2, 3}
  BY SMT
<1>2. Continues(s, i, 2) <=> At(s, i + 1) \div 64 = 2
  BY <1>1, Zenon DEF Continues
<1>3. Continues(s, i, 3) <=> At(s, i + 1) \div 64 = 2 /\ At(s, i + 2) \div 64 = 2
  BY <1>1, Zenon DEF Continues
<1>4. Continues(s, i, 4) <=> /\ At(s, i + 1) \div 64 = 2 /\ At(s, i + 2) \div 64 = 2
                            /\ At(s, i + 3) \div 64 = 2
  BY <1>1, Zenon DEF Continues
<1> QED
  BY <1>2, <1>3, <1>4

\* The bits that they carry, width by width.
LEMMA PayloadIs ==
    ASSUME NEW s, NEW i \in Nat
    PROVE  /\ Payload(s, i, 2) = (s[i] % 32) * 64 + (At(s, i + 1) % 64)
           /\ Payload(s, i, 3) = (s[i] % 16) * 4096 + (At(s, i + 1) % 64) * 64
                                 + (At(s, i + 2) % 64)
           /\ Payload(s, i, 4) = (s[i] % 8) * 262144 + (At(s, i + 1) % 64) * 4096
                                 + (At(s, i + 2) % 64) * 64 + (At(s, i + 3) % 64)
BY SMT DEF Payload

-----------------------------------------------------------------------------
(* What the bits of a character spell, and the bytes that they came from. *)

Follows(b) == b >= 128 /\ b < 192

Two(a, b) == (a % 32) * 64 + (b % 64)
Three(a, b, c) == (a % 16) * 4096 + (b % 64) * 64 + (c % 64)
Four(a, b, c, d) == (a % 8) * 262144 + (b % 64) * 4096 + (c % 64) * 64 + (d % 64)

\* The bits of two bytes give these bytes back.
LEMMA TwoBytes ==
    ASSUME NEW a \in Octets, NEW b \in Octets, a >= 192, a < 224, Follows(b)
    PROVE  /\ Two(a, b) \in Nat /\ Two(a, b) < 2048
           /\ 192 + Two(a, b) \div 64 = a /\ 128 + (Two(a, b) % 64) = b
BY SMT DEF Octets, Follows, Two

\* So do those of three.
LEMMA ThreeBytes ==
    ASSUME NEW a \in Octets, NEW b \in Octets, NEW c \in Octets,
           a >= 224, a < 240, Follows(b), Follows(c)
    PROVE  /\ Three(a, b, c) \in Nat /\ Three(a, b, c) < 65536
           /\ 224 + Three(a, b, c) \div 4096 = a
           /\ 128 + ((Three(a, b, c) \div 64) % 64) = b /\ 128 + (Three(a, b, c) % 64) = c
BY SMT DEF Octets, Follows, Three

\* And those of four.
LEMMA FourBytes ==
    ASSUME NEW a \in Octets, NEW b \in Octets, NEW c \in Octets, NEW d \in Octets,
           a >= 240, a < 248, Follows(b), Follows(c), Follows(d)
    PROVE  /\ Four(a, b, c, d) \in Nat
           /\ 240 + Four(a, b, c, d) \div 262144 = a
           /\ 128 + ((Four(a, b, c, d) \div 4096) % 64) = b
           /\ 128 + ((Four(a, b, c, d) \div 64) % 64) = c /\ 128 + (Four(a, b, c, d) % 64) = d
BY SMT DEF Octets, Follows, Four

\* The bytes of a code point give it back, two of them.
LEMMA OfTwo ==
    ASSUME NEW pt \in Nat, pt >= 128, pt < 2048,
           NEW a, NEW b, a = 192 + pt \div 64, b = 128 + (pt % 64)
    PROVE  a >= 192 /\ a < 224 /\ Follows(b) /\ Two(a, b) = pt
BY SMT DEF Follows, Two

\* Three of them.
LEMMA OfThree ==
    ASSUME NEW pt \in Nat, pt >= 2048, pt < 65536,
           NEW a, NEW b, NEW c,
           a = 224 + pt \div 4096, b = 128 + ((pt \div 64) % 64), c = 128 + (pt % 64)
    PROVE  a >= 224 /\ a < 240 /\ Follows(b) /\ Follows(c) /\ Three(a, b, c) = pt
BY SMT DEF Follows, Three

\* Four of them.
LEMMA OfFour ==
    ASSUME NEW pt \in Nat, pt >= 65536, pt < 1114112,
           NEW a, NEW b, NEW c, NEW d,
           a = 240 + pt \div 262144, b = 128 + ((pt \div 4096) % 64),
           c = 128 + ((pt \div 64) % 64), d = 128 + (pt % 64)
    PROVE  /\ a >= 240 /\ a < 248 /\ Follows(b) /\ Follows(c) /\ Follows(d)
           /\ Four(a, b, c, d) = pt
BY SMT DEF Follows, Four

\* Reading one past the end finds a zero, which continues nothing.
LEMMA AtIs ==
    ASSUME NEW s \in Seq(Octets), NEW j \in Nat \ {0}
    PROVE  /\ At(s, j) \in Octets
           /\ At(s, j) \div 64 = 2 <=> Follows(At(s, j))
           /\ Follows(At(s, j)) => j <= Len(s)
           /\ j <= Len(s) => At(s, j) = s[j]
<1>1. At(s, j) \in Octets
  BY SMT DEF At, Octets
<1>2. \A b \in Octets : b \div 64 = 2 <=> Follows(b)
  BY SMT DEF Octets, Follows
<1>3. ~ Follows(0)
  BY SMT DEF Follows
<1>4. ~ (j <= Len(s)) => At(s, j) = 0
  BY SMT DEF At
<1>5. j <= Len(s) => At(s, j) = s[j]
  BY SMT DEF At
<1> QED
  BY SMT, <1>1, <1>2, <1>3, <1>4, <1>5

\* What utf8_decode_check() demands of each width, and what it answers then.
LEMMA Utf8DecodeMeans ==
    ASSUME NEW s \in Seq(Octets), NEW i \in 1..Len(s)
    PROVE  /\ s[i] \in Octets
           /\ s[i] < 128 => Utf8Decode(s, i) = Point(1, s[i])
           /\ s[i] >= 192 /\ s[i] < 224 =>
                LET p == Two(s[i], At(s, i + 1)) IN
                Utf8Decode(s, i) = IF Follows(At(s, i + 1)) /\ 128 <= p /\ p < 1114112
                                   THEN Point(2, p) ELSE Invalid
           /\ s[i] >= 224 /\ s[i] < 240 =>
                LET p == Three(s[i], At(s, i + 1), At(s, i + 2)) IN
                Utf8Decode(s, i) = IF /\ Follows(At(s, i + 1)) /\ Follows(At(s, i + 2))
                                      /\ 2048 <= p /\ p < 1114112
                                   THEN Point(3, p) ELSE Invalid
           /\ s[i] >= 240 /\ s[i] < 248 =>
                LET p == Four(s[i], At(s, i + 1), At(s, i + 2), At(s, i + 3)) IN
                Utf8Decode(s, i) = IF /\ Follows(At(s, i + 1)) /\ Follows(At(s, i + 2))
                                      /\ Follows(At(s, i + 3)) /\ 65536 <= p /\ p < 1114112
                                   THEN Point(4, p) ELSE Invalid
           /\ (s[i] >= 128 /\ s[i] < 192) \/ s[i] >= 248 => Utf8Decode(s, i) = Invalid
<1>1. s[i] \in Octets
  BY SMT
<1>2. i \in Nat /\ i + 1 \in Nat \ {0} /\ i + 2 \in Nat \ {0} /\ i + 3 \in Nat \ {0}
  BY SMT
<1>3. /\ Continues(s, i, 2) <=> Follows(At(s, i + 1))
      /\ Continues(s, i, 3) <=> Follows(At(s, i + 1)) /\ Follows(At(s, i + 2))
      /\ Continues(s, i, 4) <=>
            Follows(At(s, i + 1)) /\ Follows(At(s, i + 2)) /\ Follows(At(s, i + 3))
  BY SMT, <1>2, ContinuesIs, AtIs
<1>4. /\ Payload(s, i, 2) = Two(s[i], At(s, i + 1))
      /\ Payload(s, i, 3) = Three(s[i], At(s, i + 1), At(s, i + 2))
      /\ Payload(s, i, 4) = Four(s[i], At(s, i + 1), At(s, i + 2), At(s, i + 3))
  BY SMT, <1>2, PayloadIs DEF Two, Three, Four
<1>5. ASSUME s[i] >= 192 /\ s[i] < 224
      PROVE  Utf8Decode(s, i) = IF /\ Follows(At(s, i + 1)) /\ 128 <= Two(s[i], At(s, i + 1))
                                   /\ Two(s[i], At(s, i + 1)) < 1114112
                                THEN Point(2, Two(s[i], At(s, i + 1))) ELSE Invalid
  BY SMT, <1>1, <1>3, <1>4, <1>5, Utf8DecodeIs DEF Spelled
<1>6. ASSUME s[i] >= 224 /\ s[i] < 240
      PROVE  LET p == Three(s[i], At(s, i + 1), At(s, i + 2)) IN
             Utf8Decode(s, i) = IF /\ Follows(At(s, i + 1)) /\ Follows(At(s, i + 2))
                                   /\ 2048 <= p /\ p < 1114112
                                THEN Point(3, p) ELSE Invalid
  BY SMT, <1>1, <1>3, <1>4, <1>6, Utf8DecodeIs DEF Spelled
<1>7. ASSUME s[i] >= 240 /\ s[i] < 248
      PROVE  LET p == Four(s[i], At(s, i + 1), At(s, i + 2), At(s, i + 3)) IN
             Utf8Decode(s, i) = IF /\ Follows(At(s, i + 1)) /\ Follows(At(s, i + 2))
                                   /\ Follows(At(s, i + 3)) /\ 65536 <= p /\ p < 1114112
                                THEN Point(4, p) ELSE Invalid
  BY SMT, <1>1, <1>3, <1>4, <1>7, Utf8DecodeIs DEF Spelled
<1> QED
  BY SMT, <1>1, <1>5, <1>6, <1>7, Utf8DecodeIs

\* A decoder takes at least one byte, and none that is not there.
LEMMA Utf8Reads ==
    ASSUME NEW s \in Seq(Octets), NEW i \in 1..Len(s)
    PROVE  /\ Utf8Decode(s, i).offset \in Nat \ {0} /\ i + Utf8Decode(s, i).offset <= Len(s) + 1
           /\ Utf8Decode(s, i).pt \in Points
<1> DEFINE D == Utf8Decode(s, i)
<1>1. s[i] \in Octets /\ s[i] \in Nat /\ i \in Nat /\ Len(s) \in Nat /\ i <= Len(s)
  BY SMT DEF Octets
<1>2. i + 1 \in Nat \ {0} /\ i + 2 \in Nat \ {0} /\ i + 3 \in Nat \ {0}
  BY SMT
<1>3. /\ Follows(At(s, i + 1)) => i + 1 <= Len(s)
      /\ Follows(At(s, i + 2)) => i + 2 <= Len(s)
      /\ Follows(At(s, i + 3)) => i + 3 <= Len(s)
  BY SMT, <1>2, AtIs
<1>4. /\ At(s, i + 1) \in Octets /\ At(s, i + 2) \in Octets /\ At(s, i + 3) \in Octets
  BY SMT, <1>2, AtIs
<1>5. /\ Invalid.offset = 1 /\ Invalid.pt \in Points
      /\ \A n, p : Point(n, p).offset = n /\ Point(n, p).pt = p
  BY SMT DEF Invalid, Point, Points
<1>6. CASE D = Invalid
  BY SMT, <1>1, <1>5, <1>6
<1>7. CASE D # Invalid /\ s[i] < 128
  <2>1. D = Point(1, s[i])
    BY SMT, <1>7, Utf8DecodeMeans
  <2>2. s[i] \in Points
    BY SMT, <1>1, <1>7 DEF Points
  <2> QED
    BY SMT, <2>1, <2>2, <1>1, <1>5
<1>8. CASE D # Invalid /\ s[i] >= 192 /\ s[i] < 224
  <2> DEFINE p == Two(s[i], At(s, i + 1))
  <2>1. D = Point(2, p) /\ Follows(At(s, i + 1))
    BY SMT, <1>8, Utf8DecodeMeans
  <2>2. p \in Nat /\ p < 2048
    BY SMT, <2>1, <1>1, <1>4, <1>8, TwoBytes
  <2>3. p \in Points
    BY SMT, <2>2 DEF Points
  <2> HIDE DEF p
  <2> QED
    BY SMT, <2>1, <2>3, <1>1, <1>3, <1>5
<1>9. CASE D # Invalid /\ s[i] >= 224 /\ s[i] < 240
  <2> DEFINE p == Three(s[i], At(s, i + 1), At(s, i + 2))
  <2>1. D = Point(3, p) /\ Follows(At(s, i + 1)) /\ Follows(At(s, i + 2))
    BY SMT, <1>9, Utf8DecodeMeans
  <2>2. p \in Nat /\ p < 65536
    BY SMT, <2>1, <1>1, <1>4, <1>9, ThreeBytes
  <2>3. p \in Points
    BY SMT, <2>2 DEF Points
  <2> HIDE DEF p
  <2> QED
    BY SMT, <2>1, <2>3, <1>1, <1>3, <1>5
<1>10. CASE D # Invalid /\ s[i] >= 240 /\ s[i] < 248
  <2> DEFINE p == Four(s[i], At(s, i + 1), At(s, i + 2), At(s, i + 3))
  <2>1. /\ D = Point(4, p) /\ p < 1114112
        /\ Follows(At(s, i + 1)) /\ Follows(At(s, i + 2)) /\ Follows(At(s, i + 3))
    BY SMT, <1>10, Utf8DecodeMeans
  <2>2. p \in Nat
    BY SMT, <2>1, <1>1, <1>4, <1>10, FourBytes
  <2>3. p \in Points
    BY SMT, <2>1, <2>2 DEF Points
  <2> HIDE DEF p
  <2> QED
    BY SMT, <2>1, <2>3, <1>1, <1>3, <1>5
<1>11. (s[i] >= 128 /\ s[i] < 192) \/ s[i] >= 248 => D = Invalid
  BY SMT, Utf8DecodeMeans
<1> QED
  BY SMT, <1>1, <1>6, <1>7, <1>8, <1>9, <1>10, <1>11

\* Which it is does not depend on what came before.
LEMMA Utf8ReadsOn ==
    ASSUME NEW c \in Seq(Octets), NEW t \in Seq(Octets), NEW i \in 1..Len(t)
    PROVE  Utf8Decode(c \o t, i + Len(c)) = Utf8Decode(t, i)
<1> DEFINE s == c \o t
<1> DEFINE j == i + Len(c)
<1>1. s \in Seq(Octets) /\ Len(s) = Len(c) + Len(t) /\ j \in 1..Len(s) /\ Len(c) \in Nat
  BY SMT
<1>2. s[j] = t[i]
  BY SMT
<1>3. \A k \in {1, 2, 3} : At(s, j + k) = At(t, i + k)
  <2> TAKE k \in {1, 2, 3}
  <2>1. i + k \in Nat \ {0} /\ j + k = Len(c) + (i + k)
    BY SMT
  <2>2. CASE i + k <= Len(t)
    <3>1. j + k <= Len(s) /\ s[Len(c) + (i + k)] = t[i + k]
      BY SMT, <2>1, <2>2, <1>1
    <3> QED
      BY SMT, <3>1, <2>1, <2>2 DEF At
  <2>3. CASE ~ (i + k <= Len(t))
    <3>1. ~ (j + k <= Len(s))
      BY SMT, <2>1, <2>3, <1>1
    <3> QED
      BY SMT, <3>1, <2>3 DEF At
  <2> QED
    BY <2>2, <2>3
<1> HIDE DEF s, j
<1>4. /\ At(s, j + 1) = At(t, i + 1) /\ At(s, j + 2) = At(t, i + 2)
      /\ At(s, j + 3) = At(t, i + 3)
  BY SMT, <1>3
<1>5. t[i] \in Octets /\ t[i] \in Nat /\ i \in Nat /\ j \in Nat
  BY SMT, <1>1 DEF Octets
<1>6. Spelled(s, j, 2, 128) = Spelled(t, i, 2, 128)
  <2>1. Continues(s, j, 2) <=> Continues(t, i, 2)
    BY SMT, <1>4, <1>5, ContinuesIs
  <2>2. Payload(s, j, 2) = Payload(t, i, 2)
    BY SMT, <1>2, <1>4, <1>5, PayloadIs
  <2> QED
    BY SMT, <2>1, <2>2 DEF Spelled
<1>7. Spelled(s, j, 3, 2048) = Spelled(t, i, 3, 2048)
  <2>1. Continues(s, j, 3) <=> Continues(t, i, 3)
    BY SMT, <1>4, <1>5, ContinuesIs
  <2>2. Payload(s, j, 3) = Payload(t, i, 3)
    BY SMT, <1>2, <1>4, <1>5, PayloadIs
  <2> QED
    BY SMT, <2>1, <2>2 DEF Spelled
<1>8. Spelled(s, j, 4, 65536) = Spelled(t, i, 4, 65536)
  <2>1. Continues(s, j, 4) <=> Continues(t, i, 4)
    BY SMT, <1>4, <1>5, ContinuesIs
  <2>2. Payload(s, j, 4) = Payload(t, i, 4)
    BY SMT, <1>2, <1>4, <1>5, PayloadIs
  <2> QED
    BY SMT, <2>1, <2>2 DEF Spelled
<1>9. Utf8Decode(s, j) = Utf8Decode(t, i)
  <2>1. /\ s[j] < 128 => Utf8Decode(s, j) = Point(1, s[j])
        /\ s[j] >= 128 /\ s[j] < 192 => Utf8Decode(s, j) = Invalid
        /\ s[j] >= 192 /\ s[j] < 224 => Utf8Decode(s, j) = Spelled(s, j, 2, 128)
        /\ s[j] >= 224 /\ s[j] < 240 => Utf8Decode(s, j) = Spelled(s, j, 3, 2048)
        /\ s[j] >= 240 /\ s[j] < 248 => Utf8Decode(s, j) = Spelled(s, j, 4, 65536)
        /\ s[j] >= 248 => Utf8Decode(s, j) = Invalid
    BY SMT, <1>2, <1>5, Utf8DecodeIs
  <2>2. /\ t[i] < 128 => Utf8Decode(t, i) = Point(1, t[i])
        /\ t[i] >= 128 /\ t[i] < 192 => Utf8Decode(t, i) = Invalid
        /\ t[i] >= 192 /\ t[i] < 224 => Utf8Decode(t, i) = Spelled(t, i, 2, 128)
        /\ t[i] >= 224 /\ t[i] < 240 => Utf8Decode(t, i) = Spelled(t, i, 3, 2048)
        /\ t[i] >= 240 /\ t[i] < 248 => Utf8Decode(t, i) = Spelled(t, i, 4, 65536)
        /\ t[i] >= 248 => Utf8Decode(t, i) = Invalid
    BY SMT, <1>5, Utf8DecodeIs
  <2> QED
    BY SMTT(30), <2>1, <2>2, <1>2, <1>5, <1>6, <1>7, <1>8
<1> QED
  BY <1>9 DEF s, j

\* A code point is what its bytes are decoded to, whatever follows them.
LEMMA Utf8DecodesBack ==
    ASSUME NEW pt \in Points, NEW t \in Seq(Octets)
    PROVE  Utf8Decode(Utf8Encode(pt) \o t, 1) = Point(Len(Utf8Encode(pt)), pt)
<1> DEFINE e == Utf8Encode(pt)
<1> DEFINE s == e \o t
<1>1. pt \in Nat /\ pt < 1114112
  BY SMT DEF Points
<1>2. e \in Seq(Octets) /\ Len(e) \in Nat \ {0}
  BY SMT, <1>1, Encodes1, Encodes2, Encodes3, Encodes4
<1> HIDE DEF e
<1>3. /\ s \in Seq(Octets) /\ Len(s) \in Nat /\ Len(s) >= Len(e) /\ 1 \in 1..Len(s)
      /\ \A k \in 1..Len(e) : s[k] = e[k]
  BY SMT, <1>2
<1> HIDE DEF s
<1>4. \A k \in 1..Len(e) : At(s, k) = e[k]
  BY SMT, <1>2, <1>3 DEF At
<1>5. CASE pt < 128
  <2>1. Len(e) = 1 /\ e[1] = pt
    BY SMT, <1>1, <1>5, Encodes1 DEF e
  <2>2. s[1] = pt
    BY SMT, <2>1, <1>3
  <2>3. Utf8Decode(s, 1) = Point(1, pt)
    BY SMT, <2>2, <1>3, <1>5, Utf8DecodeMeans
  <2> QED
    BY <2>1, <2>3 DEF s, e
<1>6. CASE pt >= 128 /\ pt < 2048
  <2>1. Len(e) = 2 /\ e[1] = 192 + pt \div 64 /\ e[2] = 128 + (pt % 64)
    BY SMT, <1>1, <1>6, Encodes2 DEF e
  <2>2. s[1] = 192 + pt \div 64 /\ At(s, 1 + 1) = 128 + (pt % 64)
    BY SMT, <2>1, <1>3, <1>4
  <2>3. /\ s[1] >= 192 /\ s[1] < 224 /\ Follows(At(s, 1 + 1))
        /\ Two(s[1], At(s, 1 + 1)) = pt
    <3> DEFINE a == s[1]
    <3> DEFINE b == At(s, 1 + 1)
    <3>1. a = 192 + pt \div 64 /\ b = 128 + (pt % 64)
      BY <2>2
    <3> HIDE DEF a, b
    <3>2. a >= 192 /\ a < 224 /\ Follows(b) /\ Two(a, b) = pt
      BY SMT, <3>1, <1>1, <1>6, OfTwo
    <3> QED
      BY <3>2 DEF a, b
  <2>4. 128 <= pt /\ pt < 1114112
    BY SMT, <1>1, <1>6
  <2>5. Utf8Decode(s, 1) = Point(2, pt)
    BY SMT, <2>3, <2>4, <1>3, Utf8DecodeMeans
  <2> QED
    BY <2>1, <2>5 DEF s, e
<1>7. CASE pt >= 2048 /\ pt < 65536
  <2>1. /\ Len(e) = 3 /\ e[1] = 224 + pt \div 4096
        /\ e[2] = 128 + ((pt \div 64) % 64) /\ e[3] = 128 + (pt % 64)
    BY SMT, <1>1, <1>7, Encodes3 DEF e
  <2>2. s[1] = e[1] /\ At(s, 1 + 1) = e[2] /\ At(s, 1 + 2) = e[3]
    BY SMT, <2>1, <1>3, <1>4
  <2>3. /\ s[1] >= 224 /\ s[1] < 240 /\ Follows(At(s, 1 + 1)) /\ Follows(At(s, 1 + 2))
        /\ Three(s[1], At(s, 1 + 1), At(s, 1 + 2)) = pt
    BY SMT, <2>1, <2>2, <1>1, <1>7, OfThree
  <2>4. 2048 <= pt /\ pt < 1114112
    BY SMT, <1>1, <1>7
  <2>5. Utf8Decode(s, 1) = Point(3, pt)
    BY SMT, <2>3, <2>4, <1>3, Utf8DecodeMeans
  <2> QED
    BY <2>1, <2>5 DEF s, e
<1>8. CASE pt >= 65536
  <2>1. /\ Len(e) = 4 /\ e[1] = 240 + pt \div 262144 /\ e[2] = 128 + ((pt \div 4096) % 64)
        /\ e[3] = 128 + ((pt \div 64) % 64) /\ e[4] = 128 + (pt % 64)
    BY SMT, <1>1, <1>8, Encodes4 DEF e
  <2>2. /\ s[1] = e[1] /\ At(s, 1 + 1) = e[2] /\ At(s, 1 + 2) = e[3] /\ At(s, 1 + 3) = e[4]
    BY SMT, <2>1, <1>3, <1>4
  <2>3. /\ s[1] >= 240 /\ s[1] < 248
        /\ Follows(At(s, 1 + 1)) /\ Follows(At(s, 1 + 2)) /\ Follows(At(s, 1 + 3))
        /\ Four(s[1], At(s, 1 + 1), At(s, 1 + 2), At(s, 1 + 3)) = pt
    BY SMT, <2>1, <2>2, <1>1, <1>8, OfFour
  <2>4. 65536 <= pt /\ pt < 1114112
    BY SMT, <1>1, <1>8
  <2>5. Utf8Decode(s, 1) = Point(4, pt)
    BY SMT, <2>3, <2>4, <1>3, Utf8DecodeMeans
  <2> QED
    BY <2>1, <2>5 DEF s, e
<1> QED
  BY SMT, <1>1, <1>5, <1>6, <1>7, <1>8

\* Two sequences one after the other.
LEMMA Joined ==
    ASSUME NEW S, NEW e \in Seq(S), NEW t \in Seq(S)
    PROVE  /\ e \o t \in Seq(S) /\ Len(e \o t) = Len(e) + Len(t)
           /\ Len(e) \in Nat /\ Len(t) \in Nat
           /\ \A k \in 1..Len(e) : (e \o t)[k] = e[k]
           /\ \A k \in 1..Len(t) : (e \o t)[Len(e) + k] = t[k]
OBVIOUS

\* A sequence that begins with another is that one and the rest.
LEMMA Splits ==
    ASSUME NEW S, NEW s \in Seq(S), NEW e \in Seq(S), Len(e) <= Len(s),
           \A k \in 1..Len(e) : s[k] = e[k]
    PROVE  /\ SubSeq(s, Len(e) + 1, Len(s)) \in Seq(S)
           /\ s = e \o SubSeq(s, Len(e) + 1, Len(s))
           /\ Len(SubSeq(s, Len(e) + 1, Len(s))) = Len(s) - Len(e)
<1> DEFINE t == SubSeq(s, Len(e) + 1, Len(s))
<1>1. /\ t \in Seq(S) /\ Len(t) = Len(s) - Len(e)
      /\ \A k \in 1..Len(t) : t[k] = s[k + Len(e)]
  BY SMT
<1> HIDE DEF t
<1>2. e \o t \in Seq(S) /\ Len(e \o t) = Len(s)
  BY SMT, <1>1
<1>3. ASSUME NEW k \in 1..Len(s) PROVE (e \o t)[k] = s[k]
  BY SMT, <1>1
<1>4. s = e \o t
  <2> DEFINE u == e \o t
  <2>1. u \in Seq(S) /\ Len(s) = Len(u)
    BY <1>2
  <2>2. \A k \in 1..Len(s) : s[k] = u[k]
    BY <1>3
  <2> HIDE DEF u
  <2>3. s = u
    BY <2>1, <2>2, SeqEqual
  <2> QED
    BY <2>3 DEF u
<1> QED
  BY <1>1, <1>4 DEF t

\* Bytes that pass the checks of utf8_decode_check() are those of the code point that they spell.
LEMMA Begins1 ==
    ASSUME NEW s \in Seq(Octets), Len(s) > 0, s[1] < 128
    PROVE  /\ Utf8Encode(s[1]) \in Seq(Octets) /\ Len(Utf8Encode(s[1])) = 1
           /\ Utf8Encode(s[1])[1] = s[1]
<1> DEFINE a == s[1]
<1>1. a \in Nat
  BY SMT DEF Octets
<1>2. a < 128
  OBVIOUS
<1> HIDE DEF a
<1>3. Utf8Encode(a) \in Seq(Octets) /\ Len(Utf8Encode(a)) = 1 /\ Utf8Encode(a)[1] = a
  BY SMT, <1>1, <1>2, Encodes1
<1> QED
  BY <1>3 DEF a

\* Three bytes that are not an overlong form.
LEMMA Begins3 ==
    ASSUME NEW a \in Octets, NEW b \in Octets, NEW c \in Octets,
           a >= 224, a < 240, Follows(b), Follows(c), 2048 <= Three(a, b, c)
    PROVE  LET e == Utf8Encode(Three(a, b, c)) IN
           e \in Seq(Octets) /\ Len(e) = 3 /\ e[1] = a /\ e[2] = b /\ e[3] = c
<1> DEFINE p == Three(a, b, c)
<1>1. /\ p \in Nat /\ p < 65536 /\ 224 + p \div 4096 = a
      /\ 128 + ((p \div 64) % 64) = b /\ 128 + (p % 64) = c
  BY SMT, ThreeBytes
<1>2. p \in Nat /\ p >= 2048 /\ p < 65536
  BY SMT, <1>1
<1> HIDE DEF p
<1>3. /\ Utf8Encode(p) \in Seq(Octets) /\ Len(Utf8Encode(p)) = 3
      /\ Utf8Encode(p)[1] = 224 + p \div 4096
      /\ Utf8Encode(p)[2] = 128 + ((p \div 64) % 64) /\ Utf8Encode(p)[3] = 128 + (p % 64)
  BY SMT, <1>2, Encodes3
<1> QED
  BY SMT, <1>1, <1>3 DEF p

\* Four bytes that are no overlong form and not beyond U+10FFFF.
LEMMA Begins4 ==
    ASSUME NEW a \in Octets, NEW b \in Octets, NEW c \in Octets, NEW d \in Octets,
           a >= 240, a < 248, Follows(b), Follows(c), Follows(d),
           65536 <= Four(a, b, c, d), Four(a, b, c, d) < 1114112
    PROVE  LET e == Utf8Encode(Four(a, b, c, d)) IN
           e \in Seq(Octets) /\ Len(e) = 4 /\ e[1] = a /\ e[2] = b /\ e[3] = c /\ e[4] = d
<1> DEFINE p == Four(a, b, c, d)
<1>1. /\ p \in Nat /\ 240 + p \div 262144 = a /\ 128 + ((p \div 4096) % 64) = b
      /\ 128 + ((p \div 64) % 64) = c /\ 128 + (p % 64) = d
  BY SMT, FourBytes
<1>2. p >= 65536 /\ p < 1114112
  BY SMT, <1>1
<1> HIDE DEF p
<1>3. p \in Points
  BY SMT, <1>1, <1>2 DEF Points
<1>4. /\ Utf8Encode(p) \in Seq(Octets) /\ Len(Utf8Encode(p)) = 4
      /\ Utf8Encode(p)[1] = 240 + p \div 262144
      /\ Utf8Encode(p)[2] = 128 + ((p \div 4096) % 64)
      /\ Utf8Encode(p)[3] = 128 + ((p \div 64) % 64) /\ Utf8Encode(p)[4] = 128 + (p % 64)
  BY SMT, <1>2, <1>3, Encodes4
<1> QED
  BY SMT, <1>1, <1>4 DEF p

\* What decodes to a code point that is not U+FFFD begins with the bytes of that code point.
LEMMA Utf8Prefix ==
    ASSUME NEW s \in Seq(Octets), Len(s) > 0, Utf8Decode(s, 1) # Invalid
    PROVE  LET e == Utf8Encode(Utf8Decode(s, 1).pt) IN
           /\ e \in Seq(Octets) /\ Utf8Decode(s, 1).offset = Len(e) /\ Len(e) \in 1..Len(s)
           /\ \A k \in 1..Len(e) : s[k] = e[k]
<1> DEFINE D == Utf8Decode(s, 1)
<1> DEFINE a == s[1]
<1> DEFINE b == At(s, 1 + 1)
<1> DEFINE c == At(s, 1 + 2)
<1> DEFINE d == At(s, 1 + 3)
<1>1. 1 \in 1..Len(s) /\ Len(s) \in Nat
  BY SMT
<1>2. a \in Octets /\ \A x \in Octets : x \in Nat
  BY SMT, <1>1 DEF Octets
<1>3. /\ b \in Octets /\ c \in Octets /\ d \in Octets
      /\ Follows(b) => 2 <= Len(s) /\ b = s[2]
      /\ Follows(c) => 3 <= Len(s) /\ c = s[3]
      /\ Follows(d) => 4 <= Len(s) /\ d = s[4]
  <2>1. 1 + 1 = 2 /\ 1 + 2 = 3 /\ 1 + 3 = 4
    BY SMT
  <2>2. 2 \in Nat \ {0} /\ 3 \in Nat \ {0} /\ 4 \in Nat \ {0}
    BY SMT
  <2>3. ASSUME NEW j \in Nat \ {0}
        PROVE  At(s, j) \in Octets /\ (Follows(At(s, j)) => j <= Len(s) /\ At(s, j) = s[j])
    BY AtIs, Zenon
  <2> QED
    BY SMT, <2>1, <2>2, <2>3
<1>4. \A n, p : Point(n, p).offset = n /\ Point(n, p).pt = p
  BY SMT DEF Point
<1>5. /\ a < 128 => D = Point(1, a)
      /\ a >= 192 /\ a < 224 =>
            D = Point(2, Two(a, b)) /\ Follows(b) /\ 128 <= Two(a, b)
      /\ a >= 224 /\ a < 240 =>
            D = Point(3, Three(a, b, c)) /\ Follows(b) /\ Follows(c) /\ 2048 <= Three(a, b, c)
      /\ a >= 240 /\ a < 248 =>
            /\ D = Point(4, Four(a, b, c, d)) /\ Follows(b) /\ Follows(c) /\ Follows(d)
            /\ 65536 <= Four(a, b, c, d) /\ Four(a, b, c, d) < 1114112
      /\ ~ (a >= 128 /\ a < 192) /\ ~ (a >= 248)
  BY SMT, <1>1, Utf8DecodeMeans
<1> DEFINE e == Utf8Encode(D.pt)
<1> DEFINE Good == /\ e \in Seq(Octets) /\ D.offset = Len(e) /\ Len(e) \in 1..Len(s)
                   /\ \A k \in 1..Len(e) : s[k] = e[k]
<1>6. ASSUME a < 128 PROVE Good
  <2>1. D.pt = a /\ D.offset = 1
    BY SMT, <1>4, <1>5, <1>6
  <2>2. e \in Seq(Octets) /\ Len(e) = 1 /\ e[1] = a
    BY SMT, <1>6, <2>1, Begins1
  <2> HIDE DEF e, D
  <2> QED
    BY SMT, <2>1, <2>2, <1>1
<1>7. ASSUME a >= 192 /\ a < 224 PROVE Good
  <2>1. D.pt = Two(a, b) /\ D.offset = 2
    BY SMT, <1>4, <1>5, <1>7
  <2>2. e \in Seq(Octets) /\ Len(e) = 2 /\ e[1] = a /\ e[2] = b
    <3> DEFINE p == Two(a, b)
    <3>1. /\ p \in Nat /\ p >= 128 /\ p < 2048
          /\ 192 + p \div 64 = a /\ 128 + (p % 64) = b
      <4> HIDE DEF a, b
      <4> QED
        BY SMT, <1>2, <1>3, <1>5, <1>7, TwoBytes
    <3>2. p \in Nat /\ p >= 128 /\ p < 2048
      BY <3>1
    <3> HIDE DEF p
    <3>3. /\ Utf8Encode(p) \in Seq(Octets) /\ Len(Utf8Encode(p)) = 2
          /\ Utf8Encode(p)[1] = 192 + p \div 64 /\ Utf8Encode(p)[2] = 128 + (p % 64)
      BY SMT, <3>2, Encodes2
    <3>4. e = Utf8Encode(p)
      BY <2>1 DEF p
    <3> HIDE DEF e, a, b
    <3> QED
      BY SMT, <3>1, <3>3, <3>4
  <2> HIDE DEF e, D, b
  <2> QED
    BY SMT, <2>1, <2>2, <1>1, <1>3, <1>5, <1>7
<1>8. ASSUME a >= 224 /\ a < 240 PROVE Good
  <2>1. D.pt = Three(a, b, c) /\ D.offset = 3
    BY SMT, <1>4, <1>5, <1>8
  <2>2. e \in Seq(Octets) /\ Len(e) = 3 /\ e[1] = a /\ e[2] = b /\ e[3] = c
    <3> HIDE DEF D, a, b, c
    <3> QED
      BY SMTT(30), <1>2, <1>3, <1>5, <1>8, <2>1, Begins3
  <2> HIDE DEF e, D, b, c
  <2> QED
    BY SMT, <2>1, <2>2, <1>1, <1>3, <1>5, <1>8
<1>9. ASSUME a >= 240 /\ a < 248 PROVE Good
  <2>1. D.pt = Four(a, b, c, d) /\ D.offset = 4
    BY SMT, <1>4, <1>5, <1>9
  <2>2. e \in Seq(Octets) /\ Len(e) = 4 /\ e[1] = a /\ e[2] = b /\ e[3] = c /\ e[4] = d
    <3>1. /\ a >= 240 /\ a < 248 /\ Follows(b) /\ Follows(c) /\ Follows(d)
          /\ 65536 <= Four(a, b, c, d) /\ Four(a, b, c, d) < 1114112
          /\ a \in Octets /\ b \in Octets /\ c \in Octets /\ d \in Octets
      BY SMT, <1>2, <1>3, <1>5, <1>9
    <3> HIDE DEF D, a, b, c, d
    <3> DEFINE f == Utf8Encode(Four(a, b, c, d))
    <3>2. f \in Seq(Octets) /\ Len(f) = 4 /\ f[1] = a /\ f[2] = b /\ f[3] = c /\ f[4] = d
      BY SMT, <3>1, Begins4
    <3>3. e = f
      BY SMT, <2>1
    <3> HIDE DEF e, f
    <3> QED
      BY SMT, <3>2, <3>3
  <2> HIDE DEF e, D, b, c, d
  <2> QED
    BY SMT, <2>1, <2>2, <1>1, <1>3, <1>5, <1>9
<1> HIDE DEF Good
<1>10. Good
  BY SMT, <1>2, <1>5, <1>6, <1>7, <1>8, <1>9
<1> QED
  BY <1>10 DEF Good

\* The bytes begin with e.
Opens(s, e) == \E t \in Seq(Octets) : s = e \o t

LEMMA OpensWith ==
    ASSUME NEW s, NEW e, NEW t \in Seq(Octets), s = e \o t
    PROVE  Opens(s, e)
BY DEF Opens

\* What a decoder that did not answer U+FFFD has read is what the encoder writes.
LEMMA EncodesWhatWasRead ==
    ASSUME NEW s \in Seq(Octets), Len(s) > 0,
           NEW D, D = Utf8Decode(s, 1), D # Invalid,
           NEW e, e = Utf8Encode(D.pt)
    PROVE  /\ D.pt \in Points
           /\ Opens(s, e)
           /\ e \in Seq(Octets)
           /\ Len(e) \in Nat \ {0}
           /\ D.offset = Len(e)
<1> DEFINE t == SubSeq(s, Len(e) + 1, Len(s))
<1>1. 1 \in 1..Len(s) /\ Len(s) \in Nat
  BY SMT
<1>2. D.pt \in Points
  BY SMT, <1>1, Utf8Reads
<1>4. /\ e \in Seq(Octets) /\ D.offset = Len(e) /\ Len(e) \in 1..Len(s)
      /\ \A k \in 1..Len(e) : s[k] = e[k]
  BY Utf8Prefix
<1>5. Len(e) <= Len(s) /\ Len(e) \in Nat \ {0}
  BY SMT, <1>1, <1>4
<1>6. t \in Seq(Octets) /\ s = e \o t
  BY <1>4, <1>5, Splits
<1> HIDE DEF t
<1>7. Opens(s, e)
  BY <1>6, OpensWith
<1> QED
  BY <1>2, <1>4, <1>5, <1>7

\* Encoding undoes decoding, where the decoder did not answer U+FFFD.
LEMMA Utf8EncodesBack ==
    ASSUME NEW s \in Seq(Octets), Len(s) > 0, Utf8Decode(s, 1) # Invalid
    PROVE  /\ Utf8Decode(s, 1).pt \in Points
           /\ Opens(s, Utf8Encode(Utf8Decode(s, 1).pt))
           /\ Utf8Encode(Utf8Decode(s, 1).pt) \in Seq(Octets)
           /\ Len(Utf8Encode(Utf8Decode(s, 1).pt)) \in Nat \ {0}
           /\ Utf8Decode(s, 1).offset = Len(Utf8Encode(Utf8Decode(s, 1).pt))
BY EncodesWhatWasRead

\* Only three bytes that Unicode forbids decode to a surrogate.
LEMMA SurrogateIsSpelled ==
    ASSUME NEW s \in Seq(Octets), Len(s) > 0, IsSurrogate(Utf8Decode(s, 1).pt)
    PROVE  SpellsSurrogate(s)
<1> DEFINE pt == Utf8Decode(s, 1).pt
<1> DEFINE e == Utf8Encode(pt)
<1>1. pt >= 55296 /\ pt < 57344 /\ pt \in Nat
  <2>1. pt \in Nat
    BY SMT, Utf8Reads DEF Points
  <2> HIDE DEF pt
  <2>2. IsSurrogate(pt)
    BY DEF pt
  <2> QED
    BY SMT, <2>1, <2>2 DEF IsSurrogate, IsHighSurrogate, IsLowSurrogate
<1>2. Utf8Decode(s, 1) # Invalid
  BY SMT, <1>1 DEF Invalid
<1>3. e \in Seq(Octets) /\ Opens(s, e)
  BY SMT, <1>2, Utf8EncodesBack
<1> HIDE DEF pt
<1>4. pt \in Nat /\ pt >= 2048 /\ pt < 65536
  BY SMT, <1>1
<1>5. /\ Len(e) = 3 /\ e[1] = 224 + pt \div 4096 /\ e[2] = 128 + ((pt \div 64) % 64)
      /\ e[3] = 128 + (pt % 64)
  BY SMT, <1>4, Encodes3
<1>6. /\ 224 + pt \div 4096 = 237
      /\ 128 + ((pt \div 64) % 64) >= 160 /\ 128 + ((pt \div 64) % 64) < 192
      /\ 128 + (pt % 64) >= 128 /\ 128 + (pt % 64) < 192
  BY SMT, <1>1
<1> HIDE DEF e
<1>7. PICK t \in Seq(Octets) : s = e \o t
  BY <1>3 DEF Opens
<1>8. /\ \A k \in 1..Len(e) : s[k] = e[k]
      /\ Len(s) = Len(e) + Len(t) /\ Len(t) \in Nat
  BY <1>3, <1>7, Joined
<1>9. Len(s) \in Nat /\ Len(s) >= 3 /\ s[1] = e[1] /\ s[2] = e[2] /\ s[3] = e[3]
  BY SMT, <1>5, <1>8
<1> DEFINE b == s[2]
<1> DEFINE c == s[3]
<1>10. s[1] = 237 /\ b >= 160 /\ b < 192 /\ c >= 128 /\ c < 192 /\ b \in Int /\ c \in Int
  BY SMT, <1>1, <1>5, <1>6, <1>9
<1>11. b \in 160..191 /\ c \in Next6
  <2> HIDE DEF b, c
  <2>1. b \in 160..191
    BY SMT, <1>10
  <2>2. c \in Next6
    BY SMT, <1>10 DEF Next6
  <2> QED
    BY <2>1, <2>2
<1>12. 1 + 1 = 2 /\ 1 + 2 = 3 /\ 1 \in 1..Len(s) - 2
  BY SMT, <1>9
<1> QED
  BY SMT, <1>10, <1>11, <1>12 DEF SpellsSurrogate

-----------------------------------------------------------------------------
(* Unicode's table of well-formed characters, and the code points that its rows are. *)

\* A row of the table, position by position.
LEMMA BetweenIs ==
    ASSUME NEW s \in Seq(Octets), NEW R
    PROVE  Between(s, R) <=> Len(s) = Len(R) /\ \A i \in 1..Len(s) : s[i] \in R[i]
<1>1. DOMAIN s = 1..Len(s)
  BY SMT
<1> QED
  BY <1>1, Zenon DEF Between

\* Rows of one byte.
LEMMA Row1Is ==
    ASSUME NEW s \in Seq(Octets), NEW A
    PROVE  Between(s, <<A>>) <=> Len(s) = 1 /\ s[1] \in A
<1> DEFINE R == <<A>>
<1>1. Len(R) = 1 /\ R[1] = A
  OBVIOUS
<1> HIDE DEF R
<1>2. 1..1 = {1}
  BY SMT
<1>3. Len(s) = 1 =>
        ((\A i \in 1..Len(s) : s[i] \in R[i]) <=> s[1] \in R[1])
  BY <1>2, Zenon
<1>4. Between(s, R) <=> Len(s) = 1 /\ s[1] \in R[1]
  BY <1>1, <1>3, BetweenIs
<1> QED
  BY <1>1, <1>4 DEF R

\* Rows of two.
LEMMA Row2Is ==
    ASSUME NEW s \in Seq(Octets), NEW A, NEW B
    PROVE  Between(s, <<A, B>>) <=> Len(s) = 2 /\ s[1] \in A /\ s[2] \in B
<1> DEFINE R == <<A, B>>
<1>1. Len(R) = 2 /\ R[1] = A /\ R[2] = B
  OBVIOUS
<1> HIDE DEF R
<1>2. 1..2 = {1, 2}
  BY SMT
<1>3. Len(s) = 2 =>
        ((\A i \in 1..Len(s) : s[i] \in R[i]) <=> s[1] \in R[1] /\ s[2] \in R[2])
  BY <1>2, Zenon
<1>4. Between(s, R) <=> Len(s) = 2 /\ s[1] \in R[1] /\ s[2] \in R[2]
  BY <1>1, <1>3, BetweenIs
<1> QED
  BY <1>1, <1>4 DEF R

\* Rows of three.
LEMMA Row3Is ==
    ASSUME NEW s \in Seq(Octets), NEW A, NEW B, NEW C
    PROVE  Between(s, <<A, B, C>>) <=> Len(s) = 3 /\ s[1] \in A /\ s[2] \in B /\ s[3] \in C
<1> DEFINE R == <<A, B, C>>
<1>1. Len(R) = 3 /\ R[1] = A /\ R[2] = B /\ R[3] = C
  OBVIOUS
<1> HIDE DEF R
<1>2. 1..3 = {1, 2, 3}
  BY SMT
<1>3. Len(s) = 3 =>
        ((\A i \in 1..Len(s) : s[i] \in R[i]) <=> s[1] \in R[1] /\ s[2] \in R[2] /\ s[3] \in R[3])
  BY <1>2, Zenon
<1>4. Between(s, R) <=> Len(s) = 3 /\ s[1] \in R[1] /\ s[2] \in R[2] /\ s[3] \in R[3]
  BY <1>1, <1>3, BetweenIs
<1> QED
  BY <1>1, <1>4 DEF R

\* Rows of four.
LEMMA Row4Is ==
    ASSUME NEW s \in Seq(Octets), NEW A, NEW B, NEW C, NEW D
    PROVE  Between(s, <<A, B, C, D>>) <=>
               Len(s) = 4 /\ s[1] \in A /\ s[2] \in B /\ s[3] \in C /\ s[4] \in D
<1> DEFINE R == <<A, B, C, D>>
<1>1. Len(R) = 4 /\ R[1] = A /\ R[2] = B /\ R[3] = C /\ R[4] = D
  OBVIOUS
<1> HIDE DEF R
<1>2. 1..4 = {1, 2, 3, 4}
  BY SMT
<1>3. Len(s) = 4 =>
        ((\A i \in 1..Len(s) : s[i] \in R[i]) <=>
            s[1] \in R[1] /\ s[2] \in R[2] /\ s[3] \in R[3] /\ s[4] \in R[4])
  BY <1>2, Zenon
<1>4. Between(s, R) <=>
            Len(s) = 4 /\ s[1] \in R[1] /\ s[2] \in R[2] /\ s[3] \in R[3] /\ s[4] \in R[4]
  BY <1>1, <1>3, BetweenIs
<1> QED
  BY <1>1, <1>4 DEF R

\* The rows by the length of the character.
Row1(a) == a < 128
Row2(a, b) == a >= 194 /\ a < 224 /\ Follows(b)
Row3(a, b, c) ==
    /\ a >= 224 /\ a < 240 /\ Follows(b) /\ Follows(c)
    /\ a = 224 => b >= 160
    /\ a = 237 => b < 160
Row4(a, b, c, d) ==
    /\ a >= 240 /\ a < 245 /\ Follows(b) /\ Follows(c) /\ Follows(d)
    /\ a = 240 => b >= 144
    /\ a = 244 => b < 144

\* The table by lengths: what it allows are the first and the second byte.
LEMMA WellFormedCharIs ==
    ASSUME NEW s \in Seq(Octets)
    PROVE  WellFormedChar(s) <=>
                \/ Len(s) = 1 /\ Row1(s[1])
                \/ Len(s) = 2 /\ Row2(s[1], s[2])
                \/ Len(s) = 3 /\ Row3(s[1], s[2], s[3])
                \/ Len(s) = 4 /\ Row4(s[1], s[2], s[3], s[4])
<1>1. ASSUME NEW a \in Octets PROVE a \in 0..127 <=> Row1(a)
  BY SMT DEF Octets, Row1
<1>2. ASSUME NEW b \in Octets PROVE b \in Next6 <=> Follows(b)
  BY SMT DEF Octets, Next6, Follows
<1>3. ASSUME NEW a \in Octets, NEW b \in Octets
      PROVE  a \in 194..223 /\ b \in Next6 <=> Row2(a, b)
  <2>1. a \in 194..223 <=> a >= 194 /\ a < 224
    BY SMT DEF Octets
  <2>2. b \in Next6 <=> Follows(b)
    BY <1>2
  <2> QED
    BY <2>1, <2>2 DEF Row2
<1>4. ASSUME NEW a \in Octets, NEW b \in Octets, NEW c \in Octets
      PROVE  Row3(a, b, c) <=>
               \/ a \in {224} /\ b \in 160..191 /\ c \in Next6
               \/ a \in 225..236 \cup 238..239 /\ b \in Next6 /\ c \in Next6
               \/ a \in {237} /\ b \in 128..159 /\ c \in Next6
  <2>1. a \in {224} <=> a = 224
    OBVIOUS
  <2>2. a \in 225..236 \cup 238..239 <=> a >= 224 /\ a < 240 /\ a # 224 /\ a # 237
    BY SMT DEF Octets
  <2>3. a \in {237} <=> a = 237
    OBVIOUS
  <2>4. b \in 160..191 <=> Follows(b) /\ b >= 160
    BY SMT DEF Octets, Follows
  <2>5. b \in 128..159 <=> Follows(b) /\ b < 160
    BY SMT DEF Octets, Follows
  <2>6. /\ a = 224 => a >= 224 /\ a < 240 /\ a # 237
        /\ a = 237 => a >= 224 /\ a < 240 /\ a # 224
    BY SMT
  <2>7. (b \in Next6 <=> Follows(b)) /\ (c \in Next6 <=> Follows(c))
    BY <1>2
  <2> QED
    BY <2>1, <2>2, <2>3, <2>4, <2>5, <2>6, <2>7 DEF Row3
<1>5. ASSUME NEW a \in Octets, NEW b \in Octets, NEW c \in Octets, NEW d \in Octets
      PROVE  Row4(a, b, c, d) <=>
               \/ a \in {240} /\ b \in 144..191 /\ c \in Next6 /\ d \in Next6
               \/ a \in 241..243 /\ b \in Next6 /\ c \in Next6 /\ d \in Next6
               \/ a \in {244} /\ b \in 128..143 /\ c \in Next6 /\ d \in Next6
  <2>1. a \in {240} <=> a = 240
    OBVIOUS
  <2>2. a \in 241..243 <=> a >= 240 /\ a < 245 /\ a # 240 /\ a # 244
    BY SMT DEF Octets
  <2>3. a \in {244} <=> a = 244
    OBVIOUS
  <2>4. b \in 144..191 <=> Follows(b) /\ b >= 144
    BY SMT DEF Octets, Follows
  <2>5. b \in 128..143 <=> Follows(b) /\ b < 144
    BY SMT DEF Octets, Follows
  <2>6. /\ a = 240 => a >= 240 /\ a < 245 /\ a # 244
        /\ a = 244 => a >= 240 /\ a < 245 /\ a # 240
    BY SMT
  <2>7. (b \in Next6 <=> Follows(b)) /\ (c \in Next6 <=> Follows(c)) /\ (d \in Next6 <=> Follows(d))
    BY <1>2
  <2> QED
    BY <2>1, <2>2, <2>3, <2>4, <2>5, <2>6, <2>7 DEF Row4
<1>6. Between(s, <<0..127>>) <=> Len(s) = 1 /\ Row1(s[1])
  <2>1. Between(s, <<0..127>>) <=> Len(s) = 1 /\ s[1] \in 0..127
    BY Row1Is
  <2>2. ASSUME Len(s) = 1 PROVE s[1] \in Octets
    BY SMT, <2>2
  <2> QED
    BY <2>1, <2>2, <1>1
<1>7. Between(s, <<194..223, Next6>>) <=> Len(s) = 2 /\ Row2(s[1], s[2])
  <2>1. Between(s, <<194..223, Next6>>) <=> Len(s) = 2 /\ s[1] \in 194..223 /\ s[2] \in Next6
    BY Row2Is
  <2>2. ASSUME Len(s) = 2 PROVE s[1] \in Octets /\ s[2] \in Octets
    <3>1. 1 \in 1..Len(s) /\ 2 \in 1..Len(s)
      BY SMT, <2>2
    <3> QED
      BY <3>1
  <2> QED
    BY <2>1, <2>2, <1>3
<1> DEFINE Threes == \/ Between(s, <<{224}, 160..191, Next6>>)
                     \/ Between(s, <<225..236 \cup 238..239, Next6, Next6>>)
                     \/ Between(s, <<{237}, 128..159, Next6>>)
<1> DEFINE Fours == \/ Between(s, <<{240}, 144..191, Next6, Next6>>)
                    \/ Between(s, <<241..243, Next6, Next6, Next6>>)
                    \/ Between(s, <<{244}, 128..143, Next6, Next6>>)
<1>8. Threes <=> Len(s) = 3 /\ Row3(s[1], s[2], s[3])
  <2>1. Between(s, <<{224}, 160..191, Next6>>) <=>
            Len(s) = 3 /\ s[1] \in {224} /\ s[2] \in 160..191 /\ s[3] \in Next6
    <3> DEFINE A == {224}
    <3> DEFINE B == 160..191
    <3> HIDE DEF A, B
    <3>1. Between(s, <<A, B, Next6>>) <=>
              Len(s) = 3 /\ s[1] \in A /\ s[2] \in B /\ s[3] \in Next6
      BY Row3Is
    <3> QED
      BY <3>1 DEF A, B
  <2>2. Between(s, <<225..236 \cup 238..239, Next6, Next6>>) <=>
            Len(s) = 3 /\ s[1] \in 225..236 \cup 238..239 /\ s[2] \in Next6 /\ s[3] \in Next6
    <3> DEFINE A == 225..236 \cup 238..239
    <3> HIDE DEF A
    <3>1. Between(s, <<A, Next6, Next6>>) <=>
              Len(s) = 3 /\ s[1] \in A /\ s[2] \in Next6 /\ s[3] \in Next6
      BY Row3Is
    <3> QED
      BY <3>1 DEF A
  <2>3. Between(s, <<{237}, 128..159, Next6>>) <=>
            Len(s) = 3 /\ s[1] \in {237} /\ s[2] \in 128..159 /\ s[3] \in Next6
    <3> DEFINE A == {237}
    <3> DEFINE B == 128..159
    <3> HIDE DEF A, B
    <3>1. Between(s, <<A, B, Next6>>) <=>
              Len(s) = 3 /\ s[1] \in A /\ s[2] \in B /\ s[3] \in Next6
      BY Row3Is
    <3> QED
      BY <3>1 DEF A, B
  <2>4. ASSUME Len(s) = 3 PROVE s[1] \in Octets /\ s[2] \in Octets /\ s[3] \in Octets
    <3>1. 1 \in 1..Len(s) /\ 2 \in 1..Len(s) /\ 3 \in 1..Len(s)
      BY SMT, <2>4
    <3> QED
      BY <3>1
  <2>5. ASSUME Len(s) = 3
        PROVE  Row3(s[1], s[2], s[3]) <=>
                 \/ s[1] \in {224} /\ s[2] \in 160..191 /\ s[3] \in Next6
                 \/ s[1] \in 225..236 \cup 238..239 /\ s[2] \in Next6 /\ s[3] \in Next6
                 \/ s[1] \in {237} /\ s[2] \in 128..159 /\ s[3] \in Next6
    BY <2>4, <2>5, <1>4
  <2> QED
    BY SMT, <2>1, <2>2, <2>3, <2>5
<1>9. Fours <=> Len(s) = 4 /\ Row4(s[1], s[2], s[3], s[4])
  <2>1. Between(s, <<{240}, 144..191, Next6, Next6>>) <=>
            Len(s) = 4 /\ s[1] \in {240} /\ s[2] \in 144..191 /\ s[3] \in Next6 /\ s[4] \in Next6
    <3> DEFINE A == {240}
    <3> DEFINE B == 144..191
    <3> HIDE DEF A, B
    <3>1. Between(s, <<A, B, Next6, Next6>>) <=>
              Len(s) = 4 /\ s[1] \in A /\ s[2] \in B /\ s[3] \in Next6 /\ s[4] \in Next6
      BY Row4Is
    <3> QED
      BY <3>1 DEF A, B
  <2>2. Between(s, <<241..243, Next6, Next6, Next6>>) <=>
            Len(s) = 4 /\ s[1] \in 241..243 /\ s[2] \in Next6 /\ s[3] \in Next6 /\ s[4] \in Next6
    <3> DEFINE A == 241..243
    <3> HIDE DEF A
    <3>1. Between(s, <<A, Next6, Next6, Next6>>) <=>
              Len(s) = 4 /\ s[1] \in A /\ s[2] \in Next6 /\ s[3] \in Next6 /\ s[4] \in Next6
      BY Row4Is
    <3> QED
      BY <3>1 DEF A
  <2>3. Between(s, <<{244}, 128..143, Next6, Next6>>) <=>
            Len(s) = 4 /\ s[1] \in {244} /\ s[2] \in 128..143 /\ s[3] \in Next6 /\ s[4] \in Next6
    <3> DEFINE A == {244}
    <3> DEFINE B == 128..143
    <3> HIDE DEF A, B
    <3>1. Between(s, <<A, B, Next6, Next6>>) <=>
              Len(s) = 4 /\ s[1] \in A /\ s[2] \in B /\ s[3] \in Next6 /\ s[4] \in Next6
      BY Row4Is
    <3> QED
      BY <3>1 DEF A, B
  <2>4. ASSUME Len(s) = 4
        PROVE  s[1] \in Octets /\ s[2] \in Octets /\ s[3] \in Octets /\ s[4] \in Octets
    <3>1. 1 \in 1..Len(s) /\ 2 \in 1..Len(s) /\ 3 \in 1..Len(s) /\ 4 \in 1..Len(s)
      BY SMT, <2>4
    <3> QED
      BY <3>1
  <2>5. ASSUME Len(s) = 4
        PROVE  Row4(s[1], s[2], s[3], s[4]) <=>
                 \/ s[1] \in {240} /\ s[2] \in 144..191 /\ s[3] \in Next6 /\ s[4] \in Next6
                 \/ s[1] \in 241..243 /\ s[2] \in Next6 /\ s[3] \in Next6 /\ s[4] \in Next6
                 \/ s[1] \in {244} /\ s[2] \in 128..143 /\ s[3] \in Next6 /\ s[4] \in Next6
    BY <2>4, <2>5, <1>5
  <2> QED
    BY SMT, <2>1, <2>2, <2>3, <2>5
<1>10. WellFormedChar(s) <=>
            Between(s, <<0..127>>) \/ Between(s, <<194..223, Next6>>) \/ Threes \/ Fours
  BY Zenon DEF WellFormedChar
<1> HIDE DEF Threes, Fours
<1> QED
  BY <1>6, <1>7, <1>8, <1>9, <1>10, Zenon

\* The three or four bytes a, b, c, d are those of the code point p.
Bits3(p, a, b, c) ==
    a = 224 + p \div 4096 /\ b = 128 + ((p \div 64) % 64) /\ c = 128 + (p % 64)
Bits4(p, a, b, c, d) ==
    /\ a = 240 + p \div 262144 /\ b = 128 + ((p \div 4096) % 64)
    /\ c = 128 + ((p \div 64) % 64) /\ d = 128 + (p % 64)

\* What a row of three or four bytes spells.
LEMMA Row3Spells ==
    ASSUME NEW a \in Octets, NEW b \in Octets, NEW c \in Octets, Row3(a, b, c)
    PROVE  \E p \in Nat : /\ p >= 2048 /\ p < 65536 /\ ~ (p >= 55296 /\ p < 57344)
                          /\ Bits3(p, a, b, c)
<1> DEFINE p == Three(a, b, c)
<1>1. /\ a >= 224 /\ a < 240 /\ Follows(b) /\ Follows(c)
      /\ (a = 224 => b >= 160) /\ (a = 237 => b < 160)
  BY DEF Row3
<1>2. p \in Nat /\ p < 65536
  BY SMT, <1>1, ThreeBytes
<1>3. Bits3(p, a, b, c)
  BY SMT, <1>1, ThreeBytes DEF Bits3
<1> HIDE DEF p
<1>4. p >= 2048
  BY SMT, <1>1, <1>2, <1>3 DEF Octets, Bits3
<1>5. ~ (p >= 55296 /\ p < 57344)
  BY SMT, <1>1, <1>2, <1>3 DEF Octets, Bits3
<1> QED
  BY <1>2, <1>3, <1>4, <1>5

\* And of four.
LEMMA Row4Spells ==
    ASSUME NEW a \in Octets, NEW b \in Octets, NEW c \in Octets, NEW d \in Octets,
           Row4(a, b, c, d)
    PROVE  \E p \in Points : p >= 65536 /\ Bits4(p, a, b, c, d)
<1> DEFINE p == Four(a, b, c, d)
<1>1. /\ a >= 240 /\ a < 245 /\ Follows(b) /\ Follows(c) /\ Follows(d)
      /\ (a = 240 => b >= 144) /\ (a = 244 => b < 144)
  BY DEF Row4
<1>2. a < 248
  BY SMT, <1>1 DEF Octets
<1>3. p \in Nat /\ Bits4(p, a, b, c, d)
  BY SMT, <1>1, <1>2, FourBytes DEF Bits4
<1> HIDE DEF p
<1>4. p >= 65536
  BY SMT, <1>1, <1>3 DEF Octets, Bits4
<1>5. p < 1114112
  BY SMT, <1>1, <1>3 DEF Octets, Bits4
<1>6. p \in Points
  BY SMT, <1>3, <1>5 DEF Points
<1> QED
  BY <1>3, <1>4, <1>6

\* The encoder makes those bytes, and no other sequence has them.
LEMMA Encodes3Bits ==
    ASSUME NEW p \in Nat, p >= 2048, p < 65536
    PROVE  LET e == Utf8Encode(p) IN
           e \in Seq(Octets) /\ Len(e) = 3 /\ Bits3(p, e[1], e[2], e[3])
BY SMT, Encodes3 DEF Bits3

\* Four bytes.
LEMMA Encodes4Bits ==
    ASSUME NEW p \in Points, p >= 65536
    PROVE  LET e == Utf8Encode(p) IN
           e \in Seq(Octets) /\ Len(e) = 4 /\ Bits4(p, e[1], e[2], e[3], e[4])
BY SMT, Encodes4 DEF Bits4

\* A row of the table is the encoding of a code point that is no surrogate...
LEMMA WellFormedCharOf ==
    ASSUME NEW c \in Seq(Octets), WellFormedChar(c)
    PROVE  \E pt \in Scalars : c = Utf8Encode(pt)
<1>1. CASE Len(c) = 1 /\ Row1(c[1])
  <2>1. c[1] \in Octets /\ c[1] \in Nat /\ c[1] < 128
    BY SMT, <1>1 DEF Octets, Row1
  <2>2. Utf8Encode(c[1]) \in Seq(Octets) /\ Len(Utf8Encode(c[1])) = 1 /\ Utf8Encode(c[1])[1] = c[1]
    BY SMT, <1>1, <2>1, Begins1
  <2>3. c[1] \in Scalars
    BY SMT, <2>1 DEF Scalars, Points, IsSurrogate, IsHighSurrogate, IsLowSurrogate
  <2> DEFINE e == Utf8Encode(c[1])
  <2>4. e = c
    <3>1. e \in Seq(Octets) /\ Len(e) = 1 /\ e[1] = c[1]
      BY <2>2
    <3> HIDE DEF e
    <3>2. Len(e) = Len(c) /\ \A k \in 1..Len(e) : e[k] = c[k]
      BY SMT, <3>1, <1>1
    <3> QED
      BY <3>1, <3>2, SeqEqual
  <2> QED
    BY <2>3, <2>4
<1>2. CASE Len(c) = 2 /\ Row2(c[1], c[2])
  <2> DEFINE p == Two(c[1], c[2])
  <2> DEFINE e == Utf8Encode(p)
  <2>1. c[1] \in Octets /\ c[2] \in Octets
    BY SMT, <1>2
  <2>2. c[1] >= 194 /\ c[1] < 224 /\ Follows(c[2]) /\ c[1] >= 192
    <3> DEFINE a == c[1]
    <3>1. a \in Int /\ a >= 194 /\ a < 224 /\ Follows(c[2])
      BY SMT, <1>2, <2>1 DEF Row2, Octets
    <3> QED
      BY SMT, <3>1
  <2>3. /\ p \in Nat /\ p < 2048 /\ 192 + p \div 64 = c[1] /\ 128 + (p % 64) = c[2]
    BY SMT, <2>1, <2>2, TwoBytes
  <2> HIDE DEF p
  <2>4. p \in Nat /\ p >= 128 /\ p < 2048
    BY SMT, <2>2, <2>3
  <2>5. /\ e \in Seq(Octets) /\ Len(e) = 2
        /\ e[1] = 192 + p \div 64 /\ e[2] = 128 + (p % 64)
    BY SMT, <2>4, Encodes2
  <2> HIDE DEF e
  <2>6. e = c
    <3>1. Len(e) = Len(c) /\ \A k \in 1..Len(e) : e[k] = c[k]
      BY SMT, <2>3, <2>5, <1>2
    <3> QED
      BY <2>5, <3>1, SeqEqual
  <2>7. p \in Scalars
    BY SMT, <2>4 DEF Scalars, Points, IsSurrogate, IsHighSurrogate, IsLowSurrogate
  <2> QED
    BY <2>6, <2>7 DEF e
<1>3. CASE Len(c) = 3 /\ Row3(c[1], c[2], c[3])
  <2>1. c[1] \in Octets /\ c[2] \in Octets /\ c[3] \in Octets
    <3>1. 1 \in 1..Len(c) /\ 2 \in 1..Len(c) /\ 3 \in 1..Len(c)
      BY SMT, <1>3
    <3> QED
      BY <3>1
  <2>2. PICK p \in Nat : /\ p >= 2048 /\ p < 65536 /\ ~ (p >= 55296 /\ p < 57344)
                         /\ Bits3(p, c[1], c[2], c[3])
    BY SMT, <2>1, <1>3, Row3Spells
  <2> DEFINE e == Utf8Encode(p)
  <2>3. e \in Seq(Octets) /\ Len(e) = 3 /\ Bits3(p, e[1], e[2], e[3])
    BY SMT, <2>2, Encodes3Bits
  <2> HIDE DEF e
  <2>4. e = c
    <3>1. Len(e) = Len(c) /\ \A k \in 1..Len(e) : e[k] = c[k]
      BY SMT, <2>2, <2>3, <1>3 DEF Bits3
    <3> QED
      BY <2>3, <3>1, SeqEqual
  <2>5. p \in Scalars
    BY SMT, <2>2 DEF Scalars, Points, IsSurrogate, IsHighSurrogate, IsLowSurrogate
  <2> QED
    BY <2>4, <2>5 DEF e
<1>4. CASE Len(c) = 4 /\ Row4(c[1], c[2], c[3], c[4])
  <2>1. c[1] \in Octets /\ c[2] \in Octets /\ c[3] \in Octets /\ c[4] \in Octets
    <3>1. 1 \in 1..Len(c) /\ 2 \in 1..Len(c) /\ 3 \in 1..Len(c) /\ 4 \in 1..Len(c)
      BY SMT, <1>4
    <3> QED
      BY <3>1
  <2>2. PICK p \in Points : p >= 65536 /\ Bits4(p, c[1], c[2], c[3], c[4])
    BY SMT, <2>1, <1>4, Row4Spells
  <2> DEFINE e == Utf8Encode(p)
  <2>3. e \in Seq(Octets) /\ Len(e) = 4 /\ Bits4(p, e[1], e[2], e[3], e[4])
    BY SMT, <2>2, Encodes4Bits
  <2> HIDE DEF e
  <2>4. e = c
    <3>1. Len(e) = Len(c) /\ \A k \in 1..Len(e) : e[k] = c[k]
      BY SMT, <2>2, <2>3, <1>4 DEF Bits4
    <3> QED
      BY <2>3, <3>1, SeqEqual
  <2>5. p \in Scalars
    BY SMT, <2>2 DEF Scalars, Points, IsSurrogate, IsHighSurrogate, IsLowSurrogate
  <2> QED
    BY <2>4, <2>5 DEF e
<1> QED
  BY <1>1, <1>2, <1>3, <1>4, WellFormedCharIs

\* ... and the other way round.
LEMMA EncodingIsWellFormed ==
    ASSUME NEW pt \in Scalars
    PROVE  WellFormedChar(Utf8Encode(pt))
<1> DEFINE e == Utf8Encode(pt)
<1>1. pt \in Points /\ pt \in Nat /\ pt < 1114112 /\ ~ (pt >= 55296 /\ pt < 57344)
  BY SMT DEF Scalars, Points, IsSurrogate, IsHighSurrogate, IsLowSurrogate
<1>2. CASE pt < 128
  <2>1. e \in Seq(Octets) /\ Len(e) = 1 /\ e[1] = pt
    BY SMT, <1>1, <1>2, Encodes1
  <2> HIDE DEF e
  <2>2. Row1(e[1])
    BY SMT, <2>1, <1>2 DEF Row1
  <2>3. WellFormedChar(e)
    BY <2>1, <2>2, WellFormedCharIs
  <2> QED
    BY <2>3 DEF e
<1>3. CASE pt >= 128 /\ pt < 2048
  <2>1. /\ e \in Seq(Octets) /\ Len(e) = 2
        /\ e[1] = 192 + pt \div 64 /\ e[2] = 128 + (pt % 64)
    BY SMT, <1>1, <1>3, Encodes2
  <2> HIDE DEF e
  <2>2. Row2(192 + pt \div 64, 128 + (pt % 64))
    BY SMT, <1>1, <1>3 DEF Row2, Follows
  <2>3. WellFormedChar(e)
    BY SMT, <2>1, <2>2, WellFormedCharIs
  <2> QED
    BY <2>3 DEF e
<1>4. CASE pt >= 2048 /\ pt < 65536
  <2>1. /\ e \in Seq(Octets) /\ Len(e) = 3 /\ e[1] = 224 + pt \div 4096
        /\ e[2] = 128 + ((pt \div 64) % 64) /\ e[3] = 128 + (pt % 64)
    BY SMT, <1>1, <1>4, Encodes3
  <2> HIDE DEF e
  <2>2. Row3(224 + pt \div 4096, 128 + ((pt \div 64) % 64), 128 + (pt % 64))
    BY SMT, <1>1, <1>4 DEF Row3, Follows
  <2>3. WellFormedChar(e)
    BY SMT, <2>1, <2>2, WellFormedCharIs
  <2> QED
    BY <2>3 DEF e
<1>5. CASE pt >= 65536
  <2>1. /\ e \in Seq(Octets) /\ Len(e) = 4
        /\ e[1] = 240 + pt \div 262144 /\ e[2] = 128 + ((pt \div 4096) % 64)
        /\ e[3] = 128 + ((pt \div 64) % 64) /\ e[4] = 128 + (pt % 64)
    BY SMT, <1>1, <1>5, Encodes4
  <2> HIDE DEF e
  <2>2. Row4(240 + pt \div 262144, 128 + ((pt \div 4096) % 64), 128 + ((pt \div 64) % 64),
             128 + (pt % 64))
    BY SMT, <1>1, <1>5 DEF Row4, Follows
  <2>3. WellFormedChar(e)
    BY SMT, <2>1, <2>2, WellFormedCharIs
  <2> QED
    BY <2>3 DEF e
<1> QED
  BY SMT, <1>1, <1>2, <1>3, <1>4, <1>5

-----------------------------------------------------------------------------
(* UTF-16: units and pairs of them. *)

\* The code point of a pair of surrogates.
Pair(a, b) == (a - 55296) * 1024 + (b - 56320) + 65536

\* The units of a pair give its code point, which gives them back.
LEMMA PairIs ==
    ASSUME NEW a \in Shorts, NEW b \in Shorts, IsHighSurrogate(a), IsLowSurrogate(b)
    PROVE  /\ Pair(a, b) \in Scalars /\ Pair(a, b) >= 65536
           /\ 55296 + (Pair(a, b) - 65536) \div 1024 = a /\ 56320 + (Pair(a, b) % 1024) = b
<1>1. a \in Nat /\ b \in Nat /\ a >= 55296 /\ a < 56320 /\ b >= 56320 /\ b < 57344
  BY SMT DEF Shorts, IsHighSurrogate, IsLowSurrogate
<1>2. Pair(a, b) \in Nat /\ Pair(a, b) >= 65536 /\ Pair(a, b) < 1114112
  BY SMT, <1>1 DEF Pair
<1>3. 55296 + (Pair(a, b) - 65536) \div 1024 = a
  BY SMT, <1>1 DEF Pair
<1>4. 56320 + (Pair(a, b) % 1024) = b
  BY SMT, <1>1 DEF Pair
<1>5. Pair(a, b) \in Scalars
  BY SMT, <1>2 DEF Scalars, Points, IsSurrogate, IsHighSurrogate, IsLowSurrogate
<1> QED
  BY <1>2, <1>3, <1>4, <1>5

\* The pair of a code point beyond the 16-bit ones gives it back.
LEMMA OfPair ==
    ASSUME NEW pt \in Points, pt >= 65536,
           NEW a, NEW b, a = 55296 + (pt - 65536) \div 1024, b = 56320 + (pt % 1024)
    PROVE  IsHighSurrogate(a) /\ IsLowSurrogate(b) /\ Pair(a, b) = pt
<1>1. pt \in Nat /\ pt >= 65536 /\ pt < 1114112
  BY SMT DEF Points
<1>2. IsHighSurrogate(a)
  BY SMT, <1>1 DEF IsHighSurrogate
<1>3. IsLowSurrogate(b)
  BY SMT, <1>1 DEF IsLowSurrogate
<1>4. Pair(a, b) = pt
  BY SMT, <1>1 DEF Pair
<1> QED
  BY <1>2, <1>3, <1>4

\* The unit after position i.
After(u, i, beyond) == IF i < Len(u) THEN u[i + 1] ELSE beyond

\* What utf16_decode() answers.
LEMMA Utf16DecodeIs ==
    ASSUME NEW u, NEW i, NEW beyond
    PROVE  Utf16Decode(u, i, beyond) =
               IF IsHighSurrogate(u[i]) /\ IsLowSurrogate(After(u, i, beyond))
               THEN Point(2, Pair(u[i], After(u, i, beyond)))
               ELSE IF IsSurrogate(u[i]) THEN Invalid ELSE Point(1, u[i])
BY SMT DEF Utf16Decode, After, Pair

\* A decoder never answers a surrogate; it reads beyond the end only for a low one there.
LEMMA Utf16Reads ==
    ASSUME NEW u \in Seq(Shorts), NEW i \in 1..Len(u), NEW beyond \in Shorts
    PROVE  /\ Utf16Decode(u, i, beyond).pt \in Scalars
           /\ \/ Utf16Decode(u, i, beyond).offset = 1
              \/ /\ Utf16Decode(u, i, beyond).offset = 2
                 /\ i < Len(u) \/ IsLowSurrogate(beyond)
<1> DEFINE D == Utf16Decode(u, i, beyond)
<1> DEFINE a == u[i]
<1> DEFINE b == After(u, i, beyond)
<1>1. a \in Shorts
  BY SMT
<1>2. b \in Shorts
  BY SMT DEF After
<1>3. ~ (i < Len(u)) => b = beyond
  BY DEF After
<1>4. D = IF IsHighSurrogate(a) /\ IsLowSurrogate(b) THEN Point(2, Pair(a, b))
          ELSE IF IsSurrogate(a) THEN Invalid ELSE Point(1, a)
  BY Utf16DecodeIs
<1>5. /\ Invalid.offset = 1 /\ Invalid.pt \in Scalars
  BY SMT DEF Invalid, Scalars, Points, IsSurrogate, IsHighSurrogate, IsLowSurrogate
<1>6. \A n, p : Point(n, p).offset = n /\ Point(n, p).pt = p
  BY SMT DEF Point
<1> HIDE DEF D, a, b
<1>7. CASE IsHighSurrogate(a) /\ IsLowSurrogate(b)
  <2>1. D.offset = 2 /\ D.pt = Pair(a, b)
    BY <1>4, <1>6, <1>7
  <2>2. Pair(a, b) \in Scalars
    BY <1>1, <1>2, <1>7, PairIs
  <2> QED
    BY <1>3, <1>7, <2>1, <2>2 DEF D
<1>8. CASE ~ (IsHighSurrogate(a) /\ IsLowSurrogate(b)) /\ IsSurrogate(a)
  BY <1>4, <1>5, <1>8 DEF D
<1>9. CASE ~ (IsHighSurrogate(a) /\ IsLowSurrogate(b)) /\ ~ IsSurrogate(a)
  <2>1. D.offset = 1 /\ D.pt = a
    BY <1>4, <1>6, <1>9
  <2>2. a \in Scalars
    BY SMT, <1>1, <1>9 DEF Shorts, Scalars, Points
  <2> QED
    BY <2>1, <2>2 DEF D
<1> QED
  BY <1>7, <1>8, <1>9

\* A terminated string is not read over its end.
LEMMA ZeroReads ==
    ASSUME NEW u \in Seq(Shorts), NEW i \in 1..Len(u)
    PROVE  /\ Utf16Decode(u, i, 0).pt \in Scalars
           /\ Utf16Decode(u, i, 0).offset \in Nat \ {0}
           /\ i + Utf16Decode(u, i, 0).offset <= Len(u) + 1
<1>1. 0 \in Shorts /\ ~ IsLowSurrogate(0)
  BY SMT DEF Shorts, IsLowSurrogate
<1> DEFINE D == Utf16Decode(u, i, 0)
<1>2. D.pt \in Scalars /\ (D.offset = 1 \/ (D.offset = 2 /\ i < Len(u)))
  BY <1>1, Utf16Reads
<1> HIDE DEF D
<1>3. D.offset \in Nat \ {0} /\ i + D.offset <= Len(u) + 1
  BY SMT, <1>2
<1> QED
  BY <1>2, <1>3 DEF D

\* What it answers does not depend on what came before.
LEMMA Utf16ReadsOn ==
    ASSUME NEW c \in Seq(Shorts), NEW t \in Seq(Shorts), NEW i \in 1..Len(t), NEW beyond
    PROVE  Utf16Decode(c \o t, i + Len(c), beyond) = Utf16Decode(t, i, beyond)
<1> DEFINE s == c \o t
<1> DEFINE j == i + Len(c)
<1>1. /\ s \in Seq(Shorts) /\ Len(s) = Len(c) + Len(t) /\ Len(c) \in Nat /\ Len(t) \in Nat
      /\ \A k \in 1..Len(t) : s[Len(c) + k] = t[k]
  BY Joined
<1> HIDE DEF s
<1>2. s[j] = t[i]
  <2>1. j = Len(c) + i
    BY SMT, <1>1
  <2> QED
    BY <2>1, <1>1
<1>3. After(s, j, beyond) = After(t, i, beyond)
  <2>1. CASE i < Len(t)
    <3>1. j < Len(s) /\ j + 1 = Len(c) + (i + 1) /\ i + 1 \in 1..Len(t)
      BY SMT, <2>1, <1>1
    <3>2. s[j + 1] = t[i + 1]
      BY <3>1, <1>1
    <3> QED
      BY <2>1, <3>1, <3>2 DEF After
  <2>2. CASE ~ (i < Len(t))
    <3>1. ~ (j < Len(s))
      BY SMT, <2>2, <1>1
    <3> QED
      BY <2>2, <3>1 DEF After
  <2> QED
    BY <2>1, <2>2
<1> HIDE DEF j
<1>4. Utf16Decode(s, j, beyond) = Utf16Decode(t, i, beyond)
  BY <1>2, <1>3, Utf16DecodeIs
<1> QED
  BY <1>4 DEF s, j

\* Decoding undoes encoding.
LEMMA Utf16DecodesBack ==
    ASSUME NEW pt \in Scalars, NEW t \in Seq(Shorts), NEW beyond
    PROVE  Utf16Decode(Utf16Encode(pt) \o t, 1, beyond) = Point(Len(Utf16Encode(pt)), pt)
<1> DEFINE e == Utf16Encode(pt)
<1> DEFINE s == e \o t
<1>1. pt \in Points /\ pt \in Nat /\ ~ IsSurrogate(pt)
  BY SMT DEF Scalars, Points
<1>2. CASE pt < 65536
  <2>0. pt \in Shorts
    BY SMT, <1>1, <1>2 DEF Shorts
  <2>1. e \in Seq(Shorts) /\ Len(e) = 1 /\ e[1] = pt
    BY <2>0, EncodesUnit
  <2>2. s[1] = pt
    <3> HIDE DEF e
    <3>1. 1 \in 1..Len(e)
      BY SMT, <2>1
    <3> QED
      BY <3>1, <2>1, Joined
  <2>3. ~ IsHighSurrogate(pt)
    BY <1>1 DEF IsSurrogate
  <2> HIDE DEF s, e
  <2>4. Utf16Decode(s, 1, beyond) = Point(1, pt)
    BY <1>1, <2>2, <2>3, Utf16DecodeIs
  <2> QED
    BY <2>1, <2>4 DEF s, e
<1>3. CASE pt >= 65536
  <2>1. /\ e \in Seq(Shorts) /\ Len(e) = 2
        /\ e[1] = 55296 + (pt - 65536) \div 1024 /\ e[2] = 56320 + (pt % 1024)
    BY <1>1, <1>3, EncodesPair
  <2>1a. e \in Seq(Shorts)
    BY <2>1
  <2> DEFINE a == e[1]
  <2> DEFINE b == e[2]
  <2> HIDE DEF e
  <2>2. IsHighSurrogate(a) /\ IsLowSurrogate(b) /\ Pair(a, b) = pt
    <3>1. a = 55296 + (pt - 65536) \div 1024 /\ b = 56320 + (pt % 1024)
      BY <2>1
    <3> HIDE DEF a, b
    <3> QED
      BY <1>1, <1>3, <3>1, OfPair
  <2>3. s[1] = e[1] /\ s[2] = e[2] /\ Len(s) \in Nat /\ 1 < Len(s)
    <3>1. 1 \in 1..Len(e) /\ 2 \in 1..Len(e)
      BY SMT, <2>1
    <3>2. /\ Len(s) = Len(e) + Len(t) /\ Len(t) \in Nat
          /\ \A k \in 1..Len(e) : s[k] = e[k]
      BY <2>1a, Joined
    <3> HIDE DEF s
    <3> QED
      BY SMT, <2>1, <3>1, <3>2
  <2> HIDE DEF s
  <2>4. After(s, 1, beyond) = e[2]
    BY SMT, <2>3 DEF After
  <2>5. Utf16Decode(s, 1, beyond) = Point(2, pt)
    BY <2>2, <2>3, <2>4, Utf16DecodeIs
  <2> QED
    BY <2>1, <2>5 DEF s, e
<1> QED
  BY SMT, <1>1, <1>2, <1>3

-----------------------------------------------------------------------------
(* The four loops, one round at a time. *)

\* A loop: how far it reads, how far it may step, what it collects where, and its steps.
Loop(n, top, piece, step) == [n |-> n, top |-> top, piece |-> piece, step |-> step]

\* The value v is what the loop L collects from its first round on, and L ends.
Collects(v, L) ==
    /\ Forward(L.n, L.top, L.step)
    /\ \E f : IsLoop(f, L.n, L.top, L.piece, L.step) /\ v = f[1]

\* The first round of L takes k, and M is what is left of it.
Leaves(L, M, k) ==
    /\ k \in 1..L.n /\ L.step[1] = k /\ M.n = L.n - k /\ M.top = L.top - k
    /\ \A i \in 1..L.n - k : M.piece[i] = L.piece[i + k] /\ M.step[i] = L.step[i + k]

\* A loop with nothing to read collects nothing.
LEMMA CollectsNothing ==
    ASSUME NEW v, NEW L, Collects(v, L), L.n = 0
    PROVE  v = <<>>
<1>1. PICK f : IsLoop(f, 0, L.top, L.piece, L.step) /\ v = f[1]
  BY DEF Collects
<1>2. 1 \in 1..L.top /\ 1 > 0
  BY DEF Collects, Forward
<1> QED
  BY <1>1, <1>2 DEF IsLoop

\* What it collects is the piece of its first round and what it collects from there on.
LEMMA CollectsOn ==
    ASSUME NEW v, NEW L, Collects(v, L), NEW w, NEW M, Collects(w, M), NEW k, Leaves(L, M, k)
    PROVE  v = L.piece[1] \o w
<1> DEFINE n == L.n
<1> DEFINE top == L.top
<1> DEFINE piece == L.piece
<1> DEFINE step == L.step
<1> DEFINE tail == M.piece
<1> DEFINE hop == M.step
<1>1. PICK f : IsLoop(f, n, top, piece, step) /\ v = f[1]
  BY DEF Collects
<1>2. PICK g : IsLoop(g, n - k, top - k, tail, hop) /\ w = g[1]
  BY DEF Collects, Leaves
<1>3. /\ k \in 1..n /\ step[1] = k
      /\ \A i \in 1..n - k : tail[i] = piece[i + k] /\ hop[i] = step[i + k]
  BY DEF Leaves
<1>4. Forward(n, top, step)
  BY DEF Collects
<1> HIDE DEF n, top, piece, step, tail, hop
<1>5. n \in Nat /\ top \in Nat /\ n < top /\ 1 \in 1..n /\ 1 \in 1..top /\ ~ (1 > n)
  BY <1>3, <1>4 DEF Forward
<1>6. k \in Nat \ {0} /\ k \in 0..n /\ 1 + k <= top
  BY <1>3, <1>4, <1>5 DEF Forward
<1>7. f[1] = piece[1] \o f[1 + k]
  BY <1>1, <1>3, <1>5 DEF IsLoop
<1>8. \A i \in 1..top - k : g[i] = f[i + k]
  BY <1>1, <1>2, <1>3, <1>4, <1>6, LoopSuffix
<1>9. 1 \in 1..top - k /\ 1 + k \in Int
  BY <1>5, <1>6
<1> QED
  BY <1>1, <1>2, <1>7, <1>8, <1>9 DEF piece

Pieces8(s) == [i \in 1..Len(s) |-> Utf16Encode(Utf8Decode(s, i).pt)]
Steps8(s) == [i \in 1..Len(s) |-> Utf8Decode(s, i).offset]
Loop8(s) == Loop(Len(s), Len(s) + 1, Pieces8(s), Steps8(s))

\* jniStringFromUTF8() is such a loop.
LEMMA FromUtf8Collects ==
    ASSUME NEW s \in Seq(Octets)
    PROVE  Collects(FromUtf8(s), Loop8(s))
<1> DEFINE n == Len(s)
<1> DEFINE Q(f) == f = [i \in 1..n + 1 |->
                            IF i = n + 1 THEN <<>>
                            ELSE Utf16Encode(Utf8Decode(s, i).pt) \o f[i + Utf8Decode(s, i).offset]]
<1>1. n \in Nat /\ n + 1 \in Nat /\ n < n + 1
  BY SMT
<1>2. Forward(n, n + 1, Steps8(s))
  BY <1>1, Utf8Reads DEF Forward, Steps8
<1>3. PICK f : IsLoop(f, n, n + 1, Pieces8(s), Steps8(s))
  BY <1>2, LoopExists
<1>4. ASSUME NEW g PROVE Q(g) <=> IsLoop(g, n, n + 1, Pieces8(s), Steps8(s))
  <2>1. ASSUME NEW i \in 1..n + 1
        PROVE  (IF i = n + 1 THEN <<>>
                ELSE Utf16Encode(Utf8Decode(s, i).pt) \o g[i + Utf8Decode(s, i).offset])
                = IF i > n THEN <<>> ELSE Pieces8(s)[i] \o g[i + Steps8(s)[i]]
    <3>1. CASE i = n + 1
      <4>1. i > n
        BY <3>1, <1>1
      <4> QED
        BY <3>1, <4>1
    <3>2. CASE i # n + 1
      <4>1. ~ (i > n) /\ i \in 1..n
        BY <3>2, <1>1
      <4>2. /\ Pieces8(s)[i] = Utf16Encode(Utf8Decode(s, i).pt)
            /\ Steps8(s)[i] = Utf8Decode(s, i).offset
        BY <4>1 DEF Pieces8, Steps8
      <4> QED
        BY <3>2, <4>1, <4>2
    <3> QED
      BY <3>1, <3>2
  <2> QED
    BY <2>1 DEF IsLoop
<1>5. FromUtf8(s) = (CHOOSE g : Q(g))[1]
  BY DEF FromUtf8, Transcoded
<1>6. Q(CHOOSE g : Q(g))
  BY <1>3, <1>4
<1>7. IsLoop(CHOOSE g : Q(g), n, n + 1, Pieces8(s), Steps8(s))
  BY <1>4, <1>6
<1> HIDE DEF Q
<1> QED
  BY <1>2, <1>5, <1>7 DEF Collects, Loop8, Loop

\* It makes nothing of nothing.
LEMMA FromUtf8Nothing == FromUtf8(<<>>) = <<>>
<1>1. <<>> \in Seq(Octets) /\ Len(<<>>) = 0
  OBVIOUS
<1>2. Collects(FromUtf8(<<>>), Loop8(<<>>))
  BY <1>1, FromUtf8Collects
<1>3. Loop8(<<>>).n = 0
  BY <1>1 DEF Loop8, Loop
<1> QED
  BY <1>2, <1>3, CollectsNothing

\* It begins with what the first character is in UTF-16.
LEMMA FromUtf8On ==
    ASSUME NEW c \in Seq(Octets), NEW t \in Seq(Octets), Len(c) > 0,
           Utf8Decode(c \o t, 1).offset = Len(c)
    PROVE  FromUtf8(c \o t) = Utf16Encode(Utf8Decode(c \o t, 1).pt) \o FromUtf8(t)
<1> DEFINE s == c \o t
<1> DEFINE k == Len(c)
<1>1. s \in Seq(Octets) /\ Len(s) = k + Len(t) /\ k \in Nat /\ Len(t) \in Nat /\ k > 0
  BY SMT, Joined
<1>2. /\ 1 \in 1..Len(s) /\ k \in 1..Len(s)
      /\ Len(t) = Len(s) - k /\ Len(t) + 1 = (Len(s) + 1) - k
  BY SMT, <1>1
<1>3. Steps8(s)[1] = k /\ Pieces8(s)[1] = Utf16Encode(Utf8Decode(s, 1).pt)
  BY <1>2 DEF Steps8, Pieces8
<1>4. ASSUME NEW i \in 1..Len(t)
      PROVE  Pieces8(t)[i] = Pieces8(s)[i + k] /\ Steps8(t)[i] = Steps8(s)[i + k]
  <2>1. i + k \in 1..Len(s)
    BY SMT, <1>1
  <2>2. Utf8Decode(s, i + k) = Utf8Decode(t, i)
    BY Utf8ReadsOn
  <2> QED
    BY <2>1, <2>2 DEF Steps8, Pieces8
<1> HIDE DEF s, k
<1>5. Leaves(Loop8(s), Loop8(t), k)
  BY <1>2, <1>3, <1>4 DEF Leaves, Loop8, Loop
<1>6. Collects(FromUtf8(s), Loop8(s)) /\ Collects(FromUtf8(t), Loop8(t))
  BY <1>1, FromUtf8Collects
<1>7. FromUtf8(s) = Loop8(s).piece[1] \o FromUtf8(t)
  BY <1>5, <1>6, CollectsOn
<1>8. Loop8(s).piece = Pieces8(s)
  BY DEF Loop8, Loop
<1> QED
  BY <1>3, <1>7, <1>8 DEF s

-----------------------------------------------------------------------------
(* Well-formed texts, one character after the other. *)

\* A part of the second of two sequences.
LEMMA SubSeqOn ==
    ASSUME NEW S, NEW c \in Seq(S), NEW t \in Seq(S), NEW i \in Nat \ {0}, NEW j \in Nat,
           i <= j, j <= Len(t)
    PROVE  SubSeq(c \o t, i + Len(c), j + Len(c)) = SubSeq(t, i, j)
<1> DEFINE s == c \o t
<1> DEFINE x == SubSeq(s, i + Len(c), j + Len(c))
<1> DEFINE y == SubSeq(t, i, j)
<1>1. /\ s \in Seq(S) /\ Len(s) = Len(c) + Len(t) /\ Len(c) \in Nat /\ Len(t) \in Nat
      /\ \A k \in 1..Len(t) : s[Len(c) + k] = t[k]
  BY Joined
<1> HIDE DEF s
<1>2. y \in Seq(S) /\ Len(y) = j - i + 1 /\ \A k \in 1..Len(y) : y[k] = t[i + k - 1]
  BY SMT, <1>1
<1>3. /\ x \in Seq(S) /\ Len(x) = j - i + 1
      /\ \A k \in 1..Len(x) : x[k] = s[i + Len(c) + k - 1]
  BY SMT, <1>1
<1> HIDE DEF x, y
<1>4. ASSUME NEW k \in 1..Len(x) PROVE x[k] = y[k]
  <2>1. k \in 1..Len(y) /\ i + k - 1 \in 1..Len(t) /\ i + Len(c) + k - 1 = Len(c) + (i + k - 1)
    BY SMT, <1>1, <1>2, <1>3
  <2> QED
    BY <2>1, <1>1, <1>2, <1>3
<1>5. x = y
  BY <1>2, <1>3, <1>4, SeqEqual
<1> QED
  BY <1>5 DEF x, y, s

\* The first of two sequences.
LEMMA SubSeqAll ==
    ASSUME NEW S, NEW c \in Seq(S), NEW t \in Seq(S)
    PROVE  SubSeq(c \o t, 1, Len(c)) = c
<1> DEFINE s == c \o t
<1> DEFINE x == SubSeq(s, 1, Len(c))
<1>1. /\ s \in Seq(S) /\ Len(s) = Len(c) + Len(t) /\ Len(c) \in Nat /\ Len(t) \in Nat
      /\ \A k \in 1..Len(c) : s[k] = c[k]
  BY Joined
<1> HIDE DEF s
<1>2. x \in Seq(S) /\ Len(x) = Len(c) /\ \A k \in 1..Len(x) : x[k] = s[k]
  BY SMT, <1>1
<1> HIDE DEF x
<1>3. x = c
  BY <1>1, <1>2, SeqEqual
<1> QED
  BY <1>3 DEF x, s

\* Starts is where the characters of s start, as in WellFormed8.
Cuts(s, Starts) ==
    /\ Starts \in SUBSET (1..Len(s) + 1) /\ 1 \in Starts
    /\ \A i \in Starts :
        i <= Len(s) =>
            \E n \in 1..4 : i + n \in Starts /\ WellFormedChar(SubSeq(s, i, i + n - 1))

\* A text is well formed where it can be cut into characters.
LEMMA WellFormed8Is == ASSUME NEW s PROVE WellFormed8(s) <=> \E Starts : Cuts(s, Starts)
BY Zenon DEF WellFormed8, Cuts

\* The empty text is well formed.
LEMMA NothingIsWellFormed8 == WellFormed8(<<>>)
<1>1. Len(<<>>) = 0 /\ 1..0 + 1 = {1}
  BY SMT
<1>2. Cuts(<<>>, {1})
  <2>1. {1} \in SUBSET (1..Len(<<>>) + 1)
    BY SMT
  <2>2. \A i \in {1} : ~ (i <= Len(<<>>))
    BY SMT
  <2> QED
    BY <2>1, <2>2 DEF Cuts
<1> QED
  BY <1>2, WellFormed8Is

\* A character before a well-formed text makes a well-formed text.
LEMMA WellFormed8Joins ==
    ASSUME NEW c \in Seq(Octets), Len(c) \in 1..4, WellFormedChar(c),
           NEW t \in Seq(Octets), WellFormed8(t)
    PROVE  WellFormed8(c \o t)
<1> DEFINE s == c \o t
<1> DEFINE k == Len(c)
<1>1. /\ s \in Seq(Octets) /\ Len(s) = k + Len(t) /\ k \in 1..4 /\ Len(t) \in Nat
  BY SMT, Joined
<1>2. PICK T : Cuts(t, T)
  BY WellFormed8Is
<1>3. /\ \A i \in T : i \in 1..Len(t) + 1
      /\ 1 \in T
      /\ \A i \in T :
            i <= Len(t) =>
                \E n \in 1..4 : i + n \in T /\ WellFormedChar(SubSeq(t, i, i + n - 1))
  BY <1>2 DEF Cuts
<1> DEFINE Starts == {1} \cup {i + k : i \in T}
<1>4. Starts \in SUBSET (1..Len(s) + 1)
  BY SMT, <1>1, <1>3
<1>5. ASSUME NEW i \in Starts, i <= Len(s)
      PROVE  \E n \in 1..4 : i + n \in Starts /\ WellFormedChar(SubSeq(s, i, i + n - 1))
  <2>1. CASE i = 1
    <3>1. SubSeq(s, 1, k) = c
      BY SubSeqAll
    <3>2. 1 + k \in Starts /\ 1 + k - 1 = k
      BY <1>1, <1>3
    <3>3. SubSeq(s, 1, 1 + k - 1) = c
      BY <3>1, <3>2
    <3>4. WellFormedChar(SubSeq(s, 1, 1 + k - 1))
      BY <3>3
    <3> QED
      BY <1>1, <2>1, <3>2, <3>4
  <2>2. CASE i # 1
    <3>1. PICK j \in T : i = j + k
      BY <2>2, <1>5
    <3>2. j \in Nat \ {0} /\ j <= Len(t)
      BY SMT, <3>1, <1>1, <1>3, <1>5
    <3>3. PICK n \in 1..4 : j + n \in T /\ WellFormedChar(SubSeq(t, j, j + n - 1))
      BY <3>2, <1>3
    <3>4. /\ j + n - 1 \in Nat /\ j <= j + n - 1 /\ j + n - 1 <= Len(t)
          /\ i + n = (j + n) + k /\ i + n - 1 = (j + n - 1) + k
      BY SMT, <1>1, <1>3, <3>1, <3>2, <3>3
    <3>5. SubSeq(s, j + k, (j + n - 1) + k) = SubSeq(t, j, j + n - 1)
      <4> DEFINE h == j + n - 1
      <4>1. h \in Nat /\ j <= h /\ h <= Len(t)
        BY <3>4
      <4> HIDE DEF h
      <4>2. SubSeq(s, j + k, h + k) = SubSeq(t, j, h)
        BY <3>2, <4>1, SubSeqOn
      <4> QED
        BY <4>2 DEF h
    <3>6. WellFormedChar(SubSeq(s, i, i + n - 1))
      BY <3>1, <3>3, <3>4, <3>5
    <3>7. i + n \in Starts
      BY <3>3, <3>4
    <3> QED
      BY <3>6, <3>7
  <2> QED
    BY <2>1, <2>2
<1>6. 1 \in Starts
  OBVIOUS
<1> HIDE DEF Starts, s
<1>7. Cuts(s, Starts)
  BY <1>4, <1>5, <1>6 DEF Cuts
<1> QED
  BY <1>7, WellFormed8Is DEF s

\* Every well-formed text that is not empty is made that way.
LEMMA WellFormed8Parts ==
    ASSUME NEW s \in Seq(Octets), Len(s) > 0, WellFormed8(s)
    PROVE  \E c \in Seq(Octets), t \in Seq(Octets) :
                s = c \o t /\ Len(c) \in 1..4 /\ WellFormedChar(c) /\ WellFormed8(t)
<1>0. Len(s) \in Nat
  BY SMT
<1>1. PICK Starts : Cuts(s, Starts)
  BY WellFormed8Is
<1>2. /\ \A i \in Starts : i \in 1..Len(s) + 1
      /\ 1 \in Starts
      /\ \A i \in Starts :
            i <= Len(s) =>
                \E n \in 1..4 : i + n \in Starts /\ WellFormedChar(SubSeq(s, i, i + n - 1))
  BY <1>1 DEF Cuts
<1>3. PICK k \in 1..4 : 1 + k \in Starts /\ WellFormedChar(SubSeq(s, 1, 1 + k - 1))
  BY SMT, <1>0, <1>2
<1> DEFINE c == SubSeq(s, 1, 1 + k - 1)
<1> DEFINE t == SubSeq(s, k + 1, Len(s))
<1>4. /\ c \in Seq(Octets) /\ Len(c) = k /\ k <= Len(s)
      /\ \A i \in 1..Len(c) : s[i] = c[i]
  BY SMT, <1>0, <1>2, <1>3
<1>4a. c \in Seq(Octets)
  BY <1>4
<1>5. WellFormedChar(c)
  BY <1>3
<1> HIDE DEF c
<1>6. t \in Seq(Octets) /\ s = c \o t /\ Len(t) = Len(s) - k
  BY <1>4, Splits
<1> HIDE DEF t
<1>6a. Len(t) \in Nat /\ Len(s) = k + Len(t)
  BY SMT, <1>0, <1>6
<1> DEFINE T == {i \in 1..Len(t) + 1 : i + k \in Starts}
<1>7. T \in SUBSET (1..Len(t) + 1) /\ 1 \in T
  BY SMT, <1>3, <1>6a
<1>8. ASSUME NEW i \in T, i <= Len(t)
      PROVE  \E n \in 1..4 : i + n \in T /\ WellFormedChar(SubSeq(t, i, i + n - 1))
  <2>1. i + k \in Starts /\ i + k <= Len(s) /\ i \in Nat \ {0}
    BY SMT, <1>6a, <1>8
  <2>2. PICK n \in 1..4 : /\ (i + k) + n \in Starts
                          /\ WellFormedChar(SubSeq(s, i + k, (i + k) + n - 1))
    BY <2>1, <1>2
  <2> DEFINE h == i + n - 1
  <2>3. /\ h \in Nat /\ i <= h /\ h <= Len(t) /\ h + k = (i + k) + n - 1
        /\ (i + n) + k = (i + k) + n /\ i + n \in 1..Len(t) + 1
    <3>1. (i + k) + n \in 1..Len(s) + 1
      BY <2>2, <1>2
    <3> QED
      BY SMT, <2>1, <3>1, <1>6a
  <2> HIDE DEF h
  <2>4. SubSeq(s, i + k, h + k) = SubSeq(t, i, h)
    <3>1. /\ t \in Seq(Octets) /\ i \in Nat \ {0} /\ h \in Nat /\ i <= h /\ h <= Len(t)
      BY <2>1, <2>3, <1>6
    <3>2. SubSeq(c \o t, i + Len(c), h + Len(c)) = SubSeq(t, i, h)
      BY <3>1, <1>4a, SubSeqOn
    <3> QED
      BY <3>2, <1>4, <1>6
  <2>5. WellFormedChar(SubSeq(t, i, h))
    BY <2>2, <2>3, <2>4
  <2>6. i + n \in T
    BY <2>2, <2>3
  <2> QED
    BY <2>5, <2>6 DEF h
<1> HIDE DEF T
<1>9. Cuts(t, T)
  BY <1>7, <1>8 DEF Cuts
<1>10. WellFormed8(t)
  BY <1>9, WellFormed8Is
<1> QED
  BY <1>4, <1>5, <1>6, <1>10

\* A code point that is no surrogate is one to four bytes, and one or two units.
LEMMA ScalarIsBytes ==
    ASSUME NEW pt \in Scalars
    PROVE  /\ Utf8Encode(pt) \in Seq(Octets) /\ Len(Utf8Encode(pt)) \in 1..4
           /\ Len(Utf8Encode(pt)) > 0
           /\ WellFormedChar(Utf8Encode(pt))
<1> DEFINE e == Utf8Encode(pt)
<1>1. pt \in Points /\ pt \in Nat /\ pt < 1114112
  BY SMT DEF Scalars, Points
<1>2. e \in Seq(Octets)
  BY SMT, <1>1, Encodes1, Encodes2, Encodes3, Encodes4
<1>3. WellFormedChar(e)
  BY EncodingIsWellFormed
<1> HIDE DEF e
<1>4. Len(e) = 1 \/ Len(e) = 2 \/ Len(e) = 3 \/ Len(e) = 4
  BY <1>2, <1>3, WellFormedCharIs
<1>5. Len(e) \in 1..4 /\ Len(e) > 0
  BY SMT, <1>4
<1> QED
  BY <1>2, <1>3, <1>5 DEF e

\* It is one unit, no surrogate, or a pair of surrogates.
LEMMA ScalarIsUnits ==
    ASSUME NEW pt \in Scalars
    PROVE  /\ Utf16Encode(pt) \in Seq(Shorts)
           /\ \/ /\ Len(Utf16Encode(pt)) = 1 /\ Utf16Encode(pt)[1] = pt
                 /\ ~ IsHighSurrogate(pt) /\ ~ IsLowSurrogate(pt)
              \/ /\ Len(Utf16Encode(pt)) = 2
                 /\ IsHighSurrogate(Utf16Encode(pt)[1]) /\ IsLowSurrogate(Utf16Encode(pt)[2])
<1> DEFINE e == Utf16Encode(pt)
<1>1. pt \in Points /\ pt \in Nat /\ ~ IsSurrogate(pt)
  BY SMT DEF Scalars, Points
<1>2. CASE pt < 65536
  <2>1. pt \in Shorts
    BY SMT, <1>1, <1>2 DEF Shorts
  <2>2. e \in Seq(Shorts) /\ Len(e) = 1 /\ e[1] = pt
    BY <2>1, EncodesUnit
  <2> QED
    BY <1>1, <2>2 DEF IsSurrogate
<1>3. CASE pt >= 65536
  <2>1. /\ e \in Seq(Shorts) /\ Len(e) = 2
        /\ e[1] = 55296 + (pt - 65536) \div 1024 /\ e[2] = 56320 + (pt % 1024)
    BY <1>1, <1>3, EncodesPair
  <2> DEFINE a == e[1]
  <2> DEFINE b == e[2]
  <2>2. IsHighSurrogate(a) /\ IsLowSurrogate(b)
    <3>1. a = 55296 + (pt - 65536) \div 1024 /\ b = 56320 + (pt % 1024)
      BY <2>1
    <3> HIDE DEF a, b
    <3> QED
      BY <1>1, <1>3, <3>1, OfPair
  <2> QED
    BY <2>1, <2>2
<1> QED
  BY SMT, <1>1, <1>2, <1>3

\* The empty text is well formed in UTF-16 too.
LEMMA NothingIsWellFormed16 == WellFormed16(<<>>)
<1>1. DOMAIN <<>> = {}
  OBVIOUS
<1> QED
  BY <1>1 DEF WellFormed16

\* No unit is both halves of a pair.
LEMMA HighIsNotLow ==
    ASSUME NEW u \in Shorts
    PROVE  ~ (IsHighSurrogate(u) /\ IsLowSurrogate(u))
BY SMT DEF Shorts, IsHighSurrogate, IsLowSurrogate

\* A well-formed text, unit by unit.
LEMMA WellFormed16Is ==
    ASSUME NEW u \in Seq(Shorts)
    PROVE  WellFormed16(u) <=>
                \A i \in 1..Len(u) :
                    /\ IsHighSurrogate(u[i]) => i < Len(u) /\ IsLowSurrogate(u[i + 1])
                    /\ IsLowSurrogate(u[i]) => i > 1 /\ IsHighSurrogate(u[i - 1])
<1>1. DOMAIN u = 1..Len(u)
  OBVIOUS
<1> QED
  BY <1>1, Zenon DEF WellFormed16

\* One unit that is no surrogate, or a pair, before a well-formed text.
LEMMA WellFormed16Joins ==
    ASSUME NEW c \in Seq(Shorts), NEW v \in Seq(Shorts), WellFormed16(v),
           \/ Len(c) = 1 /\ ~ IsHighSurrogate(c[1]) /\ ~ IsLowSurrogate(c[1])
           \/ Len(c) = 2 /\ IsHighSurrogate(c[1]) /\ IsLowSurrogate(c[2])
    PROVE  WellFormed16(c \o v)
<1> DEFINE u == c \o v
<1> DEFINE k == Len(c)
<1>1. /\ u \in Seq(Shorts) /\ Len(u) = k + Len(v) /\ k \in Nat /\ Len(v) \in Nat
      /\ \A i \in 1..k : u[i] = c[i]
      /\ \A i \in 1..Len(v) : u[k + i] = v[i]
  BY Joined
<1>2. \A i \in 1..Len(v) :
            /\ IsHighSurrogate(v[i]) => i < Len(v) /\ IsLowSurrogate(v[i + 1])
            /\ IsLowSurrogate(v[i]) => i > 1 /\ IsHighSurrogate(v[i - 1])
  BY WellFormed16Is
<1>3. \/ k = 1 /\ ~ IsHighSurrogate(c[1]) /\ ~ IsLowSurrogate(c[1])
      \/ k = 2 /\ IsHighSurrogate(c[1]) /\ IsLowSurrogate(c[2])
  OBVIOUS
<1>4. \A i \in 1..k : c[i] \in Shorts
  OBVIOUS
<1> HIDE DEF u, k
<1>5. ASSUME NEW i \in 1..Len(u)
      PROVE  /\ IsHighSurrogate(u[i]) => i < Len(u) /\ IsLowSurrogate(u[i + 1])
             /\ IsLowSurrogate(u[i]) => i > 1 /\ IsHighSurrogate(u[i - 1])
  <2>1. CASE i <= k
    <3>1. i \in 1..k /\ u[i] = c[i] /\ c[i] \in Shorts
      BY SMT, <1>1, <1>4, <2>1
    <3>2. CASE k = 1
      <4>1. i = 1
        BY SMT, <3>1, <3>2
      <4> QED
        BY SMT, <3>1, <3>2, <4>1, <1>3
    <3>3. CASE k = 2
      <4>1. i = 1 \/ i = 2
        BY SMT, <3>1, <3>3
      <4>2. u[1] = c[1] /\ u[2] = c[2] /\ c[1] \in Shorts /\ c[2] \in Shorts
        BY SMT, <1>1, <1>4, <3>3
      <4>3. IsHighSurrogate(u[1]) /\ IsLowSurrogate(u[2])
        BY SMT, <4>2, <1>3, <3>3
      <4>4. ~ IsLowSurrogate(u[1]) /\ ~ IsHighSurrogate(u[2])
        BY <4>2, <4>3, HighIsNotLow
      <4>5. 1 < Len(u) /\ 1 + 1 = 2 /\ 2 > 1 /\ 2 - 1 = 1
        BY SMT, <1>1, <3>3
      <4> QED
        BY <4>1, <4>3, <4>4, <4>5
    <3> QED
      BY <1>3, <3>2, <3>3
  <2>2. CASE ~ (i <= k)
    <3>1. PICK j \in 1..Len(v) : i = k + j
      <4>1. i - k \in 1..Len(v) /\ i = k + (i - k)
        BY SMT, <1>1, <2>2
      <4> QED
        BY <4>1
    <3>2. u[i] = v[j]
      BY <3>1, <1>1
    <3>3. ASSUME IsHighSurrogate(v[j]) PROVE i < Len(u) /\ IsLowSurrogate(u[i + 1])
      <4>1. j < Len(v) /\ IsLowSurrogate(v[j + 1])
        BY <3>3, <1>2
      <4>2. j + 1 \in 1..Len(v) /\ i + 1 = k + (j + 1) /\ i < Len(u)
        BY SMT, <4>1, <3>1, <1>1
      <4>3. u[i + 1] = v[j + 1]
        BY SMTT(30), <4>2, <1>1
      <4> QED
        BY <4>1, <4>2, <4>3
    <3>4. ASSUME IsLowSurrogate(v[j]) PROVE i > 1 /\ IsHighSurrogate(u[i - 1])
      <4>1. j > 1 /\ IsHighSurrogate(v[j - 1])
        BY <3>4, <1>2
      <4>2. j - 1 \in 1..Len(v) /\ i - 1 = k + (j - 1) /\ i > 1
        BY SMT, <4>1, <3>1, <1>1
      <4>3. u[i - 1] = v[j - 1]
        BY <4>2, <1>1
      <4> QED
        BY <4>1, <4>2, <4>3
    <3> QED
      BY <3>2, <3>3, <3>4
  <2> QED
    BY <2>1, <2>2
<1>6. WellFormed16(u)
  BY <1>1, <1>5, WellFormed16Is
<1> QED
  BY <1>6 DEF u

\* A text that is well formed begins with the units of a code point, and goes on well formed.
LEMMA WellFormed16Parts ==
    ASSUME NEW u \in Seq(Shorts), Len(u) > 0, WellFormed16(u)
    PROVE  \E pt \in Scalars, v \in Seq(Shorts) :
                u = Utf16Encode(pt) \o v /\ WellFormed16(v)
<1>1. \A i \in 1..Len(u) :
            /\ IsHighSurrogate(u[i]) => i < Len(u) /\ IsLowSurrogate(u[i + 1])
            /\ IsLowSurrogate(u[i]) => i > 1 /\ IsHighSurrogate(u[i - 1])
  BY WellFormed16Is
<1>2. Len(u) \in Nat /\ 1 \in 1..Len(u) /\ u[1] \in Shorts
  BY SMT
<1>3. ~ IsLowSurrogate(u[1])
  <2>1. ~ (1 > 1)
    BY SMT
  <2> QED
    BY <1>1, <1>2, <2>1
<1>4. PICK pt \in Scalars : /\ Len(Utf16Encode(pt)) <= Len(u)
                            /\ \A k \in 1..Len(Utf16Encode(pt)) : u[k] = Utf16Encode(pt)[k]
                            /\ Len(Utf16Encode(pt)) = 2 => IsLowSurrogate(u[2])
  <2>1. CASE ~ IsHighSurrogate(u[1])
    <3> DEFINE p == u[1]
    <3>1. p \in Scalars /\ p \in Shorts
      BY SMT, <1>2, <1>3, <2>1 DEF Shorts, Scalars, Points, IsSurrogate
    <3> DEFINE e == Utf16Encode(p)
    <3>2. Len(e) = 1 /\ e[1] = p
      BY <3>1, EncodesUnit
    <3> HIDE DEF e
    <3>3. Len(e) <= Len(u) /\ (\A k \in 1..Len(e) : u[k] = e[k]) /\ Len(e) # 2
      BY SMT, <3>2, <1>2
    <3> QED
      BY <3>1, <3>3 DEF e
  <2>2. CASE IsHighSurrogate(u[1])
    <3>1. 1 < Len(u) /\ IsLowSurrogate(u[1 + 1])
      BY <1>1, <1>2, <2>2
    <3>2. 1 + 1 = 2 /\ 2 \in 1..Len(u) /\ u[2] \in Shorts
      BY SMT, <3>1, <1>2
    <3>3. IsLowSurrogate(u[2])
      BY <3>1, <3>2
    <3> DEFINE a == u[1]
    <3> DEFINE b == u[2]
    <3> DEFINE p == Pair(a, b)
    <3>4. /\ p \in Scalars /\ p >= 65536
          /\ 55296 + (p - 65536) \div 1024 = a /\ 56320 + (p % 1024) = b
      <4>1. a \in Shorts /\ b \in Shorts /\ IsHighSurrogate(a) /\ IsLowSurrogate(b)
        BY <1>2, <2>2, <3>2, <3>3
      <4> HIDE DEF a, b
      <4> QED
        BY <4>1, PairIs
    <3> DEFINE e == Utf16Encode(p)
    <3> HIDE DEF p
    <3>5. p \in Points
      BY <3>4 DEF Scalars
    <3>6. Len(e) = 2 /\ e[1] = 55296 + (p - 65536) \div 1024 /\ e[2] = 56320 + (p % 1024)
      BY <3>4, <3>5, EncodesPair
    <3>7. Len(e) = 2 /\ e[1] = u[1] /\ e[2] = u[2]
      BY <3>4, <3>6
    <3> HIDE DEF e
    <3>8. Len(e) <= Len(u) /\ \A k \in 1..Len(e) : u[k] = e[k]
      BY SMT, <3>7, <3>1, <1>2
    <3> QED
      BY <3>3, <3>4, <3>8 DEF e
  <2> QED
    BY <2>1, <2>2
<1> DEFINE e == Utf16Encode(pt)
<1> DEFINE v == SubSeq(u, Len(e) + 1, Len(u))
<1>5. e \in Seq(Shorts) /\ (Len(e) = 1 \/ Len(e) = 2)
  BY ScalarIsUnits
<1>6. Len(e) <= Len(u) /\ (\A k \in 1..Len(e) : u[k] = e[k]) /\ (Len(e) = 2 => IsLowSurrogate(u[2]))
  BY <1>4
<1> HIDE DEF e
<1>7. v \in Seq(Shorts) /\ u = e \o v /\ Len(v) = Len(u) - Len(e)
  BY <1>5, <1>6, Splits
<1> HIDE DEF v
<1>8. /\ Len(v) \in Nat /\ Len(u) = Len(e) + Len(v)
      /\ \A k \in 1..Len(v) : u[Len(e) + k] = v[k]
  BY <1>5, <1>7, Joined
<1>8a. Len(e) \in Nat
  BY <1>5
<1>9. ASSUME NEW i \in 1..Len(v)
      PROVE  /\ IsHighSurrogate(v[i]) => i < Len(v) /\ IsLowSurrogate(v[i + 1])
             /\ IsLowSurrogate(v[i]) => i > 1 /\ IsHighSurrogate(v[i - 1])
  <2> DEFINE j == Len(e) + i
  <2>1. j \in 1..Len(u) /\ u[j] = v[i]
    <3>1. j \in 1..Len(u)
      BY SMT, <1>5, <1>8
    <3> QED
      BY <3>1, <1>8
  <2>2. ASSUME IsHighSurrogate(v[i]) PROVE i < Len(v) /\ IsLowSurrogate(v[i + 1])
    <3>1. j < Len(u) /\ IsLowSurrogate(u[j + 1])
      BY <1>1, <2>1, <2>2
    <3>2. i < Len(v) /\ i + 1 \in 1..Len(v) /\ j + 1 = Len(e) + (i + 1)
      <4>1. Len(e) + i < Len(u)
        BY <3>1
      <4>2. Len(v) \in Nat /\ Len(u) = Len(e) + Len(v)
        BY <1>8
      <4> QED
        BY SMT, <4>1, <4>2, <1>8a
    <3>3. u[j + 1] = v[i + 1]
      BY <3>2, <1>8
    <3> QED
      BY <3>1, <3>2, <3>3
  <2>3. ASSUME IsLowSurrogate(v[i]) PROVE i > 1 /\ IsHighSurrogate(v[i - 1])
    <3>1. j > 1 /\ IsHighSurrogate(u[j - 1])
      BY <1>1, <2>1, <2>3
    <3>2. CASE i > 1
      <4>1. i - 1 \in 1..Len(v) /\ j - 1 = Len(e) + (i - 1)
        BY SMT, <3>2, <1>5, <1>8
      <4>2. u[j - 1] = v[i - 1]
        BY <4>1, <1>8
      <4> QED
        BY <3>1, <3>2, <4>2
    <3>3. CASE ~ (i > 1)
      <4>1. j - 1 = Len(e) /\ i = 1
        BY SMT, <3>3, <1>5, <1>8
      <4>2. IsHighSurrogate(u[Len(e)])
        BY <3>1, <4>1
      <4>3. CASE Len(e) = 2
        <5>1. IsLowSurrogate(u[2]) /\ IsHighSurrogate(u[2])
          BY <4>2, <4>3, <1>6
        <5>2. 2 \in 1..Len(u) /\ u[2] \in Shorts
          BY SMT, <4>3, <1>6, <1>2
        <5> QED
          BY <5>1, <5>2, HighIsNotLow
      <4>4. CASE Len(e) = 1
        <5>1. IsHighSurrogate(e[1])
          BY SMT, <4>2, <4>4, <1>6
        <5>2. ~ IsHighSurrogate(e[1])
          <6>1. Len(Utf16Encode(pt)) = 1
            BY <4>4 DEF e
          <6>2. Utf16Encode(pt)[1] = pt /\ ~ IsHighSurrogate(pt)
            BY SMT, <6>1, ScalarIsUnits
          <6> QED
            BY <6>2 DEF e
        <5> QED
          BY <5>1, <5>2
      <4> QED
        BY <1>5, <4>3, <4>4
    <3> QED
      BY <3>2, <3>3
  <2> QED
    BY <2>2, <2>3
<1>10. WellFormed16(v)
  BY <1>7, <1>9, WellFormed16Is
<1> QED
  BY <1>7, <1>10 DEF e
Pieces16(u) == [i \in 1..Len(u) |-> Utf8Encode(Utf16Decode(u, i, 0).pt)]
Steps16(u) == [i \in 1..Len(u) |-> Utf16Decode(u, i, 0).offset]
Loop16(u) == Loop(Len(u), Len(u) + 1, Pieces16(u), Steps16(u))

\* jniUTF8FromString() is such a loop.
LEMMA ToUtf8Collects ==
    ASSUME NEW u \in Seq(Shorts)
    PROVE  Collects(ToUtf8(u), Loop16(u))
<1> DEFINE n == Len(u)
<1> DEFINE Q(f) == f = [i \in 1..n + 1 |->
                            IF i = n + 1 THEN <<>>
                            ELSE Utf8Encode(Utf16Decode(u, i, 0).pt)
                                 \o f[i + Utf16Decode(u, i, 0).offset]]
<1>1. n \in Nat /\ n + 1 \in Nat /\ n < n + 1
  BY SMT
<1>2. Forward(n, n + 1, Steps16(u))
  BY <1>1, ZeroReads DEF Forward, Steps16
<1>3. PICK f : IsLoop(f, n, n + 1, Pieces16(u), Steps16(u))
  BY <1>2, LoopExists
<1>4. ASSUME NEW g PROVE Q(g) <=> IsLoop(g, n, n + 1, Pieces16(u), Steps16(u))
  <2>1. ASSUME NEW i \in 1..n + 1
        PROVE  (IF i = n + 1 THEN <<>>
                ELSE Utf8Encode(Utf16Decode(u, i, 0).pt) \o g[i + Utf16Decode(u, i, 0).offset])
                = IF i > n THEN <<>> ELSE Pieces16(u)[i] \o g[i + Steps16(u)[i]]
    <3>1. CASE i = n + 1
      <4>1. i > n
        BY <3>1, <1>1
      <4> QED
        BY <3>1, <4>1
    <3>2. CASE i # n + 1
      <4>1. ~ (i > n) /\ i \in 1..n
        BY <3>2, <1>1
      <4>2. /\ Pieces16(u)[i] = Utf8Encode(Utf16Decode(u, i, 0).pt)
            /\ Steps16(u)[i] = Utf16Decode(u, i, 0).offset
        BY <4>1 DEF Pieces16, Steps16
      <4> QED
        BY <3>2, <4>1, <4>2
    <3> QED
      BY <3>1, <3>2
  <2> QED
    BY <2>1 DEF IsLoop
<1>5. ToUtf8(u) = (CHOOSE g : Q(g))[1]
  BY DEF ToUtf8, Transcoded
<1>6. Q(CHOOSE g : Q(g))
  BY <1>3, <1>4
<1>7. IsLoop(CHOOSE g : Q(g), n, n + 1, Pieces16(u), Steps16(u))
  BY <1>4, <1>6
<1> HIDE DEF Q
<1> QED
  BY <1>2, <1>5, <1>7 DEF Collects, Loop16, Loop

\* It makes nothing of nothing.
LEMMA ToUtf8Nothing == ToUtf8(<<>>) = <<>>
<1>1. <<>> \in Seq(Shorts) /\ Len(<<>>) = 0
  OBVIOUS
<1>2. Collects(ToUtf8(<<>>), Loop16(<<>>))
  BY <1>1, ToUtf8Collects
<1>3. Loop16(<<>>).n = 0
  BY <1>1 DEF Loop16, Loop
<1> QED
  BY <1>2, <1>3, CollectsNothing

\* It begins with what the first character is in UTF-8.
LEMMA ToUtf8On ==
    ASSUME NEW c \in Seq(Shorts), NEW t \in Seq(Shorts), Len(c) > 0,
           Utf16Decode(c \o t, 1, 0).offset = Len(c)
    PROVE  ToUtf8(c \o t) = Utf8Encode(Utf16Decode(c \o t, 1, 0).pt) \o ToUtf8(t)
<1> DEFINE s == c \o t
<1> DEFINE k == Len(c)
<1>1. s \in Seq(Shorts) /\ Len(s) = k + Len(t) /\ k \in Nat /\ Len(t) \in Nat /\ k > 0
  BY SMT, Joined
<1>2. /\ 1 \in 1..Len(s) /\ k \in 1..Len(s)
      /\ Len(t) = Len(s) - k /\ Len(t) + 1 = (Len(s) + 1) - k
  BY SMT, <1>1
<1>3. Steps16(s)[1] = k /\ Pieces16(s)[1] = Utf8Encode(Utf16Decode(s, 1, 0).pt)
  BY <1>2 DEF Steps16, Pieces16
<1>4. ASSUME NEW i \in 1..Len(t)
      PROVE  Pieces16(t)[i] = Pieces16(s)[i + k] /\ Steps16(t)[i] = Steps16(s)[i + k]
  <2>1. i + k \in 1..Len(s)
    BY SMT, <1>1
  <2>2. Utf16Decode(s, i + k, 0) = Utf16Decode(t, i, 0)
    BY Utf16ReadsOn
  <2> QED
    BY <2>1, <2>2 DEF Steps16, Pieces16
<1> HIDE DEF s, k
<1>5. Leaves(Loop16(s), Loop16(t), k)
  BY <1>2, <1>3, <1>4 DEF Leaves, Loop16, Loop
<1>6. Collects(ToUtf8(s), Loop16(s)) /\ Collects(ToUtf8(t), Loop16(t))
  BY <1>1, ToUtf8Collects
<1>7. ToUtf8(s) = Loop16(s).piece[1] \o ToUtf8(t)
  BY <1>5, <1>6, CollectsOn
<1>8. Loop16(s).piece = Pieces16(s)
  BY DEF Loop16, Loop
<1> QED
  BY <1>3, <1>7, <1>8 DEF s

PiecesWide(w) == [i \in 1..Len(w) |-> Utf16Encode(Point(1, w[i]).pt)]
StepsWide(w) == [i \in 1..Len(w) |-> Point(1, w[i]).offset]
LoopWide(w) == Loop(Len(w), Len(w) + 1, PiecesWide(w), StepsWide(w))

\* jniStringFromWString() is such a loop.
LEMMA FromWideCollects ==
    ASSUME NEW w \in Seq(Points)
    PROVE  Collects(FromWide(w), LoopWide(w))
<1> DEFINE n == Len(w)
<1> DEFINE Q(f) == f = [i \in 1..n + 1 |->
                            IF i = n + 1 THEN <<>>
                            ELSE Utf16Encode(Point(1, w[i]).pt) \o f[i + Point(1, w[i]).offset]]
<1>1. n \in Nat /\ n + 1 \in Nat /\ n < n + 1
  BY SMT
<1>2. Forward(n, n + 1, StepsWide(w))
  <2>1. ASSUME NEW i \in 1..n
        PROVE  StepsWide(w)[i] = 1 /\ i + 1 <= n + 1 /\ 1 \in Nat \ {0}
    BY <1>1 DEF StepsWide, Point
  <2> QED
    BY <1>1, <2>1 DEF Forward
<1>3. PICK f : IsLoop(f, n, n + 1, PiecesWide(w), StepsWide(w))
  BY <1>2, LoopExists
<1>4. ASSUME NEW g PROVE Q(g) <=> IsLoop(g, n, n + 1, PiecesWide(w), StepsWide(w))
  <2>1. ASSUME NEW i \in 1..n + 1
        PROVE  (IF i = n + 1 THEN <<>>
                ELSE Utf16Encode(Point(1, w[i]).pt) \o g[i + Point(1, w[i]).offset])
                = IF i > n THEN <<>> ELSE PiecesWide(w)[i] \o g[i + StepsWide(w)[i]]
    <3>1. CASE i = n + 1
      <4>1. i > n
        BY <3>1, <1>1
      <4> QED
        BY <3>1, <4>1
    <3>2. CASE i # n + 1
      <4>1. ~ (i > n) /\ i \in 1..n
        BY <3>2, <1>1
      <4>2. /\ PiecesWide(w)[i] = Utf16Encode(Point(1, w[i]).pt)
            /\ StepsWide(w)[i] = Point(1, w[i]).offset
        BY <4>1 DEF PiecesWide, StepsWide
      <4> QED
        BY <3>2, <4>1, <4>2
    <3> QED
      BY <3>1, <3>2
  <2> QED
    BY <2>1 DEF IsLoop
<1>5. FromWide(w) = (CHOOSE g : Q(g))[1]
  BY DEF FromWide, Transcoded
<1>6. Q(CHOOSE g : Q(g))
  BY <1>3, <1>4
<1>7. IsLoop(CHOOSE g : Q(g), n, n + 1, PiecesWide(w), StepsWide(w))
  BY <1>4, <1>6
<1> HIDE DEF Q
<1> QED
  BY <1>2, <1>5, <1>7 DEF Collects, LoopWide, Loop

\* It makes nothing of nothing.
LEMMA FromWideNothing == FromWide(<<>>) = <<>>
<1>1. <<>> \in Seq(Points) /\ Len(<<>>) = 0
  OBVIOUS
<1>2. Collects(FromWide(<<>>), LoopWide(<<>>))
  BY <1>1, FromWideCollects
<1>3. LoopWide(<<>>).n = 0
  BY <1>1 DEF LoopWide, Loop
<1> QED
  BY <1>2, <1>3, CollectsNothing

\* It begins with the units of the first wide character.
LEMMA FromWideOn ==
    ASSUME NEW pt \in Points, NEW t \in Seq(Points)
    PROVE  FromWide(<<pt>> \o t) = Utf16Encode(pt) \o FromWide(t)
<1> DEFINE c == <<pt>>
<1> DEFINE s == c \o t
<1>0. c \in Seq(Points) /\ Len(c) = 1 /\ c[1] = pt
  OBVIOUS
<1> HIDE DEF c
<1>1. /\ s \in Seq(Points) /\ Len(s) = 1 + Len(t) /\ Len(t) \in Nat
      /\ s[1] = pt /\ \A i \in 1..Len(t) : s[1 + i] = t[i]
  <2>1. /\ s \in Seq(Points) /\ Len(s) = Len(c) + Len(t) /\ Len(t) \in Nat
        /\ \A i \in 1..Len(c) : s[i] = c[i]
        /\ \A i \in 1..Len(t) : s[Len(c) + i] = t[i]
    BY <1>0, Joined
  <2>2. 1 \in 1..Len(c)
    BY SMT, <1>0
  <2> HIDE DEF s
  <2> QED
    BY <2>1, <2>2, <1>0
<1> HIDE DEF s
<1>2. 1 \in 1..Len(s) /\ Len(t) = Len(s) - 1 /\ Len(t) + 1 = (Len(s) + 1) - 1
  BY SMT, <1>1
<1>3. \A n, p : Point(n, p).offset = n /\ Point(n, p).pt = p
  BY DEF Point
<1>4. StepsWide(s)[1] = 1 /\ PiecesWide(s)[1] = Utf16Encode(pt)
  BY <1>1, <1>2, <1>3 DEF StepsWide, PiecesWide
<1>5. ASSUME NEW i \in 1..Len(t)
      PROVE  PiecesWide(t)[i] = PiecesWide(s)[i + 1] /\ StepsWide(t)[i] = StepsWide(s)[i + 1]
  <2>1. i + 1 \in 1..Len(s) /\ i + 1 = 1 + i
    BY SMT, <1>1
  <2>2. s[i + 1] = t[i]
    BY <1>1, <2>1
  <2> QED
    BY <2>1, <2>2 DEF StepsWide, PiecesWide
<1>6. Leaves(LoopWide(s), LoopWide(t), 1)
  BY <1>2, <1>4, <1>5 DEF Leaves, LoopWide, Loop
<1>7. Collects(FromWide(s), LoopWide(s)) /\ Collects(FromWide(t), LoopWide(t))
  BY <1>1, FromWideCollects
<1>8. FromWide(s) = LoopWide(s).piece[1] \o FromWide(t)
  BY <1>6, <1>7, CollectsOn
<1>9. LoopWide(s).piece = PiecesWide(s)
  BY DEF LoopWide, Loop
<1> QED
  BY <1>4, <1>8, <1>9 DEF s, c

Pieces32(u, b) == [i \in 1..Len(u) |-> <<Utf16Decode(u, i, b).pt>>]
Steps32(u, b) == [i \in 1..Len(u) |-> Utf16Decode(u, i, b).offset]
Loop32(u, b) == Loop(Len(u), Len(u) + 2, Pieces32(u, b), Steps32(u, b))

\* So is jniWStringFromString(), which may step one unit over the end.
LEMMA ToWideCollects ==
    ASSUME NEW u \in Seq(Shorts), NEW b \in Shorts
    PROVE  Collects(ToWide(u, b), Loop32(u, b))
<1> DEFINE n == Len(u)
<1> DEFINE Q(f) == f = [i \in 1..n + 2 |->
                            IF i > n THEN <<>>
                            ELSE <<Utf16Decode(u, i, b).pt>> \o f[i + Utf16Decode(u, i, b).offset]]
<1>1. n \in Nat /\ n + 2 \in Nat /\ n < n + 2
  BY SMT
<1>2. Forward(n, n + 2, Steps32(u, b))
  <2>1. ASSUME NEW i \in 1..n
        PROVE  Steps32(u, b)[i] \in Nat \ {0} /\ i + Steps32(u, b)[i] <= n + 2
    <3> DEFINE o == Steps32(u, b)[i]
    <3>1. o = 1 \/ o = 2
      BY Utf16Reads DEF Steps32
    <3> HIDE DEF o
    <3>2. o \in Nat \ {0} /\ i + o <= n + 2
      BY SMT, <3>1, <1>1
    <3> QED
      BY <3>2 DEF o
  <2> QED
    BY <1>1, <2>1 DEF Forward
<1>3. PICK f : IsLoop(f, n, n + 2, Pieces32(u, b), Steps32(u, b))
  BY <1>2, LoopExists
<1>4. ASSUME NEW g PROVE Q(g) <=> IsLoop(g, n, n + 2, Pieces32(u, b), Steps32(u, b))
  <2>1. ASSUME NEW i \in 1..n + 2
        PROVE  (IF i > n THEN <<>>
                ELSE <<Utf16Decode(u, i, b).pt>> \o g[i + Utf16Decode(u, i, b).offset])
                = IF i > n THEN <<>> ELSE Pieces32(u, b)[i] \o g[i + Steps32(u, b)[i]]
    <3>1. CASE i > n
      BY <3>1
    <3>2. CASE ~ (i > n)
      <4>1. i \in 1..n
        BY <3>2, <1>1
      <4>2. /\ Pieces32(u, b)[i] = <<Utf16Decode(u, i, b).pt>>
            /\ Steps32(u, b)[i] = Utf16Decode(u, i, b).offset
        BY <4>1 DEF Pieces32, Steps32
      <4> QED
        BY <3>2, <4>1, <4>2
    <3> QED
      BY <3>1, <3>2
  <2> QED
    BY <2>1 DEF IsLoop
<1>5. ToWide(u, b) = (CHOOSE g : Q(g))[1]
  BY DEF ToWide
<1>6. Q(CHOOSE g : Q(g))
  BY <1>3, <1>4
<1>7. IsLoop(CHOOSE g : Q(g), n, n + 2, Pieces32(u, b), Steps32(u, b))
  BY <1>4, <1>6
<1> HIDE DEF Q
<1> QED
  BY <1>2, <1>5, <1>7 DEF Collects, Loop32, Loop

\* It makes nothing of nothing.
LEMMA ToWideNothing == ASSUME NEW b \in Shorts PROVE ToWide(<<>>, b) = <<>>
<1>1. <<>> \in Seq(Shorts) /\ Len(<<>>) = 0
  OBVIOUS
<1>2. Collects(ToWide(<<>>, b), Loop32(<<>>, b))
  BY <1>1, ToWideCollects
<1>3. Loop32(<<>>, b).n = 0
  BY <1>1 DEF Loop32, Loop
<1> QED
  BY <1>2, <1>3, CollectsNothing

\* It begins with the code point of the first character.
LEMMA ToWideOn ==
    ASSUME NEW c \in Seq(Shorts), NEW t \in Seq(Shorts), NEW b \in Shorts, Len(c) > 0,
           Utf16Decode(c \o t, 1, b).offset = Len(c)
    PROVE  ToWide(c \o t, b) = <<Utf16Decode(c \o t, 1, b).pt>> \o ToWide(t, b)
<1> DEFINE s == c \o t
<1> DEFINE k == Len(c)
<1>1. s \in Seq(Shorts) /\ Len(s) = k + Len(t) /\ k \in Nat /\ Len(t) \in Nat /\ k > 0
  BY SMT, Joined
<1>2. /\ 1 \in 1..Len(s) /\ k \in 1..Len(s)
      /\ Len(t) = Len(s) - k /\ Len(t) + 2 = (Len(s) + 2) - k
  BY SMT, <1>1
<1>3. Steps32(s, b)[1] = k /\ Pieces32(s, b)[1] = <<Utf16Decode(s, 1, b).pt>>
  BY <1>2 DEF Steps32, Pieces32
<1>4. ASSUME NEW i \in 1..Len(t)
      PROVE  /\ Pieces32(t, b)[i] = Pieces32(s, b)[i + k]
             /\ Steps32(t, b)[i] = Steps32(s, b)[i + k]
  <2>1. i + k \in 1..Len(s)
    BY SMT, <1>1
  <2>2. Utf16Decode(s, i + k, b) = Utf16Decode(t, i, b)
    BY Utf16ReadsOn
  <2> QED
    BY <2>1, <2>2 DEF Steps32, Pieces32
<1> HIDE DEF s, k
<1>5. Leaves(Loop32(s, b), Loop32(t, b), k)
  BY <1>2, <1>3, <1>4 DEF Leaves, Loop32, Loop
<1>6. Collects(ToWide(s, b), Loop32(s, b)) /\ Collects(ToWide(t, b), Loop32(t, b))
  BY <1>1, ToWideCollects
<1>7. ToWide(s, b) = Loop32(s, b).piece[1] \o ToWide(t, b)
  BY <1>5, <1>6, CollectsOn
<1>8. Loop32(s, b).piece = Pieces32(s, b)
  BY DEF Loop32, Loop
<1> QED
  BY <1>3, <1>7, <1>8 DEF s

-----------------------------------------------------------------------------
(* Whole texts, by induction on their length. *)

\* A set of texts that holds a text whenever it holds all that are shorter holds every text.
LEMMA TextInduction ==
    ASSUME NEW E, NEW G \in SUBSET Seq(E),
           \A s \in Seq(E) : (\A t \in Seq(E) : Len(t) < Len(s) => t \in G) => s \in G
    PROVE  \A s \in Seq(E) : s \in G
<1> DEFINE S == {n \in Nat : \A s \in Seq(E) : Len(s) < n => s \in G}
<1>0. \A s \in Seq(E) : Len(s) \in Nat
  BY SMT
<1>1. 0 \in S
  <2>1. \A s \in Seq(E) : ~ (Len(s) < 0)
    BY SMT, <1>0
  <2> QED
    BY <2>1
<1>2. ASSUME NEW n \in S PROVE n + 1 \in S
  <2>1. n \in Nat /\ n + 1 \in Nat /\ \A s \in Seq(E) : Len(s) < n => s \in G
    BY <1>2
  <2>2. ASSUME NEW s \in Seq(E), Len(s) < n + 1 PROVE s \in G
    <3>1. ASSUME NEW t \in Seq(E), Len(t) < Len(s) PROVE t \in G
      <4>1. Len(t) < n
        BY SMT, <1>0, <2>1, <2>2, <3>1
      <4> QED
        BY <4>1, <2>1
    <3> QED
      BY <3>1
  <2> QED
    BY <2>1, <2>2
<1> HIDE DEF S
<1>3. S = Nat
  <2>1. S \in SUBSET Nat
    BY DEF S
  <2> QED
    BY <2>1, <1>1, <1>2, SetInduction
<1> TAKE s \in Seq(E)
<1>4. Len(s) + 1 \in Nat /\ Len(s) < Len(s) + 1
  BY SMT, <1>0
<1> QED
  BY <1>3, <1>4 DEF S

\* Every code point is encoded as units.
LEMMA PointIsUnits == ASSUME NEW pt \in Points PROVE Utf16Encode(pt) \in Seq(Shorts)
<1>1. CASE pt < 65536
  <2>1. pt \in Shorts
    BY SMT, <1>1 DEF Points, Shorts
  <2> QED
    BY <2>1, EncodesUnit
<1>2. CASE ~ (pt < 65536)
  <2>1. pt >= 65536
    BY SMT, <1>2 DEF Points
  <2> QED
    BY <2>1, EncodesPair
<1> QED
  BY <1>1, <1>2

\* jniStringFromUTF8() takes the first character off, and goes on with what is left.
LEMMA FromUtf8First ==
    ASSUME NEW s \in Seq(Octets), Len(s) > 0
    PROVE  \E c \in Seq(Octets), t \in Seq(Octets) :
                /\ s = c \o t /\ Len(c) > 0 /\ Len(t) < Len(s)
                /\ Utf8Decode(s, 1).offset = Len(c)
                /\ FromUtf8(s) = Utf16Encode(Utf8Decode(s, 1).pt) \o FromUtf8(t)
<1> DEFINE k == Utf8Decode(s, 1).offset
<1> DEFINE c == SubSeq(s, 1, k)
<1> DEFINE t == SubSeq(s, k + 1, Len(s))
<1>1. Len(s) \in Nat /\ 1 \in 1..Len(s)
  BY SMT
<1>2. k \in Nat \ {0} /\ 1 + k <= Len(s) + 1
  BY <1>1, Utf8Reads
<1> HIDE DEF k
<1>3. c \in Seq(Octets) /\ Len(c) = k /\ Len(c) <= Len(s) /\ \A i \in 1..Len(c) : s[i] = c[i]
  BY SMT, <1>1, <1>2
<1> HIDE DEF c
<1>4. t \in Seq(Octets) /\ s = c \o t /\ Len(t) = Len(s) - k
  BY <1>3, Splits
<1> HIDE DEF t
<1>5. Len(c) > 0 /\ Len(t) < Len(s)
  BY SMT, <1>1, <1>2, <1>3, <1>4
<1>6. Utf8Decode(c \o t, 1).offset = Len(c)
  BY <1>3, <1>4 DEF k
<1>7. c \in Seq(Octets)
  BY <1>3
<1>8. FromUtf8(c \o t) = Utf16Encode(Utf8Decode(c \o t, 1).pt) \o FromUtf8(t)
  BY <1>4, <1>5, <1>6, <1>7, FromUtf8On
<1> QED
  BY <1>4, <1>5, <1>6, <1>7, <1>8

\* So does jniUTF8FromString(), and it never finds a surrogate.
LEMMA ToUtf8First ==
    ASSUME NEW u \in Seq(Shorts), Len(u) > 0
    PROVE  \E pt \in Scalars, v \in Seq(Shorts) :
                Len(v) < Len(u) /\ ToUtf8(u) = Utf8Encode(pt) \o ToUtf8(v)
<1> DEFINE k == Utf16Decode(u, 1, 0).offset
<1> DEFINE c == SubSeq(u, 1, k)
<1> DEFINE t == SubSeq(u, k + 1, Len(u))
<1>1. Len(u) \in Nat /\ 1 \in 1..Len(u)
  BY SMT
<1>2. k \in Nat \ {0} /\ 1 + k <= Len(u) + 1 /\ Utf16Decode(u, 1, 0).pt \in Scalars
  BY <1>1, ZeroReads
<1> HIDE DEF k
<1>3. c \in Seq(Shorts) /\ Len(c) = k /\ Len(c) <= Len(u) /\ \A i \in 1..Len(c) : u[i] = c[i]
  BY SMT, <1>1, <1>2
<1> HIDE DEF c
<1>4. t \in Seq(Shorts) /\ u = c \o t /\ Len(t) = Len(u) - k
  BY <1>3, Splits
<1> HIDE DEF t
<1>5. Len(c) > 0 /\ Len(t) < Len(u)
  BY SMT, <1>1, <1>2, <1>3, <1>4
<1>6. Utf16Decode(c \o t, 1, 0).offset = Len(c)
  BY <1>3, <1>4 DEF k
<1>7. c \in Seq(Shorts)
  BY <1>3
<1>8. ToUtf8(c \o t) = Utf8Encode(Utf16Decode(c \o t, 1, 0).pt) \o ToUtf8(t)
  BY <1>4, <1>5, <1>6, <1>7, ToUtf8On
<1> QED
  BY <1>2, <1>4, <1>5, <1>8

\* C++ bytes become Java units.
LEMMA FromUtf8Type == \A s \in Seq(Octets) : FromUtf8(s) \in Seq(Shorts)
<1> DEFINE G == {s \in Seq(Octets) : FromUtf8(s) \in Seq(Shorts)}
<1>1. ASSUME NEW s \in Seq(Octets), \A t \in Seq(Octets) : Len(t) < Len(s) => t \in G
      PROVE  s \in G
  <2>1. CASE Len(s) > 0
    <3>1. PICK c \in Seq(Octets), t \in Seq(Octets) :
                /\ Len(t) < Len(s)
                /\ FromUtf8(s) = Utf16Encode(Utf8Decode(s, 1).pt) \o FromUtf8(t)
      BY <2>1, FromUtf8First
    <3>2. FromUtf8(t) \in Seq(Shorts)
      BY <1>1, <3>1
    <3>3. Utf8Decode(s, 1).pt \in Points
      <4>1. 1 \in 1..Len(s)
        BY SMT, <2>1
      <4> QED
        BY <4>1, Utf8Reads
    <3>4. Utf16Encode(Utf8Decode(s, 1).pt) \in Seq(Shorts)
      BY <3>3, PointIsUnits
    <3>5. FromUtf8(s) \in Seq(Shorts)
      BY <3>1, <3>2, <3>4, Joined
    <3> QED
      BY <3>5
  <2>2. CASE ~ (Len(s) > 0)
    <3>1. s = <<>>
      BY SMT, <2>2
    <3>2. <<>> \in Seq(Shorts) /\ FromUtf8(<<>>) = <<>>
      BY FromUtf8Nothing
    <3> QED
      BY <3>1, <3>2
  <2> QED
    BY <2>1, <2>2
<1>2. G \in SUBSET Seq(Octets)
  OBVIOUS
<1> HIDE DEF G
<1>3. \A s \in Seq(Octets) : s \in G
  BY <1>1, <1>2, TextInduction
<1> QED
  BY <1>3 DEF G

\* Whatever the units are, C++ gets well-formed bytes.
LEMMA ToUtf8IsWellFormed ==
    \A u \in Seq(Shorts) : ToUtf8(u) \in Seq(Octets) /\ WellFormed8(ToUtf8(u))
<1> DEFINE G == {u \in Seq(Shorts) : ToUtf8(u) \in Seq(Octets) /\ WellFormed8(ToUtf8(u))}
<1>1. ASSUME NEW u \in Seq(Shorts), \A t \in Seq(Shorts) : Len(t) < Len(u) => t \in G
      PROVE  u \in G
  <2>1. CASE Len(u) > 0
    <3>1. PICK pt \in Scalars, v \in Seq(Shorts) :
                Len(v) < Len(u) /\ ToUtf8(u) = Utf8Encode(pt) \o ToUtf8(v)
      BY <2>1, ToUtf8First
    <3>2. ToUtf8(v) \in Seq(Octets) /\ WellFormed8(ToUtf8(v))
      BY <1>1, <3>1
    <3>3. /\ Utf8Encode(pt) \in Seq(Octets) /\ Len(Utf8Encode(pt)) \in 1..4
          /\ WellFormedChar(Utf8Encode(pt))
      BY ScalarIsBytes
    <3>4. ToUtf8(u) \in Seq(Octets)
      BY <3>1, <3>2, <3>3, Joined
    <3>5. WellFormed8(ToUtf8(u))
      BY <3>1, <3>2, <3>3, WellFormed8Joins
    <3> QED
      BY <3>4, <3>5
  <2>2. CASE ~ (Len(u) > 0)
    <3>1. u = <<>>
      BY SMT, <2>2
    <3>2. <<>> \in Seq(Octets) /\ ToUtf8(<<>>) = <<>> /\ WellFormed8(<<>>)
      BY ToUtf8Nothing, NothingIsWellFormed8
    <3> QED
      BY <3>1, <3>2
  <2> QED
    BY <2>1, <2>2
<1>2. G \in SUBSET Seq(Shorts)
  OBVIOUS
<1> HIDE DEF G
<1>3. \A s \in Seq(Shorts) : s \in G
  BY <1>1, <1>2, TextInduction
<1> QED
  BY <1>3 DEF G

\* From C++ to Java and back: one character, and then the others.
LEMMA ThereAndBack ==
    ASSUME NEW pt \in Scalars, NEW t \in Seq(Octets), NEW v \in Seq(Shorts)
    PROVE  /\ FromUtf8(Utf8Encode(pt) \o t) = Utf16Encode(pt) \o FromUtf8(t)
           /\ ToUtf8(Utf16Encode(pt) \o v) = Utf8Encode(pt) \o ToUtf8(v)
<1> DEFINE e == Utf8Encode(pt)
<1> DEFINE h == Utf16Encode(pt)
<1>1. e \in Seq(Octets) /\ Len(e) > 0
  BY ScalarIsBytes
<1>2. h \in Seq(Shorts) /\ Len(h) > 0
  BY SMT, ScalarIsUnits
<1>3. pt \in Points
  BY DEF Scalars
<1>4. \A n, p : Point(n, p).offset = n /\ Point(n, p).pt = p
  BY DEF Point
<1>5. Utf8Decode(e \o t, 1) = Point(Len(e), pt)
  BY <1>3, Utf8DecodesBack
<1>6. Utf16Decode(h \o v, 1, 0) = Point(Len(h), pt)
  BY Utf16DecodesBack
<1>7. Utf8Decode(e \o t, 1).offset = Len(e) /\ Utf8Decode(e \o t, 1).pt = pt
  BY <1>4, <1>5
<1>8. Utf16Decode(h \o v, 1, 0).offset = Len(h) /\ Utf16Decode(h \o v, 1, 0).pt = pt
  BY <1>4, <1>6
<1> HIDE DEF e, h
<1>9. FromUtf8(e \o t) = Utf16Encode(Utf8Decode(e \o t, 1).pt) \o FromUtf8(t)
  BY <1>1, <1>7, FromUtf8On
<1>10. ToUtf8(h \o v) = Utf8Encode(Utf16Decode(h \o v, 1, 0).pt) \o ToUtf8(v)
  BY <1>2, <1>8, ToUtf8On
<1> QED
  BY <1>7, <1>8, <1>9, <1>10 DEF e, h

\* A well-formed std::string comes back as it was.
LEMMA BytesSurvive == \A s \in Seq(Octets) : WellFormed8(s) => ToUtf8(FromUtf8(s)) = s
<1> DEFINE G == {s \in Seq(Octets) : WellFormed8(s) => ToUtf8(FromUtf8(s)) = s}
<1>1. ASSUME NEW s \in Seq(Octets), \A t \in Seq(Octets) : Len(t) < Len(s) => t \in G
      PROVE  s \in G
  <2>1. SUFFICES ASSUME WellFormed8(s) PROVE ToUtf8(FromUtf8(s)) = s
    OBVIOUS
  <2>2. CASE Len(s) > 0
    <3>1. PICK c \in Seq(Octets), t \in Seq(Octets) :
                s = c \o t /\ Len(c) \in 1..4 /\ WellFormedChar(c) /\ WellFormed8(t)
      BY <2>1, <2>2, WellFormed8Parts
    <3>2. PICK pt \in Scalars : c = Utf8Encode(pt)
      BY <3>1, WellFormedCharOf
    <3>3. Len(t) < Len(s)
      <4>1. Len(s) = Len(c) + Len(t) /\ Len(t) \in Nat
        BY <3>1, Joined
      <4> DEFINE k == Len(c)
      <4>2. k \in 1..4
        BY <3>1
      <4> HIDE DEF k
      <4>3. k \in Nat /\ k > 0
        BY SMT, <4>2
      <4> QED
        BY SMT, <4>1, <4>3 DEF k
    <3>4. ToUtf8(FromUtf8(t)) = t
      BY <1>1, <3>1, <3>3
    <3>5. FromUtf8(t) \in Seq(Shorts)
      BY FromUtf8Type
    <3>6. FromUtf8(s) = Utf16Encode(pt) \o FromUtf8(t)
      BY <3>1, <3>2, <3>5, ThereAndBack
    <3>7. ToUtf8(Utf16Encode(pt) \o FromUtf8(t)) = Utf8Encode(pt) \o ToUtf8(FromUtf8(t))
      BY <3>5, ThereAndBack
    <3> QED
      BY <3>1, <3>2, <3>4, <3>6, <3>7
  <2>3. CASE ~ (Len(s) > 0)
    <3>1. s = <<>>
      BY SMT, <2>3
    <3> QED
      BY <3>1, FromUtf8Nothing, ToUtf8Nothing
  <2> QED
    BY <2>2, <2>3
<1>2. G \in SUBSET Seq(Octets)
  OBVIOUS
<1> HIDE DEF G
<1>3. \A s \in Seq(Octets) : s \in G
  BY <1>1, <1>2, TextInduction
<1> QED
  BY <1>3 DEF G

\* A well-formed Java string comes back as it was, also by way of std::wstring.
LEMMA UnitsSurvive ==
    ASSUME NEW b \in Shorts
    PROVE  \A u \in Seq(Shorts) :
                WellFormed16(u) => /\ FromUtf8(ToUtf8(u)) = u
                                   /\ ToWide(u, b) \in Seq(Points)
                                   /\ FromWide(ToWide(u, b)) = u
<1> DEFINE Kept(u) == /\ FromUtf8(ToUtf8(u)) = u
                      /\ ToWide(u, b) \in Seq(Points)
                      /\ FromWide(ToWide(u, b)) = u
<1> DEFINE G == {u \in Seq(Shorts) : WellFormed16(u) => Kept(u)}
<1>1. ASSUME NEW u \in Seq(Shorts), \A t \in Seq(Shorts) : Len(t) < Len(u) => t \in G
      PROVE  u \in G
  <2>1. SUFFICES ASSUME WellFormed16(u) PROVE Kept(u)
    OBVIOUS
  <2>2. CASE Len(u) > 0
    <3>1. PICK pt \in Scalars, v \in Seq(Shorts) : u = Utf16Encode(pt) \o v /\ WellFormed16(v)
      BY <2>1, <2>2, WellFormed16Parts
    <3> DEFINE h == Utf16Encode(pt)
    <3>2. h \in Seq(Shorts) /\ Len(h) > 0
      BY SMT, ScalarIsUnits
    <3>3. Utf16Decode(h \o v, 1, b) = Point(Len(h), pt)
      BY Utf16DecodesBack
    <3>4. Utf16Decode(h \o v, 1, b).offset = Len(h) /\ Utf16Decode(h \o v, 1, b).pt = pt
      <4>1. \A n, p : Point(n, p).offset = n /\ Point(n, p).pt = p
        BY DEF Point
      <4> QED
        BY <3>3, <4>1
    <3> HIDE DEF h
    <3>5. Len(v) < Len(u)
      <4>1. Len(u) = Len(h) + Len(v) /\ Len(v) \in Nat /\ Len(h) \in Nat
        BY <3>1, <3>2, Joined DEF h
      <4> QED
        BY SMT, <3>2, <4>1
    <3>6. v \in G
      BY <1>1, <3>5
    <3>7. Kept(v)
      BY <3>1, <3>6
    <3>8. FromUtf8(ToUtf8(u)) = u
      <4>1. ToUtf8(v) \in Seq(Octets)
        BY ToUtf8IsWellFormed
      <4>2. ToUtf8(u) = Utf8Encode(pt) \o ToUtf8(v)
        BY <3>1, <4>1, ThereAndBack
      <4>3. FromUtf8(Utf8Encode(pt) \o ToUtf8(v)) = Utf16Encode(pt) \o FromUtf8(ToUtf8(v))
        BY <4>1, ThereAndBack
      <4> QED
        BY <3>1, <3>7, <4>2, <4>3
    <3>9. ToWide(u, b) = <<pt>> \o ToWide(v, b)
      <4>1. ToWide(h \o v, b) = <<Utf16Decode(h \o v, 1, b).pt>> \o ToWide(v, b)
        BY <3>2, <3>4, ToWideOn
      <4> QED
        BY <3>1, <3>4, <4>1 DEF h
    <3>10. pt \in Points
      BY DEF Scalars
    <3>11. ToWide(u, b) \in Seq(Points)
      <4>1. <<pt>> \in Seq(Points)
        BY <3>10
      <4> QED
        BY <3>7, <3>9, <4>1, Joined
    <3>12. FromWide(ToWide(u, b)) = u
      <4>1. FromWide(<<pt>> \o ToWide(v, b)) = Utf16Encode(pt) \o FromWide(ToWide(v, b))
        BY <3>7, <3>10, FromWideOn
      <4> QED
        BY <3>1, <3>7, <3>9, <4>1
    <3> QED
      BY <3>8, <3>11, <3>12
  <2>3. CASE ~ (Len(u) > 0)
    <3>1. u = <<>>
      BY SMT, <2>3
    <3>2. <<>> \in Seq(Points)
      OBVIOUS
    <3> QED
      BY <3>1, <3>2, FromUtf8Nothing, ToUtf8Nothing, FromWideNothing, ToWideNothing
  <2> QED
    BY <2>2, <2>3
<1>2. G \in SUBSET Seq(Shorts)
  OBVIOUS
<1> HIDE DEF G
<1>3. \A s \in Seq(Shorts) : s \in G
  BY <1>1, <1>2, TextInduction
<1> QED
  BY <1>3 DEF G

\* A surrogate that is spelled out later on is spelled out.
LEMMA SpelledLater ==
    ASSUME NEW c \in Seq(Octets), NEW t \in Seq(Octets), SpellsSurrogate(t)
    PROVE  SpellsSurrogate(c \o t)
<1> DEFINE s == c \o t
<1> DEFINE k == Len(c)
<1>1. /\ Len(s) = k + Len(t) /\ k \in Nat /\ Len(t) \in Nat
      /\ \A i \in 1..Len(t) : s[k + i] = t[i]
  BY Joined
<1> HIDE DEF s, k
<1>2. PICK i \in 1..Len(t) - 2 : t[i] = 237 /\ t[i + 1] \in 160..191 /\ t[i + 2] \in Next6
  BY SMT DEF SpellsSurrogate
<1>3. /\ i \in 1..Len(t) /\ i + 1 \in 1..Len(t) /\ i + 2 \in 1..Len(t)
      /\ k + i \in 1..Len(s) - 2 /\ (k + i) + 1 = k + (i + 1) /\ (k + i) + 2 = k + (i + 2)
  BY SMT, <1>1
<1>4. s[k + i] = t[i] /\ s[(k + i) + 1] = t[i + 1] /\ s[(k + i) + 2] = t[i + 2]
  BY <1>1, <1>3
<1>5. /\ s[k + i] = 237 /\ s[(k + i) + 1] \in 160..191 /\ s[(k + i) + 2] \in Next6
  BY <1>2, <1>4
<1>6. SpellsSurrogate(s)
  BY <1>3, <1>5, Zenon DEF SpellsSurrogate
<1> QED
  BY <1>6 DEF s

\* U+FFFD, which stands for what cannot be decoded.
Replacement == 65533

\* It is one unit of a Java string wherever it comes up.
LEMMA ReplacementShows ==
    ASSUME NEW v \in Seq(Shorts)
    PROVE  /\ (Utf16Encode(Replacement) \o v)[1] = Replacement
           /\ 1 \in 1..Len(Utf16Encode(Replacement) \o v)
<1> DEFINE e == Utf16Encode(Replacement)
<1>1. Replacement \in Shorts
  BY SMT DEF Shorts, Replacement
<1>2. e \in Seq(Shorts) /\ Len(e) = 1 /\ e[1] = Replacement
  BY <1>1, EncodesUnit
<1> HIDE DEF e
<1>3. 1 \in 1..Len(e)
  BY SMT, <1>2
<1>4. e \in Seq(Shorts)
  BY <1>2
<1>5. (e \o v)[1] = e[1] /\ Len(e \o v) = Len(e) + Len(v) /\ Len(v) \in Nat
  BY <1>3, <1>4, Joined
<1>6. 1 \in 1..Len(e \o v)
  BY SMT, <1>2, <1>5
<1> QED
  BY <1>2, <1>5, <1>6 DEF e

\* Bytes that decode to anything else are those of what they decode to.
LEMMA BytesOf ==
    ASSUME NEW s \in Seq(Octets), Len(s) > 0, NEW pt, pt = Utf8Decode(s, 1).pt, pt # Replacement
    PROVE  /\ Utf8Decode(s, 1).offset = Len(Utf8Encode(pt))
           /\ Opens(s, Utf8Encode(pt))
<1>1. Utf8Decode(s, 1) # Invalid
  BY SMT DEF Replacement, Invalid
<1>2. Utf8Decode(s, 1).offset = Len(Utf8Encode(Utf8Decode(s, 1).pt))
  BY SMT, <1>1, Utf8EncodesBack
<1>3. Opens(s, Utf8Encode(Utf8Decode(s, 1).pt))
  BY SMT, <1>1, Utf8EncodesBack
<1> QED
  BY <1>2, <1>3

\* Whatever the bytes are, Java gets well-formed units, and U+FFFD among them where the bytes
\* were not well formed, unless they spell a surrogate.
Arrived(s) ==
    \/ SpellsSurrogate(s)
    \/ /\ WellFormed16(FromUtf8(s))
       /\ ~ WellFormed8(s) => \E i \in 1..Len(FromUtf8(s)) : FromUtf8(s)[i] = Replacement

\* It holds of every std::string.
LEMMA BytesArrive == \A s \in Seq(Octets) : Arrived(s)
<1> DEFINE G == {s \in Seq(Octets) : Arrived(s)}
<1>1. ASSUME NEW s \in Seq(Octets), \A t \in Seq(Octets) : Len(t) < Len(s) => t \in G
      PROVE  s \in G
  <2>1. CASE Len(s) > 0
    <3> DEFINE pt == Utf8Decode(s, 1).pt
    <3> DEFINE h == Utf16Encode(pt)
    <3>1. PICK c \in Seq(Octets), t \in Seq(Octets) :
                /\ s = c \o t /\ Len(c) > 0 /\ Len(t) < Len(s)
                /\ Utf8Decode(s, 1).offset = Len(c)
                /\ FromUtf8(s) = h \o FromUtf8(t)
      BY <2>1, FromUtf8First
    <3> DEFINE v == FromUtf8(t)
    <3>2. Arrived(t) /\ v \in Seq(Shorts)
      BY <1>1, <3>1, FromUtf8Type
    <3>3. CASE IsSurrogate(pt)
      BY <2>1, <3>3, SurrogateIsSpelled DEF Arrived
    <3>4. CASE SpellsSurrogate(t)
      BY <3>1, <3>4, SpelledLater DEF Arrived
    <3>5. CASE ~ IsSurrogate(pt) /\ ~ SpellsSurrogate(t)
      <4>1. pt \in Scalars
        <5>1. 1 \in 1..Len(s)
          BY SMT, <2>1
        <5>2. pt \in Points
          BY <5>1, Utf8Reads
        <5> QED
          BY <3>5, <5>2 DEF Scalars
      <4>2. /\ WellFormed16(v)
            /\ ~ WellFormed8(t) => \E i \in 1..Len(v) : v[i] = Replacement
        BY <3>2, <3>5 DEF Arrived
      <4>3. h \in Seq(Shorts) /\ WellFormed16(h \o v)
        <5>1. /\ h \in Seq(Shorts)
              /\ \/ Len(h) = 1 /\ h[1] = pt /\ ~ IsHighSurrogate(pt) /\ ~ IsLowSurrogate(pt)
                 \/ Len(h) = 2 /\ IsHighSurrogate(h[1]) /\ IsLowSurrogate(h[2])
          BY <4>1, ScalarIsUnits
        <5> HIDE DEF h, v, pt
        <5>2. \/ Len(h) = 1 /\ ~ IsHighSurrogate(h[1]) /\ ~ IsLowSurrogate(h[1])
              \/ Len(h) = 2 /\ IsHighSurrogate(h[1]) /\ IsLowSurrogate(h[2])
          BY <5>1
        <5> QED
          BY <5>1, <5>2, <3>2, <4>2, WellFormed16Joins
      <4>4. ASSUME ~ WellFormed8(s)
            PROVE  \E i \in 1..Len(h \o v) : (h \o v)[i] = Replacement
        <5>1. CASE pt = Replacement
          <6>1. h = Utf16Encode(Replacement)
            BY <5>1
          <6> HIDE DEF h, v, pt
          <6> QED
            BY <6>1, <3>2, ReplacementShows
        <5>2. CASE pt # Replacement
          <6>1. PICK x \in Seq(Octets) : s = Utf8Encode(pt) \o x
            <7>1. pt = Utf8Decode(s, 1).pt
              OBVIOUS
            <7> HIDE DEF h, v, pt
            <7>2. Opens(s, Utf8Encode(pt))
              BY <2>1, <5>2, <7>1, BytesOf
            <7> QED
              BY <7>2 DEF Opens
          <6>2. /\ Utf8Encode(pt) \in Seq(Octets) /\ Len(Utf8Encode(pt)) \in 1..4
                /\ WellFormedChar(Utf8Encode(pt))
            BY <4>1, ScalarIsBytes
          <6>3. ~ WellFormed8(x)
            BY <4>4, <6>1, <6>2, WellFormed8Joins
          <6>4. FromUtf8(s) = h \o FromUtf8(x)
            BY <4>1, <6>1, FromUtf8Type, ThereAndBack
          <6>5. Len(x) < Len(s)
            <7>1. /\ Len(s) = Len(Utf8Encode(pt)) + Len(x) /\ Len(x) \in Nat
                  /\ Len(Utf8Encode(pt)) \in Nat
              BY <6>1, <6>2, Joined
            <7>2. Len(Utf8Encode(pt)) > 0
              BY <4>1, ScalarIsBytes
            <7> HIDE DEF pt
            <7> QED
              BY SMT, <7>1, <7>2
          <6>6. x = t
            <7> DEFINE e == Utf8Encode(pt)
            <7>1. Len(e) = Len(c)
              <8>1. pt = Utf8Decode(s, 1).pt
                OBVIOUS
              <8> HIDE DEF h, v, pt
              <8> QED
                BY <2>1, <3>1, <5>2, <8>1, BytesOf
            <7>2. e \in Seq(Octets) /\ s = e \o x
              BY <6>1, <6>2
            <7> HIDE DEF e
            <7>3. /\ Len(s) = Len(e) + Len(x) /\ Len(x) \in Nat /\ Len(e) \in Nat
                  /\ \A i \in 1..Len(x) : s[Len(e) + i] = x[i]
              BY <7>2, Joined
            <7>3a. s = c \o t
              BY <3>1
            <7>3b. /\ Len(s) = Len(c) + Len(t) /\ Len(t) \in Nat
                   /\ \A i \in 1..Len(t) : s[Len(c) + i] = t[i]
              BY <7>3a, Joined
            <7>4. Len(x) = Len(t)
              BY SMT, <7>1, <7>3, <7>3b
            <7>5. \A i \in 1..Len(x) : x[i] = t[i]
              BY <7>1, <7>3, <7>3b, <7>4
            <7> QED
              BY <7>4, <7>5, SeqEqual
          <6>7. PICK i \in 1..Len(v) : v[i] = Replacement
            BY <4>2, <6>3, <6>6
          <6> DEFINE r == v[i]
          <6>8. r = Replacement
            BY <6>7
          <6> HIDE DEF r
          <6>9. /\ Len(h \o v) = Len(h) + Len(v) /\ Len(h) \in Nat /\ Len(v) \in Nat
                /\ (h \o v)[Len(h) + i] = r
            BY <3>2, <4>3, Joined DEF r
          <6> HIDE DEF h, v, pt
          <6>10. Len(h) + i \in 1..Len(h \o v)
            BY SMT, <6>9
          <6> QED
            BY <6>8, <6>9, <6>10
        <5> QED
          BY <5>1, <5>2
      <4>5. Arrived(s)
        <5> HIDE DEF h, v, pt
        <5> QED
          BY <3>1, <4>3, <4>4 DEF Arrived, v
      <4> QED
        BY <4>5
    <3> QED
      BY <3>3, <3>4, <3>5
  <2>2. CASE ~ (Len(s) > 0)
    <3>1. s = <<>>
      BY SMT, <2>2
    <3>2. WellFormed8(<<>>) /\ WellFormed16(<<>>) /\ FromUtf8(<<>>) = <<>>
      BY NothingIsWellFormed8, NothingIsWellFormed16, FromUtf8Nothing
    <3>3. Arrived(s)
      BY <3>1, <3>2, Zenon DEF Arrived
    <3> QED
      BY <3>3
  <2> QED
    BY <2>1, <2>2
<1>2. G \in SUBSET Seq(Octets)
  OBVIOUS
<1> HIDE DEF G
<1>3. \A s \in Seq(Octets) : s \in G
  BY <1>1, <1>2, TextInduction
<1> QED
  BY <1>3 DEF G

\* What the strings are made of.
TextInv ==
    /\ coding \in {"utf8", "utf16"}
    /\ coding = "utf8" => text \in Seq(Octets)
    /\ coding = "utf16" => text \in Seq(Shorts)

\* The bytes and units to convert are bytes and units.
LEMMA UnitsAreShort == Bytes \subseteq Octets /\ Units \subseteq Shorts
BY TextAssumption DEF Octets, Shorts

\* It holds in every state.
LEMMA TextInvHolds == TextSpec => []TextInv
<1>1. ASSUME TextInit PROVE TextInv
  <2>1. <<>> \in Seq(Octets) /\ <<>> \in Seq(Shorts)
    OBVIOUS
  <2> QED
    BY <1>1, <2>1 DEF TextInit, TextInv
<1>2. ASSUME TextInv, [TextNext]_textVars PROVE TextInv'
  <2>1. CASE TextNext
    <3>1. PICK u \in IF coding = "utf8" THEN Bytes ELSE Units : text' = Append(text, u)
      BY <2>1 DEF TextNext
    <3>2. coding' = coding
      BY <2>1 DEF TextNext
    <3>3. CASE coding = "utf8"
      <4>1. text \in Seq(Octets) /\ u \in Octets
        BY <1>2, <3>1, <3>3, UnitsAreShort DEF TextInv
      <4>2. text' \in Seq(Octets)
        BY <3>1, <4>1, AppendProperties
      <4> QED
        BY <3>2, <3>3, <4>2 DEF TextInv
    <3>4. CASE coding = "utf16"
      <4>1. text \in Seq(Shorts) /\ u \in Shorts
        BY <1>2, <3>1, <3>4, UnitsAreShort DEF TextInv
      <4>2. text' \in Seq(Shorts)
        BY <3>1, <4>1, AppendProperties
      <4> QED
        BY <3>2, <3>4, <4>2 DEF TextInv
    <3> QED
      BY <1>2, <3>3, <3>4 DEF TextInv
  <2>2. CASE UNCHANGED textVars
    BY <1>2, <2>2 DEF TextInv, textVars
  <2> QED
    BY <1>2, <2>1, <2>2
<1> QED
  BY <1>1, <1>2, PTL DEF TextSpec

\* Texts of any length come back as they went, from either side and by way of std::wstring
\* (djinni_support.cpp:418-469, 524-581).
THEOREM TextsSurviveTheBorder == TextSpec => []TextSurvives
<1>1. ASSUME TextInv PROVE TextSurvives
  <2>1. CASE coding = "utf8"
    <3>1. WellFormed8(text) => ToUtf8(FromUtf8(text)) = text
      BY <1>1, <2>1, BytesSurvive DEF TextInv
    <3> QED
      BY <2>1, <3>1, Zenon DEF TextSurvives
  <2>2. CASE coding = "utf16"
    <3>1. ASSUME WellFormed16(text)
          PROVE  /\ FromUtf8(ToUtf8(text)) = text
                 /\ \A beyond \in Units : FromWide(ToWide(text, beyond)) = text
      <4>1. text \in Seq(Shorts)
        BY <1>1, <2>2 DEF TextInv
      <4>2. 0 \in Shorts
        BY SMT DEF Shorts
      <4>3. FromUtf8(ToUtf8(text)) = text
        BY <3>1, <4>1, <4>2, UnitsSurvive
      <4>4. ASSUME NEW beyond \in Units PROVE FromWide(ToWide(text, beyond)) = text
        <5>1. beyond \in Shorts
          BY UnitsAreShort
        <5> QED
          BY <3>1, <4>1, <5>1, UnitsSurvive
      <4> QED
        BY <4>3, <4>4
    <3>2. coding # "utf8"
      BY <2>2
    <3> QED
      BY <2>2, <3>1, <3>2, Zenon DEF TextSurvives
  <2> QED
    BY <1>1, <2>1, <2>2 DEF TextInv
<1> QED
  BY <1>1, TextInvHolds, PTL

\* What arrives is well formed, whatever was sent, but for surrogates that were spelled out
\* (djinni_support.cpp:342-429, 478-539).
THEOREM TextsArriveWellFormed == TextSpec => []ArrivesWellFormed
<1>1. ASSUME TextInv PROVE ArrivesWellFormed
  <2>1. CASE coding = "utf8"
    <3> DEFINE java == FromUtf8(text)
    <3>1. Arrived(text) /\ DOMAIN java = 1..Len(java)
      <4>1. text \in Seq(Octets)
        BY <1>1, <2>1 DEF TextInv
      <4>2. java \in Seq(Shorts)
        BY <4>1, FromUtf8Type
      <4> HIDE DEF java
      <4>3. DOMAIN java = 1..Len(java)
        BY <4>2
      <4> QED
        BY <4>1, <4>3, BytesArrive
    <3>2. \/ SpellsSurrogate(text)
          \/ /\ WellFormed16(java)
             /\ ~ WellFormed8(text) => \E i \in DOMAIN java : java[i] = 65533
      <4>1. \/ SpellsSurrogate(text)
            \/ /\ WellFormed16(java)
               /\ ~ WellFormed8(text) => \E i \in DOMAIN java : java[i] = Replacement
        BY <3>1, Zenon DEF Arrived
      <4> QED
        BY SMT, <4>1 DEF Replacement
    <3>3. coding # "utf16"
      BY <2>1
    <3> QED
      BY <2>1, <3>2, <3>3 DEF ArrivesWellFormed
  <2>2. CASE coding = "utf16"
    <3>1. WellFormed8(ToUtf8(text)) /\ coding # "utf8"
      BY <1>1, <2>2, ToUtf8IsWellFormed DEF TextInv
    <3> QED
      BY <2>2, <3>1 DEF ArrivesWellFormed
  <2> QED
    BY <1>1, <2>1, <2>2 DEF TextInv
<1> QED
  BY <1>1, TextInvHolds, PTL
=============================================================================
