-------------------------- MODULE TrackFromProofs --------------------------
(***************************************************************************)
(* What is read of audio files.                                            *)
(***************************************************************************)
EXTENDS MpegFiles, FiniteSetTheorems, TLAPS

-----------------------------------------------------------------------------
(* Induction, by least counterexample                                      *)

\* A set of natural numbers has a least element.
LEMMA LeastNat ==
    ASSUME NEW T, T \subseteq Nat, T # {}
    PROVE  \E x \in T : \A y \in T : x <= y
<1> DEFINE below == {1..x : x \in T}
<1>1. IsWellFoundedOn(StrictSubsetOrdering(Nat), FiniteSubsetsOf(Nat))
  BY FS_StrictSubsetOrderingWellFounded
<1>2. below \subseteq FiniteSubsetsOf(Nat) /\ below # {}
  <2>1. ASSUME NEW x \in T PROVE 1..x \in FiniteSubsetsOf(Nat)
    <3>1. x \in Int /\ 1 \in Int
      OBVIOUS
    <3>2. IsFiniteSet(1..x)
      BY <3>1, FS_Interval
    <3> QED BY <3>2 DEF FiniteSubsetsOf
  <2> QED BY <2>1
<1>3. PICK b \in below : \A c \in below : <<c, b>> \notin StrictSubsetOrdering(Nat)
  <2> HIDE DEF below
  <2> QED BY <1>1, <1>2, WFMin
<1>4. PICK x \in T : b = 1..x
  BY <1>3
<1>5. ASSUME NEW y \in T, y < x PROVE FALSE
  <2>1. 1..y \subseteq 1..x /\ 1..y # 1..x
    <3>1. x \in 1..x /\ x \notin 1..y
      BY <1>5
    <3> QED BY <1>5, <3>1
  <2>2. <<1..y, 1..x>> \in StrictSubsetOrdering(Nat)
    BY <2>1 DEF StrictSubsetOrdering
  <2> QED BY <1>3, <1>4, <2>2
<1>6. \A y \in T : x <= y
  BY <1>5
<1> QED BY <1>6

\* A set of numbers up to n that has 0, and with each number the next, has all.
LEMMA Induction ==
    ASSUME NEW n \in Nat, NEW S, 0 \in S,
           \A i \in 1..n : i - 1 \in S => i \in S
    PROVE  \A i \in 0..n : i \in S
<1> DEFINE T == {i \in 0..n : i \notin S}
<1>1. ASSUME T # {} PROVE FALSE
  <2>1. PICK m \in T : \A y \in T : m <= y
    <3>1. T \subseteq Nat
      OBVIOUS
    <3> HIDE DEF T
    <3> QED BY <1>1, <3>1, LeastNat
  <2>2. m \in 1..n
    BY <2>1
  <2>3. m - 1 \notin T
    <3>1. ASSUME m - 1 \in T PROVE m <= m - 1
      <4> HIDE DEF T
      <4> QED BY <2>1, <3>1
    <3>2. m \in Int /\ ~(m <= m - 1)
      BY <2>2
    <3> HIDE DEF T
    <3> QED BY <3>1, <3>2
  <2>4. m - 1 \in S
    BY <2>2, <2>3
  <2> QED BY <2>1, <2>2, <2>4
<1> QED BY <1>1

-----------------------------------------------------------------------------
(* Characters                                                              *)

\* The bytes a unit is written as: one below 128,
LEMMA OneByte ==
    ASSUME NEW u \in Unit, u < 128
    PROVE  utf8_of(u) = <<u>>
BY DEF utf8_of, Unit

\* two below 2048, with five and six of its bits,
LEMMA TwoBytes ==
    ASSUME NEW u \in Unit, 128 <= u, u < 2048
    PROVE  utf8_of(u) = <<192 + u \div 64, 128 + (u % 64)>>
<1> DEFINE two == <<192 + u \div 64, 128 + (u % 64)>>
           three == <<224 + u \div 4096, 128 + ((u \div 64) % 64), 128 + (u % 64)>>
<1>1. ~(u < 128) BY DEF Unit
<1>2. utf8_of(u) = IF u < 128 THEN <<u>> ELSE IF u < 2048 THEN two ELSE three
  BY DEF utf8_of
<1> HIDE DEF two, three
<1>3. utf8_of(u) = two BY <1>1, <1>2
<1> QED BY <1>3 DEF two

\* and three above, with four, six and six.
LEMMA ThreeBytes ==
    ASSUME NEW u \in Unit, 2048 <= u
    PROVE  utf8_of(u) = <<224 + u \div 4096, 128 + ((u \div 64) % 64), 128 + (u % 64)>>
<1> DEFINE two == <<192 + u \div 64, 128 + (u % 64)>>
           three == <<224 + u \div 4096, 128 + ((u \div 64) % 64), 128 + (u % 64)>>
<1>1. ~(u < 128) /\ ~(u < 2048) BY DEF Unit
<1>2. utf8_of(u) = IF u < 128 THEN <<u>> ELSE IF u < 2048 THEN two ELSE three
  BY DEF utf8_of
<1> HIDE DEF two, three
<1>3. utf8_of(u) = three BY <1>1, <1>2
<1> QED BY <1>3 DEF three

\* A character that was written by utf8_of() is read back the same, and its first
\* byte tells its length: nothing but characters of four bytes changes between the
\* client and the database (ipod_string.c:134-230).
THEOREM UnitRoundTrip ==
    ASSUME NEW u \in Unit
    PROVE  /\ utf16_of(utf8_of(u), 1) = u
           /\ char_length(utf8_of(u)[1]) = Len(utf8_of(u))
<1>1. CASE u < 128
  <2>1. utf8_of(u) = <<u>> BY <1>1, OneByte
  <2>2. char_length(u) = 1 BY <1>1 DEF char_length, Unit
  <2>3. utf16_of(<<u>>, 1) = u BY <2>2 DEF utf16_of
  <2> QED BY <2>1, <2>2, <2>3
<1>2. CASE 128 <= u /\ u < 2048
  <2> DEFINE a == 192 + u \div 64
             b == 128 + (u % 64)
  <2>1. utf8_of(u) = <<a, b>> BY <1>2, TwoBytes
  <2>2. u \div 64 \in 2 .. 31 /\ u % 64 \in 0 .. 63 /\ u = 64 * (u \div 64) + (u % 64)
    BY <1>2, SMTT(30) DEF Unit
  <2>3. a \in 194 .. 223 /\ b \in 128 .. 191 /\ a % 32 = u \div 64 /\ b % 64 = u % 64
    BY <2>2
  <2> HIDE DEF a, b
  <2>4. char_length(a) = 2 BY <2>3 DEF char_length
  <2>5. utf16_of(<<a, b>>, 1) = (a % 32) * 64 + (b % 64)
    <3>1. At(<<a, b>>, 2) = b BY DEF At
    <3> QED BY <2>4, <3>1 DEF utf16_of
  <2> QED BY <2>1, <2>2, <2>3, <2>4, <2>5
<1>3. CASE 2048 <= u
  <2> DEFINE a == 224 + u \div 4096
             b == 128 + ((u \div 64) % 64)
             c == 128 + (u % 64)
  <2>1. utf8_of(u) = <<a, b, c>> BY <1>3, ThreeBytes
  <2>2. u \in Nat /\ u <= 65535 BY DEF Unit
  <2>3. u \div 64 \in 0 .. 1023 /\ u % 64 \in 0 .. 63 /\ u = 64 * (u \div 64) + (u % 64)
    BY <2>2
  <2>4. u \div 4096 \in 0 .. 15 /\ u \div 4096 = (u \div 64) \div 64
    BY <2>2
  <2>5. (u \div 64) % 64 \in 0 .. 63 /\ u \div 64 = 64 * (u \div 4096) + ((u \div 64) % 64)
    BY <2>3, <2>4, SMTT(30)
  <2>6. a \in 224 .. 239 /\ a % 16 = u \div 4096 BY <2>4
  <2>7. b \in 128 .. 191 /\ b % 64 = (u \div 64) % 64 BY <2>5
  <2>8. c \in 128 .. 191 /\ c % 64 = u % 64 BY <2>3
  <2> HIDE DEF a, b, c
  <2>9. char_length(a) = 3 BY <2>6 DEF char_length
  <2>10. utf16_of(<<a, b, c>>, 1) = ((a % 16) * 64 + (b % 64)) * 64 + (c % 64)
    <3>1. At(<<a, b, c>>, 2) = b /\ At(<<a, b, c>>, 3) = c BY DEF At
    <3> QED BY <2>9, <3>1 DEF utf16_of
  <2>11. utf16_of(<<a, b, c>>, 1) = u
    BY <2>3, <2>5, <2>6, <2>7, <2>8, <2>10
  <2> QED BY <2>1, <2>9, <2>11
<1> QED BY <1>1, <1>2, <1>3 DEF Unit

\* The bytes that utf16_to_utf8_length() counts for a character are enough for
\* those utf16_to_utf8() writes, but for the characters 0880 to 08FF, whose sign
\* makes them look smaller (ipod_string.c:122).
THEOREM LengthSuffices ==
    ASSUME NEW u \in Unit, u \notin 2176 .. 2303
    PROVE  Len(utf8_of(u)) <= utf8_length_of(u)
<1>1. u \in Nat /\ u <= 65535 BY DEF Unit
<1>2. utf8_length_of(u) = IF signed_unit(u) < 128 THEN 1 ELSE IF signed_unit(u) < 2048 THEN 2 ELSE 3
  BY DEF utf8_length_of
<1>3. Len(utf8_of(u)) = IF u < 128 THEN 1 ELSE IF u < 2048 THEN 2 ELSE 3
  <2>1. CASE u < 128 BY <2>1, OneByte
  <2>2. CASE 128 <= u /\ u < 2048
    <3>1. Len(<<192 + u \div 64, 128 + (u % 64)>>) = 2 OBVIOUS
    <3> QED BY <1>1, <2>2, <3>1, TwoBytes
  <2>3. CASE 2048 <= u
    <3>1. Len(<<224 + u \div 4096, 128 + ((u \div 64) % 64), 128 + (u % 64)>>) = 3 OBVIOUS
    <3> QED BY <1>1, <2>3, <3>1, ThreeBytes
  <2> QED BY <1>1, <2>1, <2>2, <2>3
<1>4. CASE u % 256 < 128
  <2>1. signed_unit(u) = u BY <1>4 DEF signed_unit
  <2> QED BY <1>1, <1>2, <1>3, <2>1
<1>5. CASE 128 <= u % 256
  <2>1. signed_unit(u) = (u - 256) % 65536 BY <1>1, <1>5 DEF signed_unit
  <2>2. CASE u < 256
    <3>1. 128 <= u BY <1>1, <1>5, <2>2
    <3>2. (u - 256) % 65536 = u + 65280 BY <1>1, <2>2
    <3> QED BY <1>1, <1>2, <1>3, <2>1, <2>2, <3>1, <3>2
  <2>3. CASE 256 <= u
    <3>1. (u - 256) % 65536 = u - 256 BY <1>1, <2>3
    <3>2. 384 <= u BY <1>1, <1>5, <2>3
    <3>3. u < 2048 \/ 2304 <= u BY <1>1, <1>5
    <3> QED BY <1>1, <1>2, <1>3, <2>1, <3>1, <3>2, <3>3
  <2> QED BY <1>1, <2>2, <2>3
<1> QED BY <1>1, <1>4, <1>5

-----------------------------------------------------------------------------
(* Texts                                                                   *)

LEMMA Joined ==
    ASSUME NEW a \in Seq(Byte), NEW b \in Seq(Byte)
    PROVE  /\ a \o b \in Seq(Byte) /\ Len(a \o b) = Len(a) + Len(b)
           /\ \A i \in 1 .. Len(a) : (a \o b)[i] = a[i]
           /\ \A i \in 1 .. Len(b) : (a \o b)[Len(a) + i] = b[i]
OBVIOUS

\* A unit is written as one to three bytes, none of them zero but for the unit 0.
LEMMA CharacterBytes ==
    ASSUME NEW u \in Unit
    PROVE  /\ utf8_of(u) \in Seq(Byte) /\ Len(utf8_of(u)) \in 1 .. 3
           /\ u # 0 => \A i \in DOMAIN utf8_of(u) : utf8_of(u)[i] # 0
<1>0. u \in Nat /\ u <= 65535
  BY DEF Unit
<1>1. CASE u < 128
  <2>1. utf8_of(u) = <<u>>
    BY <1>1, OneByte
  <2>2. u \in Byte
    BY <1>0, <1>1 DEF Byte
  <2> QED BY <2>1, <2>2
<1>2. CASE 128 <= u /\ u < 2048
  <2> DEFINE a == 192 + u \div 64
             b == 128 + (u % 64)
  <2>1. utf8_of(u) = <<a, b>>
    BY <1>2, TwoBytes
  <2>2. a \in 194 .. 223 /\ b \in 128 .. 191
    BY <1>0, <1>2
  <2> HIDE DEF a, b
  <2>3. a \in Byte /\ b \in Byte /\ a # 0 /\ b # 0
    BY <2>2 DEF Byte
  <2>4. <<a, b>> \in Seq(Byte) /\ Len(<<a, b>>) = 2 /\ \A i \in 1 .. 2 : <<a, b>>[i] # 0
    BY <2>3
  <2> QED BY <2>1, <2>4
<1>3. CASE 2048 <= u
  <2> DEFINE a == 224 + u \div 4096
             b == 128 + ((u \div 64) % 64)
             c == 128 + (u % 64)
  <2>1. utf8_of(u) = <<a, b, c>>
    BY <1>3, ThreeBytes
  <2>2. a \in 224 .. 239 /\ b \in 128 .. 191 /\ c \in 128 .. 191
    BY <1>0, <1>3
  <2> HIDE DEF a, b, c
  <2>3. a \in Byte /\ b \in Byte /\ c \in Byte /\ a # 0 /\ b # 0 /\ c # 0
    BY <2>2 DEF Byte
  <2>4. <<a, b, c>> \in Seq(Byte) /\ Len(<<a, b, c>>) = 3 /\ \A i \in 1 .. 3 : <<a, b, c>>[i] # 0
    BY <2>3
  <2> QED BY <2>1, <2>4
<1> QED BY <1>0, <1>1, <1>2, <1>3

\* The characters of a text, the k-th of them from cut[k - 1] on.
IsText(s, units, cut) ==
    /\ s \in Seq(Byte) /\ units \in Seq(Unit)
    /\ cut \in [0 .. Len(units) -> Nat] /\ cut[0] = 0 /\ cut[Len(units)] = Len(s)
    /\ \A k \in 1 .. Len(units) : cut[k] = cut[k - 1] + Len(utf8_of(units[k]))
    /\ \A k \in 1 .. Len(units) : \A i \in 1 .. Len(utf8_of(units[k])) :
           s[cut[k - 1] + i] = utf8_of(units[k])[i]

\* The characters are in their order, and within the text.
LEMMA CutsRise ==
    ASSUME NEW s, NEW units, NEW cut, IsText(s, units, cut), NEW m \in 0 .. Len(units), NEW k \in 0 .. m
    PROVE  cut[k] <= cut[m]
<1>1. PICK n \in Nat : n = Len(units)
  BY DEF IsText
<1>2. /\ cut \in [0 .. n -> Nat]
      /\ \A j \in 1 .. n : units[j] \in Unit /\ cut[j] = cut[j - 1] + Len(utf8_of(units[j]))
  BY <1>1 DEF IsText
<1> DEFINE S == {j \in 0 .. n : \A i \in 0 .. j : cut[i] <= cut[j]}
<1>3. 0 \in S
  <2>1. cut[0] <= cut[0] /\ \A i \in 0 .. 0 : i = 0
    BY <1>2
  <2> QED BY <2>1
<1>4. ASSUME NEW j \in 1 .. n, j - 1 \in S PROVE j \in S
  <2>1. units[j] \in Unit
    BY <1>2
  <2>2. Len(utf8_of(units[j])) \in Nat
    BY <2>1, CharacterBytes
  <2>3. cut[j] = cut[j - 1] + Len(utf8_of(units[j])) /\ cut[j - 1] \in Nat /\ cut[j] \in Nat
    BY <1>2
  <2>4. cut[j - 1] <= cut[j]
    BY <2>2, <2>3
  <2>5. ASSUME NEW i \in 0 .. j PROVE cut[i] <= cut[j]
    <3>1. CASE i = j
      BY <2>3, <3>1
    <3>2. CASE i # j
      <4>1. i \in 0 .. j - 1 /\ i \in 0 .. n
        BY <3>2
      <4>2. cut[i] <= cut[j - 1] /\ cut[i] \in Nat
        BY <1>2, <1>4, <4>1
      <4> QED BY <2>3, <2>4, <4>2
    <3> QED BY <3>1, <3>2
  <2> QED BY <2>5
<1>5. \A j \in 0 .. n : j \in S
  <2> HIDE DEF S
  <2> QED BY <1>3, <1>4, Induction
<1>6. m \in S
  <2> HIDE DEF S
  <2> QED BY <1>1, <1>5
<1> QED BY <1>6

LEMMA CutsWithin ==
    ASSUME NEW s, NEW units, NEW cut, IsText(s, units, cut), NEW k \in 0 .. Len(units)
    PROVE  cut[k] <= Len(s)
<1>1. Len(units) \in 0 .. Len(units) /\ cut[Len(units)] = Len(s)
  BY DEF IsText
<1> QED BY <1>1, CutsRise

\* One character more.
LEMMA TextGrows ==
    ASSUME NEW n \in Nat, NEW units \in Seq(Unit), Len(units) = n + 1,
           NEW s, NEW cut, IsText(s, SubSeq(units, 1, n), cut)
    PROVE  \E c : IsText(s \o utf8_of(units[n + 1]), units, c)
<1> DEFINE before == SubSeq(units, 1, n)
           last == utf8_of(units[n + 1])
           c == [k \in 0 .. n + 1 |-> IF k = n + 1 THEN Len(s) + Len(last) ELSE cut[k]]
           t == s \o last
<1>1. before \in Seq(Unit) /\ Len(before) = n /\ \A k \in 1 .. n : before[k] = units[k]
  OBVIOUS
<1>2. units[n + 1] \in Unit
  OBVIOUS
<1>3. last \in Seq(Byte) /\ Len(last) \in Nat
  BY <1>2, CharacterBytes
<1>4. s \in Seq(Byte) /\ Len(s) \in Nat
  BY DEF IsText
<1> HIDE DEF before, last
<1>5. /\ cut \in [0 .. n -> Nat] /\ cut[0] = 0 /\ cut[n] = Len(s)
      /\ \A k \in 1 .. n : cut[k] = cut[k - 1] + Len(utf8_of(units[k]))
      /\ \A k \in 1 .. n : \A i \in 1 .. Len(utf8_of(units[k])) :
             s[cut[k - 1] + i] = utf8_of(units[k])[i]
  <2>1. IsText(s, before, cut)
    BY DEF before
  <2>2. /\ cut \in [0 .. n -> Nat] /\ cut[0] = 0 /\ cut[n] = Len(s)
        /\ \A k \in 1 .. n : cut[k] = cut[k - 1] + Len(utf8_of(before[k]))
        /\ \A k \in 1 .. n : \A i \in 1 .. Len(utf8_of(before[k])) :
               s[cut[k - 1] + i] = utf8_of(before[k])[i]
    BY ONLY <1>1, <2>1 DEF IsText
  <2> QED BY ONLY <1>1, <2>2, SMTT(30)
<1>6. t \in Seq(Byte) /\ Len(t) = Len(s) + Len(last)
      /\ (\A i \in 1 .. Len(s) : t[i] = s[i])
      /\ (\A i \in 1 .. Len(last) : t[Len(s) + i] = last[i])
  BY ONLY <1>3, <1>4, Joined
<1> HIDE DEF t
<1>7. c \in [0 .. n + 1 -> Nat] /\ c[n + 1] = Len(t) /\ \A k \in 0 .. n : c[k] = cut[k]
  BY <1>3, <1>4, <1>5, <1>6
<1> HIDE DEF c
<1>8. c[0] = 0
  BY <1>5, <1>7
<1>9. ASSUME NEW k \in 1 .. n + 1
      PROVE  /\ c[k] = c[k - 1] + Len(utf8_of(units[k]))
             /\ \A i \in 1 .. Len(utf8_of(units[k])) : t[c[k - 1] + i] = utf8_of(units[k])[i]
  <2>1. CASE k = n + 1
    <3>1. k - 1 = n /\ n \in 0 .. n
      BY <2>1
    <3>2. c[k - 1] = Len(s) /\ utf8_of(units[k]) = last
      BY <1>5, <1>7, <2>1, <3>1 DEF last
    <3> QED BY <1>6, <1>7, <2>1, <3>2
  <2>2. CASE k # n + 1
    <3>1. k \in 1 .. n /\ k - 1 \in 0 .. n /\ k \in 0 .. n
      BY <2>2
    <3>2. c[k] = cut[k] /\ c[k - 1] = cut[k - 1]
      BY <1>7, <3>1
    <3>3. units[k] \in Unit
      BY <3>1
    <3>4. Len(utf8_of(units[k])) \in Nat
      BY <3>3, CharacterBytes
    <3>5. cut[k - 1] \in Nat /\ cut[k] = cut[k - 1] + Len(utf8_of(units[k]))
      BY <1>5, <3>1
    <3>6. cut[k] <= Len(s)
      BY <1>1, <3>1, CutsWithin DEF before
    <3>7. ASSUME NEW i \in 1 .. Len(utf8_of(units[k]))
          PROVE  t[cut[k - 1] + i] = utf8_of(units[k])[i]
      <4>1. cut[k - 1] + i \in 1 .. Len(s)
        BY <1>4, <3>4, <3>5, <3>6
      <4>2. s[cut[k - 1] + i] = utf8_of(units[k])[i]
        BY <1>5, <3>1
      <4> QED BY <1>6, <4>1, <4>2
    <3> QED BY <3>2, <3>5, <3>7
  <2> QED BY <2>1, <2>2
<1>10. IsText(t, units, c)
  BY <1>6, <1>7, <1>8, <1>9 DEF IsText
<1> QED BY <1>10 DEF t, last

\* The recursive function in FlattenSeq() exists, and joins prefixes.
LEMMA FlattenPrefixes ==
    ASSUME NEW ss \in Seq(Seq(Byte)), Len(ss) # 0
    PROVE  \E h \in [1..Len(ss) -> Seq(Byte)] :
              /\ \A i \in 1..Len(ss) : h[i] = IF i = 1 THEN ss[i] ELSE h[i - 1] \o ss[i]
              /\ FlattenSeq(ss) = h[Len(ss)]
<1>1. PICK n \in Nat : n = Len(ss) /\ n # 0 /\ \A i \in 1..n : ss[i] \in Seq(Byte)
  OBVIOUS
<1> DEFINE Joins(h, m) == \A i \in 1..m : h[i] = IF i = 1 THEN ss[i] ELSE h[i - 1] \o ss[i]
           S == {m \in 0..n : \E h \in [1..m -> Seq(Byte)] : Joins(h, m)}
<1>2. 0 \in S
  <2>1. [i \in 1..0 |-> <<>>] \in [1..0 -> Seq(Byte)]
    OBVIOUS
  <2>2. Joins([i \in 1..0 |-> <<>>], 0)
    OBVIOUS
  <2> HIDE DEF Joins
  <2>3. \E h \in [1..0 -> Seq(Byte)] : Joins(h, 0)
    BY <2>1, <2>2
  <2>4. 0 \in 0..n
    BY <1>1
  <2> QED BY <2>3, <2>4
<1>3. ASSUME NEW m \in 1..n, m - 1 \in S PROVE m \in S
  <2>1. PICK h \in [1..m - 1 -> Seq(Byte)] : Joins(h, m - 1)
    BY <1>3
  <2> DEFINE last == IF m = 1 THEN ss[m] ELSE h[m - 1] \o ss[m]
             g == [i \in 1..m |-> IF i = m THEN last ELSE h[i]]
  <2>2. last \in Seq(Byte)
    <3>1. CASE m = 1
      BY <1>1, <3>1
    <3>2. CASE m # 1
      <4>1. h[m - 1] \in Seq(Byte) /\ ss[m] \in Seq(Byte)
        BY <1>1, <3>2
      <4> QED BY <3>2, <4>1, Joined
    <3> QED BY <3>1, <3>2
  <2>3. g[m] = last /\ \A i \in 1..m - 1 : g[i] = h[i]
    <3> HIDE DEF last
    <3> QED OBVIOUS
  <2>4. g \in [1..m -> Seq(Byte)]
    <3> HIDE DEF last
    <3> QED BY <2>2
  <2> HIDE DEF g
  <2>5. ASSUME NEW i \in 1..m PROVE g[i] = IF i = 1 THEN ss[i] ELSE g[i - 1] \o ss[i]
    <3>1. CASE i = m
      <4>1. m # 1 => g[m - 1] = h[m - 1]
        BY <2>3
      <4> QED BY <2>3, <3>1, <4>1
    <3>2. CASE i # m
      <4>1. i \in 1..m - 1 /\ (i # 1 => i - 1 \in 1..m - 1)
        BY <3>2
      <4>2. h[i] = IF i = 1 THEN ss[i] ELSE h[i - 1] \o ss[i]
        BY <2>1, <4>1
      <4> QED BY <2>3, <4>1, <4>2
    <3> QED BY <3>1, <3>2
  <2>6. Joins(g, m)
    BY <2>5
  <2> HIDE DEF Joins
  <2>7. \E e \in [1..m -> Seq(Byte)] : Joins(e, m)
    BY <2>4, <2>6
  <2> QED BY <2>7
<1>4. n \in S
  <2> HIDE DEF S
  <2>1. \A i \in 0..n : i \in S
    BY <1>2, <1>3, Induction
  <2>2. n \in 0..n
    BY <1>1
  <2> QED BY <2>1, <2>2
<1>5. PICK h0 \in [1..n -> Seq(Byte)] : Joins(h0, n)
  BY <1>4
<1> DEFINE h == CHOOSE h : h = [i \in 1..n |-> IF i = 1 THEN ss[i] ELSE h[i - 1] \o ss[i]]
<1>6. h = [i \in 1..n |-> IF i = 1 THEN ss[i] ELSE h[i - 1] \o ss[i]]
  <2>1. h0 = [i \in 1..n |-> IF i = 1 THEN ss[i] ELSE h0[i - 1] \o ss[i]]
    BY <1>5
  <2> QED BY <2>1
<1>7. FlattenSeq(ss) = h[n]
  BY <1>1 DEF FlattenSeq
<1> HIDE DEF h
<1>8. Joins(h, n)
  BY <1>6
<1>9. \A i \in 0..n : i \in {j \in 0..n : j = 0 \/ h[j] \in Seq(Byte)}
  <2> DEFINE Fs == {j \in 0..n : j = 0 \/ h[j] \in Seq(Byte)}
  <2>1. 0 \in Fs
    BY <1>1
  <2>2. ASSUME NEW i \in 1..n, i - 1 \in Fs PROVE i \in Fs
    <3>1. h[i] = IF i = 1 THEN ss[i] ELSE h[i - 1] \o ss[i]
      BY <1>8
    <3>2. ss[i] \in Seq(Byte) /\ (i # 1 => h[i - 1] \in Seq(Byte))
      BY <1>1, <2>2
    <3>3. h[i] \in Seq(Byte)
      BY <3>1, <3>2, Joined
    <3> QED BY <3>3
  <2> HIDE DEF Fs
  <2>3. \A i \in 0..n : i \in Fs
    BY <2>1, <2>2, Induction
  <2> QED BY <2>3 DEF Fs
<1>10. h \in [1..n -> Seq(Byte)]
  <2>1. \A i \in 1..n : h[i] \in Seq(Byte)
    BY <1>9
  <2>2. h = [i \in 1..n |-> h[i]]
    BY <1>6
  <2> QED BY <2>1, <2>2
<1> QED BY <1>1, <1>7, <1>8, <1>10

\* All characters, one behind the other.
LEMMA TextWritten ==
    ASSUME NEW units \in Seq(Unit)
    PROVE  \E cut : IsText(utf16_to_utf8[units], units, cut)
<1> DEFINE ss == [i \in DOMAIN units |-> utf8_of(units[i])]
<1>1. PICK n \in Nat : n = Len(units)
  OBVIOUS
<1>2. \A i \in 1 .. n : units[i] \in Unit /\ ss[i] = utf8_of(units[i])
  BY <1>1
<1>3. \A i \in 1 .. n : utf8_of(units[i]) \in Seq(Byte)
  BY <1>2, CharacterBytes
<1>4. ss \in Seq(Seq(Byte)) /\ Len(ss) = n
  <2>1. DOMAIN ss = 1 .. n
    BY <1>1
  <2>2. ss \in [1 .. n -> Seq(Byte)]
    BY <1>1, <1>3
  <2> HIDE DEF ss
  <2> QED BY <1>1, <2>1, <2>2
<1>5. utf16_to_utf8[units] = FlattenSeq(ss)
  BY DEF utf16_to_utf8
<1> HIDE DEF ss
<1>6. CASE n = 0
  <2>1. FlattenSeq(ss) = <<>>
    <3>1. ss = <<>>
      BY <1>4, <1>6
    <3> QED BY <3>1 DEF FlattenSeq
  <2>2. IsText(<<>>, units, [i \in 0 .. 0 |-> 0])
    BY <1>1, <1>6 DEF IsText
  <2> QED BY <1>5, <2>1, <2>2
<1>7. CASE n # 0
  <2>1. PICK h \in [1 .. n -> Seq(Byte)] :
              /\ \A i \in 1 .. n : h[i] = IF i = 1 THEN ss[i] ELSE h[i - 1] \o ss[i]
              /\ FlattenSeq(ss) = h[n]
    BY <1>4, <1>7, FlattenPrefixes
  <2> DEFINE S == {i \in 0 .. n : i = 0 \/ \E cut : IsText(h[i], SubSeq(units, 1, i), cut)}
  <2>2. 0 \in S
    OBVIOUS
  <2>3. ASSUME NEW i \in 1 .. n, i - 1 \in S PROVE i \in S
    <3> DEFINE before == SubSeq(units, 1, i - 1)
               upto == SubSeq(units, 1, i)
    <3>1. upto \in Seq(Unit) /\ Len(upto) = i - 1 + 1 /\ upto[i - 1 + 1] = units[i]
          /\ SubSeq(upto, 1, i - 1) = before
      <4>1. i \in Nat /\ i <= n /\ i - 1 + 1 = i /\ i - 1 \in Nat
        OBVIOUS
      <4>2. upto \in Seq(Unit) /\ Len(upto) = i /\ \A j \in 1 .. i : upto[j] = units[j]
        BY <1>1, <4>1
      <4>3. before \in Seq(Unit) /\ Len(before) = i - 1 /\ \A j \in 1 .. i - 1 : before[j] = units[j]
        BY <1>1, <4>1
      <4> HIDE DEF upto, before
      <4>4. SubSeq(upto, 1, i - 1) \in Seq(Unit) /\ Len(SubSeq(upto, 1, i - 1)) = i - 1
            /\ \A j \in 1 .. i - 1 : SubSeq(upto, 1, i - 1)[j] = upto[j]
        BY <4>1, <4>2
      <4>5. ASSUME NEW j \in 1 .. i - 1 PROVE SubSeq(upto, 1, i - 1)[j] = before[j]
        <5>1. j \in 1 .. i
          BY <4>1
        <5>2. upto[j] = units[j] /\ before[j] = units[j] /\ SubSeq(upto, 1, i - 1)[j] = upto[j]
          BY <4>2, <4>3, <4>4, <5>1
        <5> QED BY <5>2
      <4>6. SubSeq(upto, 1, i - 1) = before
        BY <4>1, <4>3, <4>4, <4>5
      <4> QED BY <4>1, <4>2, <4>6
    <3> HIDE DEF upto, before
    <3>2. \E cut : IsText(IF i = 1 THEN <<>> ELSE h[i - 1], before, cut)
      <4>1. CASE i = 1
        <5>1. before \in Seq(Unit) /\ Len(before) = 0
          BY <1>1, <4>1 DEF before
        <5>2. IsText(<<>>, before, [j \in 0 .. 0 |-> 0])
          BY <5>1 DEF IsText
        <5> QED BY <4>1, <5>2
      <4>2. CASE i # 1
        BY <2>3, <4>2 DEF before
      <4> QED BY <4>1, <4>2
    <3>3. PICK b \in Seq(Byte) : \E cut : IsText(b, before, cut) /\ h[i] = b \o utf8_of(units[i])
      <4>1. CASE i = 1
        <5>1. utf8_of(units[i]) \in Seq(Byte) /\ h[i] = utf8_of(units[i])
          BY <1>2, <1>3, <2>1, <4>1
        <5>2. <<>> \o utf8_of(units[i]) = utf8_of(units[i])
          BY <5>1
        <5>3. h[i] = <<>> \o utf8_of(units[i]) /\ <<>> \in Seq(Byte)
          BY <5>1, <5>2
        <5>4. \E cut : IsText(<<>>, before, cut)
          BY <3>2, <4>1
        <5> QED BY <5>3, <5>4
      <4>2. CASE i # 1
        <5>1. i - 1 \in 1 .. n
          BY <4>2
        <5>2. h[i] = h[i - 1] \o utf8_of(units[i]) /\ h[i - 1] \in Seq(Byte)
          BY <1>2, <2>1, <4>2, <5>1
        <5> QED BY <3>2, <4>2, <5>2
      <4> QED BY <4>1, <4>2
    <3>4. PICK cut : IsText(b, before, cut)
      BY <3>3
    <3>5. PICK m \in Nat : m = i - 1
      OBVIOUS
    <3>6. \E c : IsText(b \o utf8_of(upto[m + 1]), upto, c)
      BY <3>1, <3>4, <3>5, TextGrows
    <3>7. \E c : IsText(h[i], upto, c)
      BY <3>1, <3>3, <3>5, <3>6
    <3> QED BY <3>7 DEF upto
  <2>4. \A i \in 0 .. n : i \in S
    <3> HIDE DEF S
    <3> QED BY <2>2, <2>3, Induction
  <2>5. \E cut : IsText(h[n], SubSeq(units, 1, n), cut)
    BY <1>7, <2>4
  <2>6. SubSeq(units, 1, n) = units
    BY <1>1
  <2> QED BY <1>5, <2>1, <2>5, <2>6
<1> QED BY <1>6, <1>7

-----------------------------------------------------------------------------
(* Texts that are read back                                                *)

\* What is read of a text of characters: at the beginning of each there is it.
LEMMA CharacterRead ==
    ASSUME NEW s, NEW units, NEW cut, IsText(s, units, cut), NEW k \in 1 .. Len(units)
    PROVE  /\ cut[k - 1] \in Nat /\ cut[k - 1] + 1 \in 1 .. Len(s)
           /\ char_length(s[cut[k - 1] + 1]) \in 1 .. 3
           /\ cut[k] = cut[k - 1] + char_length(s[cut[k - 1] + 1])
           /\ utf16_of(s, cut[k - 1] + 1) = units[k]
           /\ s[cut[k - 1] + 1] < 240
<1>1. PICK n \in Nat : n = Len(units) /\ k \in 1 .. n /\ k - 1 \in 0 .. n
  BY DEF IsText
<1> DEFINE c == utf8_of(units[k])
<1>2. units[k] \in Unit /\ s \in Seq(Byte) /\ cut[k - 1] \in Nat /\ cut[k] = cut[k - 1] + Len(c)
      /\ \A i \in 1 .. Len(c) : s[cut[k - 1] + i] = c[i]
  BY <1>1 DEF IsText
<1>3. c \in Seq(Byte) /\ Len(c) \in 1 .. 3 /\ char_length(c[1]) = Len(c) /\ utf16_of(c, 1) = units[k]
  BY <1>2, CharacterBytes, UnitRoundTrip
<1>4. cut[k] <= Len(s) /\ Len(s) \in Nat
  BY <1>1, <1>2, CutsWithin
<1> HIDE DEF c
<1>5. PICK p \in Nat : p = cut[k - 1]
  BY <1>2
<1>6. p + Len(c) <= Len(s) /\ p + 1 \in 1 .. Len(s)
  BY <1>2, <1>3, <1>4, <1>5, SMTT(30)
<1>7. ASSUME NEW i \in 1 .. Len(c) PROVE s[p + i] = c[i] /\ p + i \in DOMAIN s /\ i \in DOMAIN c
  <2>1. s[p + i] = c[i]
    BY <1>2, <1>5
  <2>2. p + i \in 1 .. Len(s)
    BY <1>3, <1>4, <1>6
  <2> QED BY <1>2, <1>3, <2>1, <2>2
<1>8. s[p + 1] = c[1] /\ char_length(s[p + 1]) = Len(c)
  BY <1>3, <1>7
<1>9. c[1] \in Nat
  <2>1. c[1] \in Byte
    BY <1>3
  <2>2. \A b \in Byte : b \in Nat
    BY DEF Byte
  <2> QED BY <2>1, <2>2
<1>10. s[p + 1] < 240
  <2>1. \A b \in Nat : char_length(b) \in 1 .. 3 => b < 240
    BY DEF char_length
  <2> QED BY <1>3, <1>8, <1>9, <2>1
<1>11. utf16_of(s, p + 1) = utf16_of(c, 1)
  <2>1. CASE Len(c) = 1
    BY <1>3, <1>8, <2>1 DEF utf16_of
  <2>2. CASE Len(c) = 2
    <3>1. At(s, p + 1 + 1) = c[2] /\ At(c, 1 + 1) = c[2]
      <4>1. 2 \in 1 .. Len(c) /\ p + 1 + 1 = p + 2 /\ 1 + 1 = 2
        BY <2>2
      <4> QED BY <1>7, <4>1 DEF At
    <3> QED BY <1>3, <1>8, <2>2, <3>1 DEF utf16_of
  <2>3. CASE Len(c) = 3
    <3>1. At(s, p + 1 + 1) = c[2] /\ At(c, 1 + 1) = c[2]
      <4>1. 2 \in 1 .. Len(c) /\ p + 1 + 1 = p + 2 /\ 1 + 1 = 2
        BY <2>3
      <4> QED BY <1>7, <4>1 DEF At
    <3>2. At(s, p + 1 + 2) = c[3] /\ At(c, 1 + 2) = c[3]
      <4>1. 3 \in 1 .. Len(c) /\ p + 1 + 2 = p + 3 /\ 1 + 2 = 3
        BY <2>3
      <4> QED BY <1>7, <4>1 DEF At
    <3> QED BY <1>3, <1>8, <2>3, <3>1, <3>2 DEF utf16_of
  <2> QED BY <1>3, <2>1, <2>2, <2>3
<1> QED BY <1>2, <1>3, <1>5, <1>6, <1>8, <1>10, <1>11

\* The function in utf8_to_utf16[] exists.
LEMMA UnitsExist ==
    ASSUME NEW s \in Seq(Byte)
    PROVE  \E g : /\ g = [i \in Nat |->
                            IF i > Len(s) THEN <<>>
                            ELSE CASE char_length(s[i]) = 0 -> g[i + 1]
                                   [] char_length(s[i]) = 4 -> <<utf16_of(s, i)>> \o g[i + 1]
                                   [] OTHER -> <<utf16_of(s, i)>> \o g[i + char_length(s[i])]]
                  /\ utf8_to_utf16[s] = g[1]
<1> DEFINE Rest(g, i) == IF i > Len(s) THEN <<>>
                         ELSE CASE char_length(s[i]) = 0 -> g[i + 1]
                                [] char_length(s[i]) = 4 -> <<utf16_of(s, i)>> \o g[i + 1]
                                [] OTHER -> <<utf16_of(s, i)>> \o g[i + char_length(s[i])]
           F == CHOOSE g : g = [i \in Nat |-> Rest(g, i)]
<1>1. PICK n \in Nat : n = Len(s)
  OBVIOUS
<1>2. \A i : char_length(s[i]) \in {0, 1, 2, 3, 4}
  BY DEF char_length
\* Only later values matter.
<1>3. ASSUME NEW f, NEW g, NEW i \in Nat, \A j \in Nat : j > i => f[j] = g[j]
      PROVE  Rest(f, i) = Rest(g, i)
  <2>1. f[i + 1] = g[i + 1]
    BY <1>3
  <2>2. CASE char_length(s[i]) \in {0, 4}
    <3> QED BY <2>1, <2>2
  <2>3. CASE char_length(s[i]) \notin {0, 4}
    <3>1. char_length(s[i]) \in {1, 2, 3}
      BY <1>2, <2>3
    <3>2. f[i + char_length(s[i])] = g[i + char_length(s[i])]
      BY <1>3, <3>1
    <3> QED BY <2>3, <3>2
  <2> QED BY <2>2, <2>3
<1> HIDE DEF Rest
<1>4. \A g : \A i \in Nat : i > n => Rest(g, i) = <<>>
  BY <1>1 DEF Rest
<1> DEFINE From(m, g) == /\ g = [i \in Nat |-> g[i]]
                         /\ \A i \in Nat : i + m > n => g[i] = Rest(g, i)
           S == {m \in 0 .. n + 1 : \E g : From(m, g)}
<1>5. 0 \in S
  <2>1. From(0, [i \in Nat |-> <<>>])
    BY <1>4
  <2> HIDE DEF From
  <2>2. 0 \in 0 .. n + 1
    BY <1>1
  <2> QED BY <2>1, <2>2
<1>6. ASSUME NEW m \in 1 .. n + 1, m - 1 \in S PROVE m \in S
  <2>1. PICK g : From(m - 1, g)
    BY <1>6
  <2> DEFINE j == n - m + 1
             h == [i \in Nat |-> IF i = j THEN Rest(g, j) ELSE g[i]]
  <2>2. j \in Nat
    BY <1>1
  <2>3. /\ h = [i \in Nat |-> h[i]] /\ h[j] = Rest(g, j)
        /\ \A i \in Nat : i # j => h[i] = g[i]
    BY <2>2
  <2> HIDE DEF h
  <2>4. ASSUME NEW i \in Nat, i + m > n PROVE h[i] = Rest(h, i)
    <3>0. i >= j
      BY <1>1, <2>4
    <3> HIDE DEF j
    <3>1. \A l \in Nat : l > i => h[l] = g[l]
      BY <2>2, <2>3, <3>0
    <3>2. Rest(h, i) = Rest(g, i)
      BY <3>1, <1>3
    <3>3. CASE i = j
      BY <2>3, <3>2, <3>3
    <3>4. CASE i # j
      <4>1. i + (m - 1) > n
        BY <1>1, <2>4, <3>4 DEF j
      <4>2. g[i] = Rest(g, i)
        BY <2>1, <4>1
      <4> QED BY <2>3, <3>2, <3>4, <4>2
    <3> QED BY <3>3, <3>4
  <2>5. From(m, h)
    BY <2>3, <2>4
  <2> HIDE DEF From
  <2> QED BY <2>5
<1>7. n + 1 \in S
  <2> HIDE DEF S
  <2>1. n + 1 \in Nat
    BY <1>1
  <2>2. \A m \in 0 .. n + 1 : m \in S
    BY <1>5, <1>6, <2>1, Induction
  <2> QED BY <2>1, <2>2
<1>8. PICK g0 : From(n + 1, g0)
  BY <1>7
<1>9. g0 = [i \in Nat |-> Rest(g0, i)]
  <2>1. \A i \in Nat : g0[i] = Rest(g0, i)
    BY <1>1, <1>8
  <2>2. [i \in Nat |-> g0[i]] = [i \in Nat |-> Rest(g0, i)]
    BY <2>1
  <2> QED BY <1>8, <2>2
<1>10. F = [i \in Nat |-> Rest(F, i)]
  BY <1>9
<1>11. utf8_to_utf16[s] = F[1]
  BY DEF utf8_to_utf16, Rest
<1> HIDE DEF F
<1> QED BY <1>10, <1>11 DEF Rest

\* The units that are counted for a first byte.
Counted8(b) == IF b < 247 THEN char_length(b) ELSE 0

\* The function in utf8_to_utf16_length[] exists.
LEMMA CountExists ==
    ASSUME NEW s \in Seq(Byte)
    PROVE  \E g : /\ g = [i \in Nat |->
                            IF i > Len(s) THEN 0
                            ELSE CASE Counted8(s[i]) = 0 -> g[i + 1]
                                   [] Counted8(s[i]) = 4 -> 2 + g[i + 4]
                                   [] OTHER -> 1 + g[i + Counted8(s[i])]]
                  /\ utf8_to_utf16_length[s] = g[1]
<1> DEFINE Rest(g, i) == IF i > Len(s) THEN 0
                         ELSE CASE Counted8(s[i]) = 0 -> g[i + 1]
                                [] Counted8(s[i]) = 4 -> 2 + g[i + 4]
                                [] OTHER -> 1 + g[i + Counted8(s[i])]
           F == CHOOSE g : g = [i \in Nat |-> Rest(g, i)]
<1>1. PICK n \in Nat : n = Len(s)
  OBVIOUS
<1>2. \A i : Counted8(s[i]) \in {0, 1, 2, 3, 4}
  BY DEF Counted8, char_length
\* Only later values matter.
<1>3. ASSUME NEW f, NEW g, NEW i \in Nat, \A j \in Nat : j > i => f[j] = g[j]
      PROVE  Rest(f, i) = Rest(g, i)
  <2>1. f[i + 1] = g[i + 1] /\ f[i + 4] = g[i + 4]
    BY <1>3
  <2>2. CASE Counted8(s[i]) \in {0, 4}
    <3> QED BY <2>1, <2>2
  <2>3. CASE Counted8(s[i]) \notin {0, 4}
    <3>1. Counted8(s[i]) \in {1, 2, 3}
      BY <1>2, <2>3
    <3>2. f[i + Counted8(s[i])] = g[i + Counted8(s[i])]
      BY <1>3, <3>1
    <3> QED BY <2>3, <3>2
  <2> QED BY <2>2, <2>3
<1> HIDE DEF Rest
<1>4. \A g : \A i \in Nat : i > n => Rest(g, i) = 0
  BY <1>1 DEF Rest
<1> DEFINE From(m, g) == /\ g = [i \in Nat |-> g[i]]
                         /\ \A i \in Nat : i + m > n => g[i] = Rest(g, i)
           S == {m \in 0 .. n + 1 : \E g : From(m, g)}
<1>5. 0 \in S
  <2>1. From(0, [i \in Nat |-> 0])
    BY <1>4
  <2> HIDE DEF From
  <2>2. 0 \in 0 .. n + 1
    BY <1>1
  <2> QED BY <2>1, <2>2
<1>6. ASSUME NEW m \in 1 .. n + 1, m - 1 \in S PROVE m \in S
  <2>1. PICK g : From(m - 1, g)
    BY <1>6
  <2> DEFINE j == n - m + 1
             h == [i \in Nat |-> IF i = j THEN Rest(g, j) ELSE g[i]]
  <2>2. j \in Nat
    BY <1>1
  <2>3. /\ h = [i \in Nat |-> h[i]] /\ h[j] = Rest(g, j)
        /\ \A i \in Nat : i # j => h[i] = g[i]
    BY <2>2
  <2> HIDE DEF h
  <2>4. ASSUME NEW i \in Nat, i + m > n PROVE h[i] = Rest(h, i)
    <3>0. i >= j
      BY <1>1, <2>4
    <3> HIDE DEF j
    <3>1. \A l \in Nat : l > i => h[l] = g[l]
      BY <2>2, <2>3, <3>0
    <3>2. Rest(h, i) = Rest(g, i)
      BY <3>1, <1>3
    <3>3. CASE i = j
      BY <2>3, <3>2, <3>3
    <3>4. CASE i # j
      <4>1. i + (m - 1) > n
        BY <1>1, <2>4, <3>4 DEF j
      <4>2. g[i] = Rest(g, i)
        BY <2>1, <4>1
      <4> QED BY <2>3, <3>2, <3>4, <4>2
    <3> QED BY <3>3, <3>4
  <2>5. From(m, h)
    BY <2>3, <2>4
  <2> HIDE DEF From
  <2> QED BY <2>5
<1>7. n + 1 \in S
  <2> HIDE DEF S
  <2>1. n + 1 \in Nat
    BY <1>1
  <2>2. \A m \in 0 .. n + 1 : m \in S
    BY <1>5, <1>6, <2>1, Induction
  <2> QED BY <2>1, <2>2
<1>8. PICK g0 : From(n + 1, g0)
  BY <1>7
<1>9. g0 = [i \in Nat |-> Rest(g0, i)]
  <2>1. \A i \in Nat : g0[i] = Rest(g0, i)
    BY <1>1, <1>8
  <2>2. [i \in Nat |-> g0[i]] = [i \in Nat |-> Rest(g0, i)]
    BY <2>1
  <2> QED BY <1>8, <2>2
<1>10. F = [i \in Nat |-> Rest(F, i)]
  BY <1>9
<1>11. utf8_to_utf16_length[s] = F[1]
  BY DEF utf8_to_utf16_length, Rest, Counted8
<1> HIDE DEF F
<1> QED BY <1>10, <1>11 DEF Rest


\* As many units are counted as there are characters, and these are read.
LEMMA TextRead ==
    ASSUME NEW s, NEW units, NEW cut, IsText(s, units, cut)
    PROVE  utf8_to_utf16_length[s] = Len(units) /\ utf8_to_utf16[s] = units
<1>1. PICK n \in Nat : n = Len(units)
  BY DEF IsText
<1>2. /\ s \in Seq(Byte) /\ units \in Seq(Unit) /\ Len(s) \in Nat
      /\ cut \in [0 .. n -> Nat] /\ cut[0] = 0 /\ cut[n] = Len(s)
  BY <1>1 DEF IsText
<1>3. PICK g : /\ g = [i \in Nat |->
                            IF i > Len(s) THEN <<>>
                            ELSE CASE char_length(s[i]) = 0 -> g[i + 1]
                                   [] char_length(s[i]) = 4 -> <<utf16_of(s, i)>> \o g[i + 1]
                                   [] OTHER -> <<utf16_of(s, i)>> \o g[i + char_length(s[i])]]
               /\ utf8_to_utf16[s] = g[1]
  BY <1>2, UnitsExist
<1>4. PICK h : /\ h = [i \in Nat |->
                            IF i > Len(s) THEN 0
                            ELSE CASE Counted8(s[i]) = 0 -> h[i + 1]
                                   [] Counted8(s[i]) = 4 -> 2 + h[i + 4]
                                   [] OTHER -> 1 + h[i + Counted8(s[i])]]
               /\ utf8_to_utf16_length[s] = h[1]
  BY <1>2, CountExists
<1>5. ASSUME NEW k \in 1 .. n
      PROVE  /\ cut[k - 1] \in Nat /\ cut[k] \in Nat
             /\ g[cut[k - 1] + 1] = <<units[k]>> \o g[cut[k] + 1]
             /\ h[cut[k - 1] + 1] = 1 + h[cut[k] + 1]
  <2>1. PICK p \in Nat : p = cut[k - 1] + 1
    BY <1>2
  <2>2. /\ ~(p > Len(s)) /\ s[p] < 240
        /\ char_length(s[p]) \in 1 .. 3 /\ p + char_length(s[p]) = cut[k] + 1
        /\ utf16_of(s, p) = units[k]
    <3>1. /\ cut[k - 1] + 1 \in 1 .. Len(s) /\ s[cut[k - 1] + 1] < 240 /\ cut[k - 1] \in Nat
          /\ char_length(s[cut[k - 1] + 1]) \in 1 .. 3
          /\ cut[k] = cut[k - 1] + char_length(s[cut[k - 1] + 1])
          /\ utf16_of(s, cut[k - 1] + 1) = units[k]
      BY <1>1, CharacterRead
    <3> QED BY <1>2, <2>1, <3>1, SMTT(30)
  <2>3. char_length(s[p]) # 0 /\ char_length(s[p]) # 4
    BY <2>2
  <2>4. g[p] = <<utf16_of(s, p)>> \o g[p + char_length(s[p])]
    BY <1>3, <2>2, <2>3
  <2>5. Counted8(s[p]) = char_length(s[p])
    <3>1. s[p] \in Byte
      <4>1. p \in 1 .. Len(s)
        BY <1>2, <2>1, <2>2, SMTT(30)
      <4> QED BY <1>2, <4>1
    <3>2. \A b \in Byte : b < 240 => b < 247
      BY DEF Byte
    <3> QED BY <2>2, <3>1, <3>2 DEF Counted8
  <2>6. h[p] = 1 + h[p + Counted8(s[p])]
    BY <1>4, <2>2, <2>3, <2>5
  <2>7. cut[k - 1] \in Nat /\ cut[k] \in Nat
    BY <1>2
  <2> QED BY <2>1, <2>2, <2>4, <2>5, <2>6, <2>7
<1>6. g[cut[n] + 1] = <<>> /\ h[cut[n] + 1] = 0
  <2>1. Len(s) + 1 \in Nat /\ Len(s) + 1 > Len(s)
    BY <1>2
  <2> QED BY <1>2, <1>3, <1>4, <2>1
<1> DEFINE S == {j \in 0 .. n : /\ g[cut[n - j] + 1] = SubSeq(units, n - j + 1, n)
                                /\ h[cut[n - j] + 1] = j}
<1>7. 0 \in S
  <2>1. n - 0 = n /\ SubSeq(units, n + 1, n) = <<>>
    BY <1>1, <1>2
  <2>2. 0 \in 0 .. n /\ n - 0 + 1 = n + 1
    BY <1>1
  <2> QED BY <1>6, <2>1, <2>2
<1>8. ASSUME NEW j \in 1 .. n, j - 1 \in S PROVE j \in S
  <2> DEFINE k == n - j + 1
  <2>1. k \in 1 .. n /\ n - (j - 1) = k /\ n - j = k - 1 /\ j \in 0 .. n
    OBVIOUS
  <2> HIDE DEF k
  <2>2. g[cut[k] + 1] = SubSeq(units, k + 1, n) /\ h[cut[k] + 1] = j - 1
    BY <1>8, <2>1
  <2>3. <<units[k]>> \o SubSeq(units, k + 1, n) = SubSeq(units, k, n)
    <3> DEFINE a == SubSeq(units, k + 1, n)
               b == SubSeq(units, k, n)
    <3>1. a \in Seq(Unit) /\ Len(a) = n - k /\ \A i \in 1 .. n - k : a[i] = units[k + i]
      BY <1>1, <1>2, <2>1
    <3>2. b \in Seq(Unit) /\ Len(b) = n - k + 1 /\ \A i \in 1 .. n - k + 1 : b[i] = units[k + i - 1]
      BY <1>1, <1>2, <2>1
    <3>3. units[k] \in Unit
      BY <1>1, <1>2, <2>1
    <3> HIDE DEF a, b
    <3>4. /\ <<units[k]>> \o a \in Seq(Unit) /\ Len(<<units[k]>> \o a) = n - k + 1
          /\ (<<units[k]>> \o a)[1] = units[k]
          /\ \A i \in 2 .. n - k + 1 : (<<units[k]>> \o a)[i] = a[i - 1]
      BY <2>1, <3>1, <3>3
    <3>5. ASSUME NEW i \in 1 .. n - k + 1 PROVE (<<units[k]>> \o a)[i] = b[i]
      <4>1. CASE i = 1
        <5>1. k + i - 1 = k
          BY <2>1, <4>1
        <5> QED BY <3>2, <3>4, <4>1, <5>1
      <4>2. CASE i # 1
        <5>1. i \in 2 .. n - k + 1 /\ i - 1 \in 1 .. n - k /\ k + (i - 1) = k + i - 1
          BY <2>1, <4>2
        <5> QED BY <3>1, <3>2, <3>4, <5>1
      <4> QED BY <4>1, <4>2
    <3>6. <<units[k]>> \o a = b
      BY <2>1, <3>2, <3>4, <3>5, SMTT(30)
    <3> QED BY <3>6 DEF a, b
  <2>4. h[cut[k - 1] + 1] = j
    <3>1. h[cut[k - 1] + 1] = 1 + (j - 1)
      BY <1>5, <2>1, <2>2
    <3> QED BY <2>1, <3>1
  <2>5. g[cut[k - 1] + 1] = SubSeq(units, k, n)
    BY <1>5, <2>1, <2>2, <2>3
  <2>6. n - j + 1 = k
    BY DEF k
  <2> QED BY <2>1, <2>4, <2>5, <2>6
<1>9. n \in S
  <2>1. \A j \in 0 .. n : j \in S
    <3> HIDE DEF S
    <3> QED BY <1>7, <1>8, Induction
  <2>2. n \in 0 .. n
    BY <1>1
  <2> QED BY <2>1, <2>2
<1>10. n - n = 0 /\ 0 + 1 = 1
  BY <1>1
<1>11. SubSeq(units, 1, n) = units
  BY <1>1, <1>2
<1>12. g[cut[0] + 1] = SubSeq(units, 1, n) /\ h[cut[0] + 1] = n
  <2> DEFINE P(m) == g[cut[m] + 1] = SubSeq(units, m + 1, n) /\ h[cut[m] + 1] = n
  <2>1. P(n - n)
    BY <1>9
  <2>2. P(0)
    <3> HIDE DEF P
    <3> QED BY <1>10, <2>1
  <2> QED BY <1>10, <2>2
<1>13. g[1] = units /\ h[1] = n
  BY <1>2, <1>10, <1>11, <1>12
<1> HIDE DEF S
<1> QED BY <1>1, <1>3, <1>4, <1>13

\* No zeros are written, but for the unit 0.
LEMMA NoZeros ==
    ASSUME NEW s, NEW units, NEW cut, IsText(s, units, cut), \A k \in DOMAIN units : units[k] # 0
    PROVE  \A i \in DOMAIN s : s[i] # 0
<1>1. PICK n \in Nat : n = Len(units)
  BY DEF IsText
<1>2. /\ s \in Seq(Byte) /\ units \in Seq(Unit) /\ Len(s) \in Nat
      /\ cut \in [0 .. n -> Nat] /\ cut[0] = 0 /\ cut[n] = Len(s)
      /\ \A k \in 1 .. n : cut[k] = cut[k - 1] + Len(utf8_of(units[k]))
      /\ \A k \in 1 .. n : \A i \in 1 .. Len(utf8_of(units[k])) :
             s[cut[k - 1] + i] = utf8_of(units[k])[i]
  BY <1>1 DEF IsText
<1> DEFINE S == {k \in 0 .. n : \A i \in 1 .. cut[k] : s[i] # 0}
<1>3. 0 \in S
  BY <1>2
<1>4. ASSUME NEW k \in 1 .. n, k - 1 \in S PROVE k \in S
  <2> DEFINE c == utf8_of(units[k])
  <2>1. units[k] \in Unit /\ units[k] # 0
    <3>1. k \in DOMAIN units
      BY <1>1, <1>2
    <3> QED BY <1>2, <3>1
  <2>2. c \in Seq(Byte) /\ Len(c) \in 1 .. 3 /\ \A i \in 1 .. Len(c) : c[i] # 0
    BY <2>1, CharacterBytes
  <2>3. cut[k] = cut[k - 1] + Len(c) /\ \A i \in 1 .. Len(c) : s[cut[k - 1] + i] = c[i]
    BY <1>2
  <2> HIDE DEF c
  <2>4. cut[k - 1] \in Nat
    BY <1>2
  <2>5. ASSUME NEW i \in 1 .. cut[k] PROVE s[i] # 0
    <3>1. CASE i <= cut[k - 1]
      BY <1>4, <2>4, <3>1
    <3>2. CASE ~(i <= cut[k - 1])
      <4>1. PICK j \in 1 .. Len(c) : i = cut[k - 1] + j
        <5>1. i - cut[k - 1] \in 1 .. Len(c) /\ i = cut[k - 1] + (i - cut[k - 1])
          BY <2>2, <2>3, <2>4, <3>2
        <5> QED BY <5>1
      <4> QED BY <2>2, <2>3, <4>1
    <3> QED BY <3>1, <3>2
  <2> QED BY <2>5
<1>5. \A k \in 0 .. n : k \in S
  <2> HIDE DEF S
  <2> QED BY <1>3, <1>4, Induction
<1>6. n \in S
  <2>1. n \in 0 .. n
    BY <1>1
  <2> HIDE DEF S
  <2> QED BY <1>5, <2>1
<1> QED BY <1>2, <1>6

\* The string in an array that has a zero, or has none.
LEMMA StringIs ==
    ASSUME NEW V, V \subseteq Nat, NEW s \in Seq(V)
    PROVE  \E m \in 0 .. Len(s) :
              /\ c_string(s) = SubSeq(s, 1, m) /\ c_string(s) \in Seq(V) /\ Len(c_string(s)) = m
              /\ \A i \in 1 .. m : s[i] # 0 /\ c_string(s)[i] = s[i]
              /\ m # Len(s) => s[m + 1] = 0
<1> DEFINE zeros == {i \in DOMAIN s : s[i] = 0}
<1>1. \A m \in 0 .. Len(s) : /\ SubSeq(s, 1, m) \in Seq(V) /\ Len(SubSeq(s, 1, m)) = m
                             /\ \A i \in 1 .. m : SubSeq(s, 1, m)[i] = s[i]
  OBVIOUS
<1>2. c_string(s) = IF zeros = {} THEN s ELSE SubSeq(s, 1, Min(zeros) - 1)
  BY DEF c_string
<1>3. CASE zeros = {}
  <2>1. c_string(s) = s /\ s = SubSeq(s, 1, Len(s)) /\ Len(s) \in 0 .. Len(s)
    BY <1>2, <1>3
  <2>2. \A i \in 1 .. Len(s) : s[i] # 0
    BY <1>3
  <2> QED BY <1>1, <2>1, <2>2
<1>4. CASE zeros # {}
  <2>1. zeros \subseteq Nat
    OBVIOUS
  <2>2. Min(zeros) \in zeros /\ \A y \in zeros : Min(zeros) <= y
    <3> HIDE DEF zeros
    <3>1. \E x \in zeros : \A y \in zeros : x <= y
      BY <1>4, <2>1, LeastNat
    <3> QED BY <3>1 DEF Min
  <2>3. PICK m \in 0 .. Len(s) - 1 : Min(zeros) = m + 1
    <3>1. Min(zeros) \in 1 .. Len(s)
      BY <2>2
    <3>2. Min(zeros) - 1 \in 0 .. Len(s) - 1 /\ Min(zeros) = Min(zeros) - 1 + 1
      BY <3>1
    <3> QED BY <3>2
  <2>4. ASSUME NEW i \in 1 .. m PROVE s[i] # 0
    <3>1. i \in DOMAIN s /\ ~(m + 1 <= i)
      BY <2>3
    <3> QED BY <2>2, <2>3, <3>1
  <2>5. s[m + 1] = 0
    BY <2>2, <2>3
  <2>6. c_string(s) = SubSeq(s, 1, m) /\ m \in 0 .. Len(s)
    <3>1. m + 1 - 1 = m /\ m \in 0 .. Len(s)
      OBVIOUS
    <3> HIDE DEF zeros
    <3> QED BY <1>2, <1>4, <2>3, <3>1
  <2> QED BY <1>1, <2>4, <2>5, <2>6
<1> QED BY <1>3, <1>4

LEMMA StringOf ==
    ASSUME NEW V, V \subseteq Nat, NEW s \in Seq(V), \A i \in DOMAIN s : s[i] # 0
    PROVE  c_string(s) = s
BY DEF c_string

\* The first characters of a text.
LEMMA TextBegins ==
    ASSUME NEW s, NEW units, NEW cut, IsText(s, units, cut), NEW m \in 0 .. Len(units)
    PROVE  /\ cut[m] \in 0 .. Len(s)
           /\ IsText(SubSeq(s, 1, cut[m]), SubSeq(units, 1, m), [j \in 0 .. m |-> cut[j]])
<1>1. PICK n \in Nat : n = Len(units) /\ m \in 0 .. n
  BY DEF IsText
<1>2. /\ s \in Seq(Byte) /\ units \in Seq(Unit) /\ Len(s) \in Nat
      /\ cut \in [0 .. n -> Nat] /\ cut[0] = 0
      /\ \A k \in 1 .. n : cut[k] = cut[k - 1] + Len(utf8_of(units[k]))
      /\ \A k \in 1 .. n : \A i \in 1 .. Len(utf8_of(units[k])) :
             s[cut[k - 1] + i] = utf8_of(units[k])[i]
  BY <1>1 DEF IsText
<1>3. cut[m] \in 0 .. Len(s)
  BY <1>1, <1>2, CutsWithin
<1> DEFINE first == SubSeq(units, 1, m)
           t == SubSeq(s, 1, cut[m])
           c == [j \in 0 .. m |-> cut[j]]
<1>4. first \in Seq(Unit) /\ Len(first) = m /\ \A k \in 1 .. m : first[k] = units[k]
  BY <1>1, <1>2
<1>5. t \in Seq(Byte) /\ Len(t) = cut[m] /\ \A i \in 1 .. cut[m] : t[i] = s[i]
  BY <1>2, <1>3
<1>6. c \in [0 .. m -> Nat] /\ \A k \in 0 .. m : c[k] = cut[k]
  BY <1>1, <1>2, SMTT(30)
<1> HIDE DEF first, t, c
<1>7. IsText(t, first, c)
  <2>1. ASSUME NEW k \in 1 .. m
        PROVE  /\ c[k] = c[k - 1] + Len(utf8_of(first[k]))
               /\ \A i \in 1 .. Len(utf8_of(first[k])) : t[c[k - 1] + i] = utf8_of(first[k])[i]
    <3>1. k \in 1 .. n /\ k \in 0 .. m /\ k - 1 \in 0 .. m /\ k - 1 \in 0 .. n
      BY <1>1
    <3>2. c[k] = cut[k] /\ c[k - 1] = cut[k - 1] /\ first[k] = units[k]
      BY <1>4, <1>6, <3>1
    <3>3. cut[k] = cut[k - 1] + Len(utf8_of(units[k])) /\ cut[k - 1] \in Nat
      BY <1>2, <3>1
    <3>4. units[k] \in Unit
      BY <1>1, <1>2, <3>1
    <3>5. Len(utf8_of(units[k])) \in Nat
      BY <3>4, CharacterBytes
    <3>6. cut[k] <= cut[m]
      BY <1>1, <3>1, CutsRise
    <3>7. ASSUME NEW i \in 1 .. Len(utf8_of(units[k]))
          PROVE  t[cut[k - 1] + i] = utf8_of(units[k])[i]
      <4>1. cut[k - 1] + i \in 1 .. cut[m]
        BY <1>3, <3>3, <3>5, <3>6, SMTT(30)
      <4> QED BY <1>2, <1>5, <3>1, <4>1
    <3> QED BY <3>2, <3>3, <3>7
  <2> QED BY <1>2, <1>4, <1>5, <1>6, <2>1 DEF IsText
<1> QED BY <1>3, <1>7 DEF first, t, c

\* Bytes and code units are numbers.
LEMMA CharactersAreNumbers == Unit \subseteq Nat /\ Byte \subseteq Nat
<1>1. \A x \in 0 .. 65535 : x \in Nat
  OBVIOUS
<1>2. \A x \in 0 .. 255 : x \in Nat
  OBVIOUS
<1> QED BY <1>1, <1>2 DEF Unit, Byte

\* A text that a zero ends is written up to there.
LEMMA TextEnds ==
    ASSUME NEW units \in Seq(Unit)
    PROVE  \E cut : IsText(utf8_from_utf16[units], c_string(units), cut)
<1>1. PICK s, cut : s = utf16_to_utf8[units] /\ IsText(s, units, cut)
  BY TextWritten
<1>2. /\ s \in Seq(Byte) /\ Len(s) \in Nat /\ cut[0] = 0 /\ cut[Len(units)] = Len(s)
      /\ \A k \in 1 .. Len(units) : cut[k] = cut[k - 1] + Len(utf8_of(units[k]))
      /\ \A k \in 1 .. Len(units) : \A i \in 1 .. Len(utf8_of(units[k])) :
             s[cut[k - 1] + i] = utf8_of(units[k])[i]
  BY <1>1 DEF IsText
<1>3. Unit \subseteq Nat /\ Byte \subseteq Nat
  BY CharactersAreNumbers
<1>4. PICK m \in 0 .. Len(units) :
          /\ c_string(units) = SubSeq(units, 1, m) /\ c_string(units) \in Seq(Unit)
          /\ Len(c_string(units)) = m
          /\ \A i \in 1 .. m : units[i] # 0 /\ c_string(units)[i] = units[i]
          /\ m # Len(units) => units[m + 1] = 0
  BY <1>3, StringIs
<1> DEFINE t == SubSeq(s, 1, cut[m])
           c == [j \in 0 .. m |-> cut[j]]
<1>5. cut[m] \in 0 .. Len(s) /\ IsText(t, c_string(units), c)
  BY <1>1, <1>4, TextBegins
<1>6. \A i \in 1 .. cut[m] : s[i] # 0
  <2>1. \A i \in DOMAIN t : t[i] # 0
    <3>1. \A k \in DOMAIN c_string(units) : c_string(units)[k] # 0
      BY <1>4
    <3> HIDE DEF t, c
    <3> QED BY <1>5, <3>1, NoZeros
  <2>2. DOMAIN t = 1 .. cut[m] /\ \A i \in 1 .. cut[m] : t[i] = s[i]
    BY <1>2, <1>5
  <2> QED BY <2>1, <2>2
<1>7. cut[m] # Len(s) => s[cut[m] + 1] = 0
  <2> SUFFICES ASSUME cut[m] # Len(s) PROVE s[cut[m] + 1] = 0
    OBVIOUS
  <2>1. m # Len(units) /\ m + 1 \in 1 .. Len(units) /\ m + 1 - 1 = m
    BY <1>2
  <2>2. utf8_of(units[m + 1]) = <<0>>
    <3>1. units[m + 1] = 0
      BY <1>4, <2>1
    <3>2. 0 \in Unit
      BY DEF Unit
    <3> QED BY <3>1, <3>2, OneByte
  <2>3. 1 \in 1 .. Len(utf8_of(units[m + 1])) /\ utf8_of(units[m + 1])[1] = 0
    BY <2>2
  <2> QED BY <1>2, <2>1, <2>3
<1>8. c_string(s) = t
  <2>1. PICK l \in 0 .. Len(s) :
            /\ c_string(s) = SubSeq(s, 1, l)
            /\ \A i \in 1 .. l : s[i] # 0
            /\ l # Len(s) => s[l + 1] = 0
    <3>1. s \in Seq(Byte) /\ Byte \subseteq Nat
      BY <1>2, <1>3, CharactersAreNumbers
    <3>2. \E l \in 0 .. Len(s) :
              /\ c_string(s) = SubSeq(s, 1, l) /\ c_string(s) \in Seq(Byte) /\ Len(c_string(s)) = l
              /\ \A i \in 1 .. l : s[i] # 0 /\ c_string(s)[i] = s[i]
              /\ l # Len(s) => s[l + 1] = 0
      BY ONLY <3>1, StringIs
    <3> QED BY <3>2
  <2>2. l = cut[m]
    <3>1. PICK q \in 0 .. Len(s) : q = cut[m]
      BY <1>5
    <3>2. CASE l < q
      <4>1. l # Len(s) /\ l + 1 \in 1 .. q
        BY <1>2, <3>2
      <4> QED BY <1>6, <2>1, <3>1, <4>1
    <3>3. CASE q < l
      <4>1. q # Len(s) /\ q + 1 \in 1 .. l
        BY <1>2, <3>3
      <4> QED BY <1>7, <2>1, <3>1, <4>1
    <3> QED BY <3>1, <3>2, <3>3
  <2> QED BY <2>1, <2>2
<1>9. utf8_from_utf16[units] = t
  BY <1>1, <1>8 DEF utf8_from_utf16
<1> HIDE DEF t, c
<1> QED BY <1>5, <1>9

\* What the client gets of the bytes of a text.
LEMMA TextIs ==
    ASSUME NEW s, NEW units, NEW cut, IsText(s, units, cut), \A k \in DOMAIN units : units[k] # 0, NEW junk
    PROVE  c_string(s) = s /\ utf16_from_utf8(s, junk) = units
<1>1. utf8_to_utf16_length[s] = Len(units) /\ utf8_to_utf16[s] = units /\ units \in Seq(Unit)
  BY TextRead, ZenonT(30) DEF IsText
<1>2. c_string(s) = s
  <2>1. s \in Seq(Byte) /\ Byte \subseteq Nat
    BY CharactersAreNumbers DEF IsText
  <2>2. \A i \in DOMAIN s : s[i] # 0
    BY NoZeros
  <2> QED BY <2>1, <2>2, StringOf
<1>3. utf16_from_utf8(s, junk) = SubSeq(units, 1, Len(units))
  <2>1. Len(units) <= Len(units)
    BY <1>1
  <2> QED BY <1>1, <2>1 DEF utf16_from_utf8
<1>4. SubSeq(units, 1, Len(units)) = units
  BY <1>1
<1> QED BY <1>2, <1>3, <1>4

\* A text of the database that is shown to the client and stored again comes back
\* the same up to its first zero, whatever is behind it in memory: its characters are
\* found where they were written, and as many are counted as are written
\* (ipod_string.c:122-260).
THEOREM TextRoundTrip ==
    ASSUME NEW units \in Seq(Unit), NEW junk \in Byte
    PROVE  utf16_from_utf8(utf8_from_utf16[units], junk) = c_string(units)
<1>1. PICK cut : IsText(utf8_from_utf16[units], c_string(units), cut)
  BY TextEnds
<1>2. \A k \in DOMAIN c_string(units) : c_string(units)[k] # 0
  <2>1. Unit \subseteq Nat
    BY CharactersAreNumbers
  <2>2. PICK m \in 0 .. Len(units) :
            /\ Len(c_string(units)) = m /\ c_string(units) \in Seq(Unit)
            /\ \A i \in 1 .. m : units[i] # 0 /\ c_string(units)[i] = units[i]
    BY <2>1, StringIs
  <2> QED BY <2>2
<1> QED BY <1>1, <1>2, TextIs

-----------------------------------------------------------------------------
(* Sums                                                                    *)

\* g has the sums of the first numbers of f, up to n of them.
IsSums(g, f, n) ==
    g \in [0 .. n -> Nat] /\ g[0] = 0 /\ \A k \in 1 .. n : g[k] = g[k - 1] + f[k - 1]

\* There are such sums,
LEMMA SumsExist ==
    ASSUME NEW n \in Nat, NEW f, \A k \in 0 .. n - 1 : f[k] \in Nat
    PROVE  \E g : IsSums(g, f, n)
<1> DEFINE S == {m \in 0 .. n : \E g : IsSums(g, f, m)}
<1>1. 0 \in S
  <2>1. IsSums([k \in 0 .. 0 |-> 0], f, 0)
    BY DEF IsSums
  <2> QED BY <2>1
<1>2. ASSUME NEW m \in 1 .. n, m - 1 \in S PROVE m \in S
  <2>1. PICK g : IsSums(g, f, m - 1)
    BY <1>2
  <2> DEFINE h == [k \in 0 .. m |-> IF k = m THEN g[m - 1] + f[m - 1] ELSE g[k]]
  <2>2. g[m - 1] + f[m - 1] \in Nat
    <3>1. g[m - 1] \in Nat /\ f[m - 1] \in Nat
      BY <2>1 DEF IsSums
    <3> QED BY <3>1
  <2>3. h \in [0 .. m -> Nat]
    BY <2>1, <2>2 DEF IsSums
  <2>4. h[0] = 0
    BY <2>1 DEF IsSums
  <2>5. ASSUME NEW k \in 1 .. m PROVE h[k] = h[k - 1] + f[k - 1]
    <3>1. CASE k = m
      BY <3>1
    <3>2. CASE k # m
      <4>1. k \in 1 .. m - 1 /\ k - 1 # m /\ k - 1 \in 0 .. m /\ k \in 0 .. m
        BY <3>2
      <4>2. g[k] = g[k - 1] + f[k - 1]
        BY <2>1, <4>1 DEF IsSums
      <4> QED BY <3>2, <4>1, <4>2
    <3> QED BY <3>1, <3>2
  <2>6. IsSums(h, f, m)
    <3> HIDE DEF h
    <3> QED BY <2>3, <2>4, <2>5 DEF IsSums
  <2> QED BY <2>6
<1> HIDE DEF S
<1>3. \A m \in 0 .. n : m \in S
  BY <1>1, <1>2, Induction
<1> QED BY <1>3 DEF S

\* and only these, which are what the loop computes.
LEMMA SumIs ==
    ASSUME NEW n \in Nat, NEW f, NEW g, IsSums(g, f, n)
    PROVE  sum_of(f, n) = g[n]
<1> DEFINE Step(h) == [k \in 0 .. n |-> IF k = 0 THEN 0 ELSE h[k - 1] + f[k - 1]]
           total == CHOOSE h : h = Step(h)
<1>1. g = Step(g)
  <2>1. ASSUME NEW k \in 0 .. n PROVE g[k] = Step(g)[k]
    BY DEF IsSums
  <2> QED BY <2>1 DEF IsSums
<1>2. total = Step(total)
  <2> HIDE DEF Step
  <2> QED BY <1>1
<1>3. sum_of(f, n) = total[n]
  BY DEF sum_of
<1> HIDE DEF total
<1>4. \A k \in 0 .. n : k \in {j \in 0 .. n : total[j] = g[j]}
  <2> DEFINE S == {j \in 0 .. n : total[j] = g[j]}
  <2>1. 0 \in S
    BY <1>2 DEF IsSums
  <2>2. ASSUME NEW k \in 1 .. n, k - 1 \in S PROVE k \in S
    <3>1. total[k] = total[k - 1] + f[k - 1]
      BY <1>2
    <3>2. g[k] = g[k - 1] + f[k - 1]
      BY DEF IsSums
    <3> QED BY <2>2, <3>1, <3>2
  <2> HIDE DEF S
  <2>3. \A k \in 0 .. n : k \in S
    BY <2>1, <2>2, Induction
  <2> QED BY <2>3 DEF S
<1> QED BY <1>3, <1>4

LEMMA SumTyped ==
    ASSUME NEW n \in Nat, NEW f, \A k \in 0 .. n - 1 : f[k] \in Nat
    PROVE  sum_of(f, n) \in Nat
<1>1. PICK g : IsSums(g, f, n)
  BY SumsExist
<1>2. sum_of(f, n) = g[n]
  BY <1>1, SumIs
<1> QED BY <1>1, <1>2 DEF IsSums

\* One number more.
LEMMA SumNext ==
    ASSUME NEW n \in Nat, NEW f, \A k \in 0 .. n : f[k] \in Nat
    PROVE  sum_of(f, n + 1) = sum_of(f, n) + f[n]
<1>1. PICK g : IsSums(g, f, n + 1)
  BY SumsExist
<1> DEFINE h == [k \in 0 .. n |-> g[k]]
<1>2. IsSums(h, f, n)
  BY <1>1 DEF IsSums
<1>3. sum_of(f, n + 1) = g[n + 1] /\ sum_of(f, n) = h[n]
  <2> HIDE DEF h
  <2> QED BY <1>1, <1>2, SumIs
<1>4. g[n + 1] = g[n + 1 - 1] + f[n + 1 - 1] /\ n + 1 - 1 = n
  BY <1>1 DEF IsSums
<1> QED BY <1>3, <1>4

\* One of the numbers grows by d.
LEMMA SumGrows ==
    ASSUME NEW n \in Nat, NEW f \in [0 .. n - 1 -> Nat], NEW h \in [0 .. n - 1 -> Nat],
           NEW j \in 0 .. n - 1, NEW d \in Nat, h[j] = f[j] + d,
           \A k \in 0 .. n - 1 : k # j => h[k] = f[k]
    PROVE  sum_of(h, n) = sum_of(f, n) + d
<1>1. PICK g : IsSums(g, f, n)
  BY SumsExist
<1> DEFINE grown == [k \in 0 .. n |-> IF k <= j THEN g[k] ELSE g[k] + d]
<1>2. IsSums(grown, h, n)
  <2>1. grown \in [0 .. n -> Nat] /\ grown[0] = 0
    BY <1>1, SMTT(30) DEF IsSums
  <2>2. ASSUME NEW k \in 1 .. n PROVE grown[k] = grown[k - 1] + h[k - 1]
    <3>1. g[k] = g[k - 1] + f[k - 1] /\ g[k - 1] \in Nat /\ f[k - 1] \in Nat /\ k - 1 \in 0 .. n - 1
      BY <1>1 DEF IsSums
    <3>2. CASE k <= j
      BY <3>1, <3>2
    <3>3. CASE k = j + 1
      BY <3>1, <3>3, SMTT(30)
    <3>4. CASE k > j + 1
      BY <3>1, <3>4
    <3> QED BY <3>2, <3>3, <3>4
  <2> HIDE DEF grown
  <2> QED BY <2>1, <2>2 DEF IsSums
<1>3. sum_of(f, n) = g[n] /\ sum_of(h, n) = grown[n]
  <2> HIDE DEF grown
  <2> QED BY <1>1, <1>2, SumIs
<1> QED BY <1>3

-----------------------------------------------------------------------------
(* Layouts                                                                 *)

\* Where the parts are.
LEMMA Places ==
    ASSUME NEW s \in Seq(Byte), NEW cut, NEW n \in Nat, IsLayout(s, cut, n), NEW k \in 0 .. n
    PROVE  /\ n \in Nat /\ cut[k] \in Nat /\ cut[k] <= Len(s) /\ Len(s) \in Nat
           /\ k # n <=> cut[k] < Len(s)
           /\ k # n => /\ k \in 0 .. n - 1 /\ k + 1 \in 0 .. n
                       /\ cut[k + 1] \in Nat /\ cut[k + 1] <= Len(s)
                       /\ \/ IsFrame(s, cut[k], cut[k + 1])
                          \/ IsTags(s, cut[k], cut[k + 1])
                          \/ IsOther(s, cut[k], cut[k + 1])
<1>1. n \in Nat /\ n \in 0 .. n /\ cut[k] \in Nat /\ cut[n] = Len(s)
  BY DEF IsLayout
<1>2. \A j \in 0 .. n : cut[j] \in Nat /\ cut[j] <= cut[n]
  <2> SUFFICES ASSUME NEW j \in 0 .. n PROVE cut[j] \in Nat /\ cut[j] <= cut[n]
    OBVIOUS
  <2>1. cut[j] \in Nat /\ cut[n] \in Nat /\ (j < n => cut[j] < cut[n]) /\ (j < n \/ j = n)
    BY <1>1 DEF IsLayout
  <2> QED BY <2>1
<1>3. k # n => cut[k] < cut[n]
  BY <1>1 DEF IsLayout
<1>4. k # n => k \in 0 .. n - 1 /\ k + 1 \in 0 .. n
  BY <1>1
<1>5. k # n => \/ IsFrame(s, cut[k], cut[k + 1])
               \/ IsTags(s, cut[k], cut[k + 1])
               \/ IsOther(s, cut[k], cut[k + 1])
  BY <1>4 DEF IsLayout
<1> QED BY <1>1, <1>2, <1>3, <1>4, <1>5

\* What begins like a frame is one, and the rest is none.
LEMMA FrameIsFrame ==
    ASSUME NEW s \in Seq(Byte), NEW p \in Nat, NEW e
    PROVE  /\ IsFrame(s, p, e) => FrameBegins(s, p)
           /\ IsTags(s, p, e) => ~FrameBegins(s, p)
           /\ IsOther(s, p, e) => ~FrameBegins(s, p)
<1>1. IsFrame(s, p, e) => FrameBegins(s, p)
  BY DEF IsFrame
<1>2. IsTags(s, p, e) => ~FrameBegins(s, p)
  BY DEF IsTags, FrameBegins
<1>3. IsOther(s, p, e) => ~FrameBegins(s, p)
  <2>1. ASSUME FrameBegins(s, p) PROVE s[p + 2] \in Nat
    <3>1. p + 2 \in 1 .. Len(s)
      BY <2>1 DEF FrameBegins
    <3>2. s[p + 2] \in Byte
      BY <3>1
    <3>3. Byte \subseteq Nat
      BY CharactersAreNumbers
    <3> QED BY <3>2, <3>3
  <2> QED BY <2>1 DEF IsOther, FrameBegins
<1> QED BY <1>1, <1>2, <1>3

\* The fields of a header.
LEMMA HeaderTyped ==
    ASSUME NEW s \in Seq(Byte), NEW p \in Nat, p + 4 <= Len(s)
    PROVE  /\ s[p + 2] \in Byte /\ s[p + 3] \in Byte
           /\ Version(s, p) \in 0 .. 3 /\ Layer(s, p) \in 0 .. 3 /\ RateIndex(s, p) \in 0 .. 15
           /\ Padding(s, p) \in 0 .. 1
<1>1. p + 2 \in 1 .. Len(s) /\ p + 3 \in 1 .. Len(s)
  OBVIOUS
<1>2. s[p + 2] \in Byte /\ s[p + 3] \in Byte
  BY <1>1
<1>3. \A b \in Byte : /\ (b \div 8) % 4 \in 0 .. 3 /\ (b \div 2) % 4 \in 0 .. 3 /\ b \div 16 \in 0 .. 15
                      /\ (b \div 2) % 2 \in 0 .. 1
  BY DEF Byte
<1> QED BY <1>2, <1>3 DEF Version, Layer, RateIndex, Padding

\* Every version and layer of a file has a row of bit rates.
Versions == {0, 2, 3}

LEMMA RateTyped ==
    ASSUME NEW version \in Versions, NEW layer \in 1 .. 3, NEW i \in 0 .. 15, NEW junk
    PROVE  bit_rate(version, layer, i, junk) \in Nat
           /\ bit_rate(version, layer, i, junk) = bit_rate(version, layer, i, 0)
<1> DEFINE row == 3 * version + (3 - layer) + 1
<1>1. row \in 1 .. 12 /\ i + 1 \in 1 .. 16
  BY DEF Versions
<1>2. DOMAIN bit_rate_rows = 1 .. 12
  BY DEF bit_rate_rows
<1>3. \A r \in 1 .. 12 : bit_rate_rows[r] \in [1 .. 16 -> Nat]
  BY DEF bit_rate_rows
<1>4. bit_rate(version, layer, i, junk) = bit_rate_rows[row][i + 1]
      /\ bit_rate(version, layer, i, 0) = bit_rate_rows[row][i + 1]
  BY <1>1, <1>2 DEF bit_rate
<1> QED BY <1>1, <1>3, <1>4

-----------------------------------------------------------------------------
(* What was counted                                                        *)

\* A number for each index of a bit rate.
Row == [0 .. 15 -> Nat]

\* The bit rates of a version and layer, and each times how often it was counted.
RatesOf(version, layer) == [i \in 0 .. 15 |-> bit_rate(version, layer, i, 0)]
Weighed(types, rates) == [i \in 0 .. 15 |-> types[i] * rates[i]]

\* A histogram of the frames among the first m parts.
IsHistogram(types, s, cut, n, m, version, layer) ==
    /\ types \in Row
    /\ sum_of(types, 16) = Cardinality(Frames(s, cut, m))
    /\ sum_of(Weighed(types, RatesOf(version, layer)), 16) = sum_of(Rates(s, cut, n), m)
    /\ \A i \in 0 .. 15 :
           types[i] > 0 <=> \E k \in Frames(s, cut, m) : RateIndex(s, cut[k]) = i

Counted(cut, n, m, version, layer, hz) ==
    /\ mp3 = [types |-> mp3.types, version |-> mp3.version, layer |-> mp3.layer,
              sample_rate |-> mp3.sample_rate, id3 |-> mp3.id3, end |-> mp3.end]
    /\ IsHistogram(mp3.types, bytes, cut, n, m, version, layer)
    /\ Frames(bytes, cut, m) # {} =>
           mp3.version = version /\ mp3.layer = layer /\ mp3.sample_rate = hz

\* The frames among the first m parts are so many.
LEMMA FramesFinite ==
    ASSUME NEW s, NEW cut, NEW m \in Nat
    PROVE  IsFiniteSet(Frames(s, cut, m)) /\ Cardinality(Frames(s, cut, m)) \in Nat
<1>1. IsFiniteSet(0 .. m - 1)
  BY FS_Interval
<1>2. Frames(s, cut, m) \subseteq 0 .. m - 1
  BY DEF Frames
<1> QED BY <1>1, <1>2, FS_Subset, FS_CardinalityType

LEMMA FramesNext ==
    ASSUME NEW s, NEW cut, NEW m \in Nat
    PROVE  /\ FrameBegins(s, cut[m]) =>
                  /\ Frames(s, cut, m + 1) = Frames(s, cut, m) \cup {m}
                  /\ Cardinality(Frames(s, cut, m + 1)) = Cardinality(Frames(s, cut, m)) + 1
           /\ ~FrameBegins(s, cut[m]) => Frames(s, cut, m + 1) = Frames(s, cut, m)
<1>1. FrameBegins(s, cut[m]) => Frames(s, cut, m + 1) = Frames(s, cut, m) \cup {m}
  BY DEF Frames
<1>2. ~FrameBegins(s, cut[m]) => Frames(s, cut, m + 1) = Frames(s, cut, m)
  BY DEF Frames
<1>3. m \notin Frames(s, cut, m)
  BY DEF Frames
<1> QED BY <1>1, <1>2, <1>3, FramesFinite, FS_AddElement

\* The rates of the frames of a file can be added up.
LEMMA RatesTyped ==
    ASSUME NEW s \in Seq(Byte), NEW cut, NEW n \in Nat, IsLayout(s, cut, n),
           NEW version \in Versions, NEW layer \in 1 .. 3, NEW hz,
           Alike(s, cut, n, version, layer, hz)
    PROVE  /\ \A k \in 0 .. n - 1 : Rates(s, cut, n)[k] \in Nat
           /\ \A k \in Frames(s, cut, n) :
                  /\ IsFrame(s, cut[k], cut[k + 1])
                  /\ RateIndex(s, cut[k]) \in 0 .. 15
                  /\ Rates(s, cut, n)[k] = bit_rate(version, layer, RateIndex(s, cut[k]), 0)
<1>1. ASSUME NEW k \in Frames(s, cut, n)
      PROVE  /\ IsFrame(s, cut[k], cut[k + 1])
             /\ RateIndex(s, cut[k]) \in 0 .. 15
             /\ Rates(s, cut, n)[k] = bit_rate(version, layer, RateIndex(s, cut[k]), 0)
             /\ Rates(s, cut, n)[k] \in Nat
  <2>1. k \in 0 .. n - 1 /\ k \in 0 .. n /\ k # n /\ FrameBegins(s, cut[k]) /\ n \in Nat
    BY DEF Frames, IsLayout
  <2>2. cut[k] \in Nat /\ cut[k + 1] <= Len(s) /\ cut[k + 1] \in Nat /\ IsFrame(s, cut[k], cut[k + 1])
    BY <2>1, Places, FrameIsFrame
  <2>3. cut[k] + 4 <= Len(s)
    BY <2>2 DEF IsFrame
  <2>4. RateIndex(s, cut[k]) \in 0 .. 15
    BY <2>2, <2>3, HeaderTyped
  <2>5. Rates(s, cut, n)[k] = bit_rate(version, layer, RateIndex(s, cut[k]), 0)
    BY <2>1 DEF Rates, BitRate, Alike
  <2> QED BY <2>2, <2>4, <2>5, RateTyped
<1>2. ASSUME NEW k \in 0 .. n - 1 PROVE Rates(s, cut, n)[k] \in Nat
  <2>1. CASE k \in Frames(s, cut, n)
    BY <1>1, <2>1
  <2>2. CASE k \notin Frames(s, cut, n)
    BY <2>2 DEF Rates, Frames
  <2> QED BY <2>1, <2>2
<1> QED BY <1>1, <1>2

\* Behind tags or another byte the same is counted,
LEMMA CountedSkip ==
    ASSUME NEW cut, NEW n \in Nat, NEW k \in 0 .. n - 1, NEW version \in Versions, NEW layer \in 1 .. 3, NEW hz,
           bytes \in Seq(Byte), IsLayout(bytes, cut, n), Alike(bytes, cut, n, version, layer, hz),
           ~FrameBegins(bytes, cut[k]),
           Counted(cut, n, k, version, layer, hz)
    PROVE  Counted(cut, n, k + 1, version, layer, hz)
<1>1. k \in Nat
  OBVIOUS
<1>2. Frames(bytes, cut, k + 1) = Frames(bytes, cut, k)
  BY <1>1, FramesNext
<1> DEFINE rates == Rates(bytes, cut, n)
<1>3. \A j \in 0 .. k : rates[j] \in Nat
  <2>1. n \in Nat /\ \A j \in 0 .. n - 1 : rates[j] \in Nat
    BY RatesTyped DEF IsLayout
  <2> QED BY <2>1
<1>4. rates[k] = 0
  BY DEF Rates
<1> HIDE DEF rates
<1>5. sum_of(rates, k + 1) = sum_of(rates, k) + rates[k] /\ sum_of(rates, k) \in Nat
  BY <1>1, <1>3, SumNext, SumTyped
<1>6. sum_of(rates, k + 1) = sum_of(rates, k)
  BY <1>4, <1>5
<1> QED BY <1>2, <1>6 DEF Counted, IsHistogram, rates

\* and nothing that leaves the file and the counters alone changes it.
LEMMA CountedStays ==
    ASSUME NEW cut, NEW n \in Nat, NEW k, NEW version, NEW layer, NEW hz,
           Counted(cut, n, k, version, layer, hz), file' = file,
           mp3' = [mp3 EXCEPT !.id3 = mp3'.id3, !.end = mp3'.end]
    PROVE  Counted(cut, n, k, version, layer, hz)'
<1>1. bytes' = bytes
  BY DEF bytes
<1>2. /\ mp3' = [types |-> mp3'.types, version |-> mp3'.version, layer |-> mp3'.layer,
                 sample_rate |-> mp3'.sample_rate, id3 |-> mp3'.id3, end |-> mp3'.end]
      /\ mp3'.types = mp3.types /\ mp3'.version = mp3.version /\ mp3'.layer = mp3.layer
      /\ mp3'.sample_rate = mp3.sample_rate
  BY DEF Counted
<1> QED BY <1>1, <1>2 DEF Counted

\* Kind i was counted once more.
IsRaised(new, old, i) ==
    /\ new \in Row /\ new[i] = old[i] + 1
    /\ \A j \in 0 .. 15 : j # i => new[j] = old[j]

\* That makes one more in all, and adds its weight to the weighted sum.
LEMMA OneMore ==
    ASSUME NEW i \in 0 .. 15, NEW old \in Row, NEW rate \in Row,
           NEW new, IsRaised(new, old, i)
    PROVE  /\ sum_of(new, 16) = sum_of(old, 16) + 1
           /\ sum_of(Weighed(new, rate), 16) = sum_of(Weighed(old, rate), 16) + rate[i]
<1>1. PICK n \in Nat : n = 16 /\ 0 .. 15 = 0 .. n - 1
  OBVIOUS
<1> USE DEF IsRaised, Row
<1>2. sum_of(new, n) = sum_of(old, n) + 1
  <2>1. /\ old \in [0 .. n - 1 -> Nat] /\ new \in [0 .. n - 1 -> Nat] /\ i \in 0 .. n - 1
        /\ \A j \in 0 .. n - 1 : j # i => new[j] = old[j]
    BY <1>1
  <2>2. PICK one \in Nat : one = 1
    OBVIOUS
  <2>3. new[i] = old[i] + one
    BY <2>2
  <2>4. sum_of(new, n) = sum_of(old, n) + one
    BY <2>1, <2>3, SumGrows
  <2> QED BY <2>2, <2>4
<1>3. /\ Weighed(old, rate) \in [0 .. 15 -> Nat] /\ Weighed(new, rate) \in [0 .. 15 -> Nat]
      /\ \A j \in 0 .. 15 : j # i => Weighed(new, rate)[j] = Weighed(old, rate)[j]
  BY DEF Weighed
<1>4. Weighed(new, rate)[i] = Weighed(old, rate)[i] + rate[i]
  <2>1. Weighed(new, rate)[i] = (old[i] + 1) * rate[i] /\ Weighed(old, rate)[i] = old[i] * rate[i]
    BY DEF Weighed
  <2>2. \A a, b \in Nat : (a + 1) * b = a * b + b
    OBVIOUS
  <2>3. old[i] \in Nat /\ rate[i] \in Nat
    OBVIOUS
  <2> QED BY <2>1, <2>2, <2>3
<1>5. sum_of(Weighed(new, rate), n) = sum_of(Weighed(old, rate), n) + rate[i]
  <2>1. rate[i] \in Nat
    OBVIOUS
  <2>2. /\ Weighed(old, rate) \in [0 .. n - 1 -> Nat] /\ Weighed(new, rate) \in [0 .. n - 1 -> Nat]
        /\ i \in 0 .. n - 1
        /\ \A j \in 0 .. n - 1 : j # i => Weighed(new, rate)[j] = Weighed(old, rate)[j]
    BY <1>1, <1>3
  <2> QED BY <1>4, <2>1, <2>2, SumGrows
<1> QED BY <1>1, <1>2, <1>5

\* The histogram after "types[i] += 1".
LEMMA Raised ==
    ASSUME NEW old \in Row, NEW i \in 0 .. 15
    PROVE  IsRaised([old EXCEPT ![i] = @ + 1], old, i)
BY DEF IsRaised, Row

\* A frame that is counted once counts once: with its rate, its length and its index.
LEMMA HistogramGrows ==
    ASSUME NEW s \in Seq(Byte), NEW cut, NEW n \in Nat, NEW k \in 0 .. n - 1,
           NEW version \in Versions, NEW layer \in 1 .. 3, NEW hz,
           IsLayout(s, cut, n), Alike(s, cut, n, version, layer, hz), FrameBegins(s, cut[k]),
           NEW types, IsHistogram(types, s, cut, n, k, version, layer),
           NEW i \in 0 .. 15, i = RateIndex(s, cut[k]), NEW new, IsRaised(new, types, i)
    PROVE  IsHistogram(new, s, cut, n, k + 1, version, layer)
<1> DEFINE rates == Rates(s, cut, n)
           rate == RatesOf(version, layer)
<1>1. k \in Nat /\ k \in Frames(s, cut, n)
  BY DEF Frames
<1>2. rates[k] = bit_rate(version, layer, i, 0) /\ \A j \in 0 .. k : rates[j] \in Nat
  <2>1. n \in Nat /\ \A j \in 0 .. n - 1 : rates[j] \in Nat
    BY RatesTyped DEF IsLayout
  <2>2. \A j \in 0 .. k : rates[j] \in Nat
    BY <2>1
  <2> QED BY <1>1, <2>2, RatesTyped
<1>3. types \in Row /\ rate \in Row /\ rate[i] = rates[k]
  <2>1. types \in Row
    BY DEF IsHistogram
  <2> QED BY <1>2, <2>1, RateTyped DEF RatesOf, Row
<1>4. /\ sum_of(new, 16) = sum_of(types, 16) + 1
      /\ sum_of(Weighed(new, rate), 16) = sum_of(Weighed(types, rate), 16) + rate[i]
  <2>1. types \in Row /\ rate \in Row
    BY <1>3
  <2> HIDE DEF rate
  <2>2. sum_of(new, 16) = sum_of(types, 16) + 1
    BY ONLY <2>1, i \in 0 .. 15, IsRaised(new, types, i), OneMore
  <2>3. sum_of(Weighed(new, rate), 16) = sum_of(Weighed(types, rate), 16) + rate[i]
    BY ONLY <2>1, i \in 0 .. 15, IsRaised(new, types, i), OneMore, SMTT(30)
  <2> QED BY <2>2, <2>3
<1>5. sum_of(new, 16) = Cardinality(Frames(s, cut, k + 1))
  BY <1>1, <1>4, FramesNext DEF IsHistogram
<1>6. sum_of(Weighed(new, rate), 16) = sum_of(rates, k + 1)
  <2>1. sum_of(Weighed(types, rate), 16) = sum_of(rates, k)
    BY DEF IsHistogram
  <2>2. sum_of(rates, k + 1) = sum_of(rates, k) + rates[k]
    <3> HIDE DEF rates
    <3> QED BY <1>1, <1>2, SumNext
  <2> HIDE DEF rates, rate
  <2> QED BY <1>3, <1>4, <2>1, <2>2
<1>7. ASSUME NEW j \in 0 .. 15
      PROVE  new[j] > 0 <=> \E m \in Frames(s, cut, k + 1) : RateIndex(s, cut[m]) = j
  <2>1. Frames(s, cut, k + 1) = Frames(s, cut, k) \cup {k}
    BY <1>1, FramesNext
  <2>2. types[j] > 0 <=> \E m \in Frames(s, cut, k) : RateIndex(s, cut[m]) = j
    BY DEF IsHistogram
  <2>3. CASE j = i
    <3>1. types[i] \in Nat
      BY <1>3 DEF Row
    <3>2. new[i] = types[i] + 1
      BY DEF IsRaised
    <3>3. new[i] > 0
      BY ONLY <3>1, <3>2
    <3> QED BY <2>1, <2>3, <3>3
  <2>4. CASE j # i
    <3>1. new[j] = types[j]
      BY <2>4 DEF IsRaised
    <3> QED BY <2>1, <2>2, <2>4, <3>1
  <2> QED BY <2>3, <2>4
<1> QED BY <1>5, <1>6, <1>7 DEF IsHistogram, IsRaised

CountsFrame(i, version, layer, hz) ==
    mp3' = [mp3 EXCEPT !.types[i] = @ + 1, !.version = version, !.layer = layer,
                       !.sample_rate = hz]

LEMMA CountedFrame ==
    ASSUME NEW cut, NEW n \in Nat, NEW k \in 0 .. n - 1, NEW version \in Versions, NEW layer \in 1 .. 3, NEW hz,
           bytes \in Seq(Byte), IsLayout(bytes, cut, n), Alike(bytes, cut, n, version, layer, hz),
           FrameBegins(bytes, cut[k]), file' = file,
           Counted(cut, n, k, version, layer, hz),
           NEW i, i = RateIndex(bytes, cut[k]), CountsFrame(i, version, layer, hz)
    PROVE  Counted(cut, n, k + 1, version, layer, hz)'
<1>1. bytes' = bytes
  BY DEF bytes
<1>2. /\ mp3' = [types |-> mp3'.types, version |-> mp3'.version, layer |-> mp3'.layer,
                 sample_rate |-> mp3'.sample_rate, id3 |-> mp3'.id3, end |-> mp3'.end]
      /\ mp3'.version = version /\ mp3'.layer = layer /\ mp3'.sample_rate = hz
      /\ mp3'.types = [mp3.types EXCEPT ![i] = @ + 1]
  BY DEF Counted, CountsFrame
<1>3. IsHistogram(mp3'.types, bytes, cut, n, k + 1, version, layer)
  <2> DEFINE types == mp3.types
             new == mp3'.types
  <2>1. IsHistogram(types, bytes, cut, n, k, version, layer) /\ types \in Row
    BY DEF Counted, IsHistogram
  <2>2. i \in 0 .. 15
    <3>1. k \in Frames(bytes, cut, n)
      BY DEF Frames
    <3> QED BY <3>1, RatesTyped
  <2>3. new = [types EXCEPT ![i] = @ + 1]
    BY <1>2
  <2> HIDE DEF types, new
  <2>4. IsRaised(new, types, i)
    BY ONLY <2>1, <2>2, <2>3, Raised
  <2>5. IsHistogram(new, bytes, cut, n, k + 1, version, layer)
    BY <2>1, <2>2, <2>4, HistogramGrows
  <2> QED BY <2>5 DEF new
<1> QED BY <1>1, <1>2, <1>3 DEF Counted

-----------------------------------------------------------------------------
(* Where the scan is                                                       *)

Mpeg(cut, n, version, layer, hz) ==
    bytes \in Seq(Byte) /\ extension = <<".mp3">> /\ IsMpeg(file, cut, n, version, layer, hz)

\* At the beginning of part k, with all before it counted.
AtPart(cut, n, version, layer, hz) ==
    \E k \in 0 .. n : at = cut[k] /\ Counted(cut, n, k, version, layer, hz)

\* Behind the first byte of a frame, or at a byte that is not the second of one.
AtHeader(cut, n, version, layer, hz) ==
    \E k \in 0 .. n - 1 :
        /\ Counted(cut, n, k, version, layer, hz)
        /\ \/ at = cut[k] + 1 /\ FrameBegins(bytes, cut[k])
           \/ at = cut[k] /\ bytes[at + 1] < 224

\* Behind the letters ID3.
AtTags(cut, n, version, layer, hz) ==
    \E k \in 0 .. n - 1 :
        /\ IsTags(bytes, cut[k], cut[k + 1]) /\ at = cut[k] + 3
        /\ Counted(cut, n, k + 1, version, layer, hz)

\* Anywhere, but the part behind the tags is known.
InTags(cut, n, version, layer, hz) ==
    \E k \in 0 .. n : mp3.end = cut[k] /\ Counted(cut, n, k, version, layer, hz)

HasCounts ==
    \A name \in DOMAIN file.counts : name \in DOMAIN track /\ track[name] = file.counts[name]

Where(cut, n, version, layer, hz) ==
    /\ pc \in {"start", "id3v1", "sync", "frame", "id3v2", "tags", "title", "returned", "fault"}
    /\ pc \in {"start", "id3v1"} => mp3 = mp3_start
    /\ pc = "start" => track = NULL
    /\ pc = "sync" => AtPart(cut, n, version, layer, hz)
    /\ pc = "frame" => AtHeader(cut, n, version, layer, hz)
    /\ pc = "id3v2" => AtTags(cut, n, version, layer, hz)
    /\ pc = "tags" => InTags(cut, n, version, layer, hz)
    /\ pc = "title" => HasCounts
    /\ pc = "returned" => track = NULL \/ HasCounts

LEMMA MpegIs ==
    ASSUME NEW cut, NEW n, NEW version, NEW layer, NEW hz, Mpeg(cut, n, version, layer, hz)
    PROVE  /\ bytes \in Seq(Byte) /\ n \in Nat /\ version \in Versions /\ layer \in 1 .. 3
           /\ IsLayout(bytes, cut, n) /\ Alike(bytes, cut, n, version, layer, hz)
           /\ cut[0] = 0 /\ Len(bytes) \in Nat
BY DEF Mpeg, IsMpeg, IsLayout, Versions, bytes

LEMMA CountedSame ==
    ASSUME NEW cut, NEW n, NEW k, NEW version, NEW layer, NEW hz,
           Counted(cut, n, k, version, layer, hz), file' = file, mp3' = mp3
    PROVE  Counted(cut, n, k, version, layer, hz)'
BY DEF Counted, bytes

\* A byte inside the file.
LEMMA Look ==
    ASSUME NEW s \in Seq(Byte), NEW p \in Nat, NEW j \in Nat, p + j < Len(s), NEW junk
    PROVE  /\ getub(s, p + j, junk) = s[p + j + 1] /\ s[p + j + 1] \in Byte
           /\ tell(s, p, j + 1) = p + j + 1
<1>1. p + j + 1 \in 1 .. Len(s)
  OBVIOUS
<1> QED BY <1>1 DEF getub, tell

\* The first bytes from here on.
LEMMA LookThree ==
    ASSUME bytes \in Seq(Byte), at \in Nat, NEW junk
    PROVE  /\ at < Len(bytes) => byte(0, junk) = bytes[at + 1] /\ read(1) = at + 1
           /\ at + 2 <= Len(bytes) => byte(1, junk) = bytes[at + 2] /\ read(2) = at + 2
           /\ at + 3 <= Len(bytes) => byte(2, junk) = bytes[at + 3] /\ read(3) = at + 3
BY DEF byte, read, getub, tell

-----------------------------------------------------------------------------
(* The steps                                                               *)

LEMMA NothingCounted ==
    ASSUME NEW cut, NEW n, NEW version, NEW layer, NEW hz, Mpeg(cut, n, version, layer, hz),
           mp3 = mp3_start
    PROVE  Counted(cut, n, 0, version, layer, hz)
<1>1. Frames(bytes, cut, 0) = {}
  BY DEF Frames
<1>2. mp3 = [types |-> mp3.types, version |-> mp3.version, layer |-> mp3.layer,
             sample_rate |-> mp3.sample_rate, id3 |-> mp3.id3, end |-> mp3.end]
      /\ mp3.types = [i \in 0 .. 15 |-> 0]
  BY DEF mp3_start
<1> DEFINE none == [i \in 0 .. 15 |-> 0]
<1>3. sum_of(none, 16) = 0
  <2>1. IsSums([k \in 0 .. 16 |-> 0], none, 16)
    BY DEF IsSums
  <2>2. PICK g : g = [k \in 0 .. 16 |-> 0]
    OBVIOUS
  <2>3. g[16] = 0 /\ IsSums(g, none, 16) /\ 16 \in Nat
    BY <2>1, <2>2
  <2> HIDE DEF none
  <2> QED BY <2>3, SumIs
<1>4. Weighed(none, RatesOf(version, layer)) = none
  <2>1. \A i \in 0 .. 15 : RatesOf(version, layer)[i] \in Nat
    BY MpegIs, RateTyped DEF RatesOf
  <2>2. \A a \in Nat : 0 * a = 0
    OBVIOUS
  <2> QED BY <2>1, <2>2 DEF Weighed
<1>5. sum_of(Rates(bytes, cut, n), 0) = 0
  <2>1. IsSums([k \in 0 .. 0 |-> 0], Rates(bytes, cut, n), 0)
    BY DEF IsSums
  <2>2. PICK g : g = [k \in 0 .. 0 |-> 0]
    OBVIOUS
  <2>3. g[0] = 0 /\ IsSums(g, Rates(bytes, cut, n), 0) /\ 0 \in Nat
    BY <2>1, <2>2
  <2> QED BY <2>3, SumIs
<1>6. IsHistogram(none, bytes, cut, n, 0, version, layer)
  <2>1. none \in Row /\ \A i \in 0 .. 15 : ~(none[i] > 0)
    BY DEF Row
  <2> HIDE DEF none
  <2> QED BY <1>1, <1>3, <1>4, <1>5, <2>1, FS_EmptySet DEF IsHistogram
<1> QED BY <1>1, <1>2, <1>6 DEF Counted

LEMMA OpenStep ==
    ASSUME NEW cut, NEW n, NEW version, NEW layer, NEW hz, Mpeg(cut, n, version, layer, hz),
           Where(cut, n, version, layer, hz), open_file
    PROVE  Where(cut, n, version, layer, hz)'
<1>1. Reader[<<".mp3">>] = "id3v1"
  BY DEF Reader
<1>2. pc' = "id3v1" /\ mp3' = mp3_start
  BY <1>1 DEF open_file, Mpeg, Where
<1> QED BY <1>2 DEF Where

LEMMA NoTrackStep ==
    ASSUME NEW cut, NEW n, NEW version, NEW layer, NEW hz,
           Where(cut, n, version, layer, hz), no_track
    PROVE  Where(cut, n, version, layer, hz)'
BY DEF Where, no_track

LEMMA UploadStep ==
    ASSUME NEW cut, NEW n, NEW version, NEW layer, NEW hz,
           Where(cut, n, version, layer, hz), upload
    PROVE  Where(cut, n, version, layer, hz)'
<1>1. HasCounts /\ file' = file /\ pc' = "returned" /\ track' = over(track, [title |-> ipod_file_name_of])
  BY DEF Where, upload
<1>2. HasCounts'
  BY <1>1 DEF HasCounts, over
<1> QED BY <1>1, <1>2 DEF Where

LEMMA Id3v1Step ==
    ASSUME NEW cut, NEW n, NEW version, NEW layer, NEW hz, Mpeg(cut, n, version, layer, hz),
           Where(cut, n, version, layer, hz), ipod_mp3_scan_id3v1
    PROVE  Where(cut, n, version, layer, hz)'
<1>1. Counted(cut, n, 0, version, layer, hz)
  BY NothingCounted DEF Where, ipod_mp3_scan_id3v1
<1>2. file' = file /\ mp3' = mp3 /\ (pc' = "fault" \/ (pc' = "sync" /\ at' = 0))
  BY DEF ipod_mp3_scan_id3v1, fault
<1>3. ASSUME pc' = "sync", at' = 0 PROVE AtPart(cut, n, version, layer, hz)'
  <2>1. 0 \in 0 .. n /\ cut[0] = 0
    BY MpegIs
  <2>2. Counted(cut, n, 0, version, layer, hz)'
    BY <1>1, <1>2, CountedSame
  <2> QED BY <1>3, <2>1, <2>2 DEF AtPart
<1> QED BY <1>2, <1>3 DEF Where

LEMMA TagStep ==
    ASSUME NEW cut, NEW n, NEW version, NEW layer, NEW hz,
           Where(cut, n, version, layer, hz), id3v2_frame
    PROVE  Where(cut, n, version, layer, hz)'
<1>1. PICK k \in 0 .. n : mp3.end = cut[k] /\ Counted(cut, n, k, version, layer, hz)
  BY DEF Where, id3v2_frame, InTags
<1>2. /\ file' = file /\ mp3' = mp3
      /\ pc' = "fault" \/ pc' = "tags" \/ (pc' = "sync" /\ at' = mp3.end)
  BY DEF id3v2_frame, fault
<1>3. Counted(cut, n, k, version, layer, hz)'
  BY <1>1, <1>2, CountedSame
<1>4. InTags(cut, n, version, layer, hz)' /\ (at' = mp3.end => AtPart(cut, n, version, layer, hz)')
  BY <1>1, <1>2, <1>3 DEF InTags, AtPart
<1> QED BY <1>2, <1>4 DEF Where

\* Part k of a file, and what is counted behind it if it is no frame.
LEMMA AtPartIs ==
    ASSUME NEW cut, NEW n, NEW version, NEW layer, NEW hz, Mpeg(cut, n, version, layer, hz),
           NEW k \in 0 .. n, at = cut[k], Counted(cut, n, k, version, layer, hz)
    PROVE  /\ at \in Nat /\ at <= Len(bytes) /\ (k # n <=> at < Len(bytes))
           /\ k # n =>
                 /\ k \in 0 .. n - 1 /\ k + 1 \in 0 .. n /\ cut[k + 1] \in Nat /\ cut[k + 1] <= Len(bytes)
                 /\ \/ IsFrame(bytes, at, cut[k + 1]) /\ FrameBegins(bytes, at)
                    \/ /\ IsTags(bytes, at, cut[k + 1]) \/ IsOther(bytes, at, cut[k + 1])
                       /\ ~FrameBegins(bytes, at)
                       /\ Counted(cut, n, k + 1, version, layer, hz)
<1>1. /\ at \in Nat /\ at <= Len(bytes) /\ (k # n <=> at < Len(bytes))
      /\ k # n =>
            /\ k \in 0 .. n - 1 /\ k + 1 \in 0 .. n /\ cut[k + 1] \in Nat /\ cut[k + 1] <= Len(bytes)
            /\ \/ IsFrame(bytes, at, cut[k + 1])
               \/ IsTags(bytes, at, cut[k + 1])
               \/ IsOther(bytes, at, cut[k + 1])
  BY MpegIs, Places
<1>2. ASSUME k # n, ~FrameBegins(bytes, at) PROVE Counted(cut, n, k + 1, version, layer, hz)
  BY <1>1, <1>2, MpegIs, CountedSkip
<1>3. /\ IsFrame(bytes, at, cut[k + 1]) => FrameBegins(bytes, at)
      /\ IsTags(bytes, at, cut[k + 1]) => ~FrameBegins(bytes, at)
      /\ IsOther(bytes, at, cut[k + 1]) => ~FrameBegins(bytes, at)
  BY <1>1, MpegIs, FrameIsFrame
<1> QED BY <1>1, <1>2, <1>3

\* What a byte that is no part of a frame or tags makes the scan do.
LEMMA OtherStep ==
    ASSUME bytes \in Seq(Byte), at \in Nat, IsOther(bytes, at, at + 1), scan_byte
    PROVE  /\ at' = at + 1
           /\ \/ pc' = "sync"
              \/ pc' = "frame" /\ at + 2 <= Len(bytes) /\ bytes[at + 2] < 224
<1>1. PICK junk \in Junk :
          IF byte(0, junk) # 73 THEN scan_on(byte(0, junk), read(1))
          ELSE IF byte(1, junk) # 68 THEN scan_on(byte(1, junk), read(2) - 1)
          ELSE IF byte(2, junk) # 51 THEN scan_on(byte(2, junk), read(3) - 2)
          ELSE at' = read(3) /\ pc' = "id3v2"
  BY DEF scan_byte
<1>2. /\ at < Len(bytes) /\ byte(0, junk) = bytes[at + 1] /\ read(1) = at + 1
      /\ at + 2 <= Len(bytes) => byte(1, junk) = bytes[at + 2] /\ read(2) = at + 2
      /\ at + 3 <= Len(bytes) => byte(2, junk) = bytes[at + 3] /\ read(3) = at + 3
  BY LookThree DEF scan_byte
<1>3. CASE bytes[at + 1] \notin {73, 255}
  BY <1>1, <1>2, <1>3 DEF scan_on, seek
<1>4. CASE bytes[at + 1] = 255 /\ at + 2 <= Len(bytes) /\ bytes[at + 2] < 224
  BY <1>1, <1>2, <1>4 DEF scan_on, seek
<1>5. CASE /\ bytes[at + 1] = 73 /\ at + 2 <= Len(bytes) /\ bytes[at + 2] # 255
           /\ bytes[at + 2] = 68 => at + 3 <= Len(bytes) /\ bytes[at + 3] # 51
  <2>1. CASE bytes[at + 2] # 68
    BY <1>1, <1>2, <1>5, <2>1 DEF scan_on, seek
  <2>2. CASE bytes[at + 2] = 68
    BY <1>1, <1>2, <1>5, <2>2 DEF scan_on, seek
  <2> QED BY <2>1, <2>2
<1> QED BY <1>3, <1>4, <1>5 DEF IsOther

\* Where the scan goes from the beginning of a part.
LEMMA ByteWalk ==
    ASSUME NEW cut, NEW n \in Nat, bytes \in Seq(Byte), IsLayout(bytes, cut, n),
           NEW k \in 0 .. n, at = cut[k], scan_byte
    PROVE  /\ file' = file /\ track' = track /\ mp3' = mp3 /\ k \in 0 .. n - 1
           /\ \/ FrameBegins(bytes, at) /\ at' = at + 1 /\ pc' = "frame"
              \/ ~FrameBegins(bytes, at) /\ IsTags(bytes, at, cut[k + 1]) /\ at' = at + 3 /\ pc' = "id3v2"
              \/ /\ ~FrameBegins(bytes, at) /\ IsOther(bytes, at, cut[k + 1]) /\ at' = cut[k + 1]
                 /\ \/ pc' = "sync"
                    \/ pc' = "frame" /\ k + 1 \in 0 .. n - 1 /\ bytes[at' + 1] < 224
<1>1. /\ at \in Nat /\ at < Len(bytes) /\ Len(bytes) \in Nat
      /\ k \in 0 .. n - 1 /\ k + 1 \in 0 .. n /\ cut[k + 1] \in Nat
      /\ \/ IsFrame(bytes, at, cut[k + 1])
         \/ IsTags(bytes, at, cut[k + 1])
         \/ IsOther(bytes, at, cut[k + 1])
  <2>1. at < Len(bytes)
    BY DEF scan_byte
  <2> QED BY <2>1, Places
<1>2. /\ IsFrame(bytes, at, cut[k + 1]) => FrameBegins(bytes, at)
      /\ IsTags(bytes, at, cut[k + 1]) => ~FrameBegins(bytes, at)
      /\ IsOther(bytes, at, cut[k + 1]) => ~FrameBegins(bytes, at)
  BY <1>1, FrameIsFrame
<1>3. file' = file /\ track' = track /\ mp3' = mp3
  BY DEF scan_byte
<1>4. CASE FrameBegins(bytes, at)
  <2>1. PICK junk \in Junk : byte(0, junk) # 73 => scan_on(byte(0, junk), read(1))
    BY DEF scan_byte
  <2>2. byte(0, junk) = 255 /\ read(1) = at + 1
    BY <1>1, <1>4, LookThree DEF FrameBegins
  <2>3. at' = at + 1 /\ pc' = "frame"
    BY <1>1, <2>1, <2>2 DEF scan_on, seek
  <2> QED BY <1>1, <1>3, <1>4, <2>3
<1>5. CASE IsTags(bytes, at, cut[k + 1])
  <2>1. PICK junk \in Junk :
            byte(0, junk) = 73 /\ byte(1, junk) = 68 /\ byte(2, junk) = 51 =>
                at' = read(3) /\ pc' = "id3v2"
    BY DEF scan_byte
  <2>2. /\ bytes[at + 1] = 73 /\ bytes[at + 2] = 68 /\ bytes[at + 3] = 51
        /\ at + 2 <= Len(bytes) /\ at + 3 <= Len(bytes)
    <3>1. /\ bytes[at + 1] = 73 /\ bytes[at + 2] = 68 /\ bytes[at + 3] = 51
          /\ at + 10 <= Len(bytes)
      BY <1>5 DEF IsTags
    <3>2. at \in Nat /\ Len(bytes) \in Nat
      BY <1>1
    <3> QED BY <3>1, <3>2, SMTT(30)
  <2>3. byte(0, junk) = 73 /\ byte(1, junk) = 68 /\ byte(2, junk) = 51 /\ read(3) = at + 3
    BY <1>1, <2>2, LookThree, ZenonT(30)
  <2> QED BY <1>1, <1>2, <1>3, <1>5, <2>1, <2>3
<1>6. CASE IsOther(bytes, at, cut[k + 1])
  <2>1. cut[k + 1] = at + 1
    BY <1>6 DEF IsOther
  <2>2. /\ at' = cut[k + 1]
        /\ pc' = "sync" \/ (pc' = "frame" /\ at + 2 <= Len(bytes) /\ bytes[at + 2] < 224)
    BY <1>1, <1>6, <2>1, OtherStep
  <2>3. ASSUME at + 2 <= Len(bytes), bytes[at + 2] < 224
        PROVE  k + 1 \in 0 .. n - 1 /\ bytes[at' + 1] < 224
    <3>1. cut[k + 1] < Len(bytes)
      BY <1>1, <2>1, <2>3
    <3>2. k + 1 # n
      BY <1>1, <3>1, Places
    <3>3. at' + 1 = at + 2
      BY <1>1, <2>1, <2>2
    <3> QED BY <1>1, <2>3, <3>2, <3>3
  <2> QED BY <1>1, <1>2, <1>3, <1>6, <2>2, <2>3
<1> QED BY <1>1, <1>2, <1>4, <1>5, <1>6

LEMMA ByteStep ==
    ASSUME NEW cut, NEW n, NEW version, NEW layer, NEW hz, Mpeg(cut, n, version, layer, hz),
           Where(cut, n, version, layer, hz), scan_byte
    PROVE  Where(cut, n, version, layer, hz)'
<1>1. PICK k \in 0 .. n : at = cut[k] /\ Counted(cut, n, k, version, layer, hz)
  BY DEF Where, scan_byte, AtPart
<1>2. /\ file' = file /\ mp3' = mp3 /\ k \in 0 .. n - 1
      /\ \/ FrameBegins(bytes, at) /\ at' = at + 1 /\ pc' = "frame"
         \/ ~FrameBegins(bytes, at) /\ IsTags(bytes, at, cut[k + 1]) /\ at' = at + 3 /\ pc' = "id3v2"
         \/ /\ ~FrameBegins(bytes, at) /\ IsOther(bytes, at, cut[k + 1]) /\ at' = cut[k + 1]
            /\ \/ pc' = "sync"
               \/ pc' = "frame" /\ k + 1 \in 0 .. n - 1 /\ bytes[at' + 1] < 224
  BY <1>1, MpegIs, ByteWalk
<1>3. /\ bytes' = bytes /\ k + 1 \in 0 .. n
      /\ Counted(cut, n, k, version, layer, hz)'
      /\ ~FrameBegins(bytes, at) => Counted(cut, n, k + 1, version, layer, hz)'
  <2>1. k # n /\ k + 1 \in 0 .. n
    BY <1>2, MpegIs
  <2>2. ~FrameBegins(bytes, at) => Counted(cut, n, k + 1, version, layer, hz)
    BY <1>1, <2>1, AtPartIs
  <2> QED BY <1>1, <1>2, <2>1, <2>2, CountedSame DEF bytes
<1>4. CASE FrameBegins(bytes, at) /\ at' = at + 1 /\ pc' = "frame"
  <2>1. AtHeader(cut, n, version, layer, hz)'
    BY <1>1, <1>2, <1>3, <1>4 DEF AtHeader
  <2> QED BY <1>4, <2>1 DEF Where
<1>5. CASE ~FrameBegins(bytes, at) /\ IsTags(bytes, at, cut[k + 1]) /\ at' = at + 3 /\ pc' = "id3v2"
  <2>1. AtTags(cut, n, version, layer, hz)'
    BY <1>1, <1>2, <1>3, <1>5 DEF AtTags
  <2> QED BY <1>5, <2>1 DEF Where
<1>6. CASE ~FrameBegins(bytes, at) /\ at' = cut[k + 1] /\ pc' = "sync"
  <2>1. AtPart(cut, n, version, layer, hz)'
    BY <1>3, <1>6 DEF AtPart
  <2> QED BY <1>6, <2>1 DEF Where
<1>7. CASE /\ ~FrameBegins(bytes, at) /\ at' = cut[k + 1] /\ pc' = "frame"
           /\ k + 1 \in 0 .. n - 1 /\ bytes[at' + 1] < 224
  <2>1. AtHeader(cut, n, version, layer, hz)'
    BY <1>3, <1>7 DEF AtHeader
  <2> QED BY <1>7, <2>1 DEF Where
<1> QED BY <1>2, <1>4, <1>5, <1>6, <1>7

\* Bytes that are in the file.
LEMMA Inside ==
    ASSUME NEW s \in Seq(Byte), NEW p \in Nat, NEW n \in Nat, p + n <= Len(s), NEW junk
    PROVE  /\ bytes_at(s, p, n, junk) = SubSeq(s, p + 1, p + n)
           /\ SubSeq(s, p + 1, p + n) \in Seq(Byte) /\ Len(SubSeq(s, p + 1, p + n)) = n
<1> DEFINE inside == SubSeq(s, p + 1, p + n)
<1>1. inside \in Seq(Byte) /\ Len(inside) = n
  OBVIOUS
<1>2. bytes_at(s, p, n, junk) = inside \o [k \in 1 .. n - Len(inside) |-> junk]
  BY DEF bytes_at
<1> HIDE DEF inside
<1>3. [k \in 1 .. n - Len(inside) |-> junk] = <<>>
  BY <1>1
<1>4. inside \o <<>> = inside
  BY <1>1
<1> QED BY <1>1, <1>2, <1>3, <1>4 DEF inside

LEMMA PartOf ==
    ASSUME NEW s \in Seq(Byte), NEW p \in Nat, NEW n \in Nat, p + n <= Len(s)
    PROVE  /\ DOMAIN SubSeq(s, p + 1, p + n) = 1 .. n
           /\ \A i \in 1 .. n : SubSeq(s, p + 1, p + n)[i] = s[p + i]
<1>1. Len(SubSeq(s, p + 1, p + n)) = n
  OBVIOUS
<1>2. \A i \in 1 .. n : SubSeq(s, p + 1, p + n)[i] = s[p + i]
  OBVIOUS
<1> QED BY <1>1, <1>2

\* The header of tags that lie in the file tells where they end.
LEMMA TagsEnd ==
    ASSUME NEW s \in Seq(Byte), NEW p \in Nat, NEW e, IsTags(s, p, e), NEW junk
    PROVE  tell(s, p + 3, 7) + getul_ss(s, p + 3 + 3, junk) = e
<1>1. p + 10 <= Len(s) /\ Len(s) \in Nat /\ e = p + 10 + number(SubSeq(s, p + 7, p + 10), 128)
  BY DEF IsTags
<1>2. tell(s, p + 3, 7) = p + 10
  BY <1>1 DEF tell
<1>3. bytes_at(s, p + 6, 4, junk) = SubSeq(s, p + 7, p + 10)
  <2>1. PICK l \in Nat : l = 4
    OBVIOUS
  <2>2. PICK m \in Nat : m = p + 6
    OBVIOUS
  <2>3. m + l <= Len(s) /\ m + 1 = p + 7 /\ m + l = p + 10
    BY <1>1, <2>1, <2>2
  <2>4. bytes_at(s, m, l, junk) = SubSeq(s, m + 1, m + l)
    BY ONLY s \in Seq(Byte), m \in Nat, l \in Nat, <2>3, Inside
  <2> QED BY <2>1, <2>2, <2>3, <2>4
<1>4. p + 3 + 3 = p + 6
  OBVIOUS
<1> QED BY <1>1, <1>2, <1>3, <1>4 DEF getul_ss

LEMMA Id3v2Step ==
    ASSUME NEW cut, NEW n, NEW version, NEW layer, NEW hz, Mpeg(cut, n, version, layer, hz),
           Where(cut, n, version, layer, hz), ipod_mp3_scan_id3v2
    PROVE  Where(cut, n, version, layer, hz)'
<1>1. PICK k \in 0 .. n - 1 : /\ IsTags(bytes, cut[k], cut[k + 1]) /\ at = cut[k] + 3
                              /\ Counted(cut, n, k + 1, version, layer, hz)
  BY DEF Where, ipod_mp3_scan_id3v2, AtTags
<1>2. bytes \in Seq(Byte) /\ n \in Nat /\ k + 1 \in 0 .. n /\ cut[k] \in Nat
  <2>1. bytes \in Seq(Byte) /\ n \in Nat
    BY MpegIs
  <2>2. k \in 0 .. n /\ k + 1 \in 0 .. n
    BY <2>1
  <2> QED BY <2>1, <2>2, MpegIs, Places
<1>3. PICK junk \in Junk :
          LET end == read(7) + getul_ss(bytes, at + 3, junk)
          IN  \/ /\ mp3' = [mp3 EXCEPT !.id3 = byte(0, junk), !.end = end]
                 /\ pc' = "tags"
              \/ at' = end /\ pc' = "sync" /\ UNCHANGED mp3
  BY DEF ipod_mp3_scan_id3v2
<1>4. read(7) + getul_ss(bytes, at + 3, junk) = cut[k + 1]
  BY <1>1, <1>2, TagsEnd DEF read
<1>5. file' = file
  BY DEF ipod_mp3_scan_id3v2
<1>6. CASE mp3' = [mp3 EXCEPT !.id3 = byte(0, junk), !.end = cut[k + 1]] /\ pc' = "tags"
  <2>1. mp3' = [mp3 EXCEPT !.id3 = mp3'.id3, !.end = mp3'.end] /\ mp3'.end = cut[k + 1]
    BY <1>1, <1>6 DEF Counted
  <2>2. Counted(cut, n, k + 1, version, layer, hz)'
    BY <1>1, <1>2, <1>5, <2>1, CountedStays
  <2>3. InTags(cut, n, version, layer, hz)'
    BY <1>2, <2>1, <2>2 DEF InTags
  <2> QED BY <1>6, <2>3 DEF Where
<1>7. CASE at' = cut[k + 1] /\ pc' = "sync" /\ mp3' = mp3
  <2>1. Counted(cut, n, k + 1, version, layer, hz)'
    BY <1>1, <1>5, <1>7, CountedSame
  <2>2. AtPart(cut, n, version, layer, hz)'
    BY <1>2, <1>7, <2>1 DEF AtPart
  <2> QED BY <1>7, <2>2 DEF Where
<1> QED BY <1>3, <1>4, <1>6, <1>7

\* A frame has a length.
LEMMA SampleRatesTyped ==
    ASSUME NEW v \in 0 .. 3, NEW i \in 0 .. 3
    PROVE  sample_rates[v + 1][i + 1] \in Nat
<1>1. /\ sample_rates[1] = <<11025, 12000, 8000, 50000>> /\ sample_rates[2] = <<0, 0, 0, 0>>
      /\ sample_rates[3] = <<22050, 24000, 16000, 50000>>
      /\ sample_rates[4] = <<44100, 48000, 32000, 50000>>
  BY DEF sample_rates
<1>2. v \in {0, 1, 2, 3} /\ i \in {0, 1, 2, 3}
  OBVIOUS
<1>3. CASE v = 0
  BY <1>1, <1>2, <1>3
<1>4. CASE v = 1
  BY <1>1, <1>2, <1>4
<1>5. CASE v = 2
  BY <1>1, <1>2, <1>5
<1>6. CASE v = 3
  BY <1>1, <1>2, <1>6
<1> QED BY <1>2, <1>3, <1>4, <1>5, <1>6

LEMMA FrameLengthTyped ==
    ASSUME NEW layer \in 1 .. 3, NEW rate \in Nat, NEW pad \in Nat, NEW hz \in Nat \ {0}
    PROVE  frame_length(layer, rate, hz, pad) \in Nat
<1>1. 12 * 1000 * rate \in Nat /\ 144 * 1000 * rate \in Nat
  OBVIOUS
<1>2. \A a \in Nat : a \div hz \in Nat
  OBVIOUS
<1>3. \A a \in Nat : (a + pad) * 4 \in Nat /\ a + pad \in Nat
  OBVIOUS
<1>4. PICK a \in Nat : a = (12 * 1000 * rate) \div hz
  BY <1>1, <1>2
<1>5. PICK b \in Nat : b = (144 * 1000 * rate) \div hz
  BY <1>1, <1>2
<1>6. frame_length(layer, rate, hz, pad) = IF layer = LAYER_1 THEN (a + pad) * 4 ELSE b + pad
  BY <1>4, <1>5 DEF frame_length
<1> QED BY <1>3, <1>6

LEMMA LengthTyped ==
    ASSUME NEW s \in Seq(Byte), NEW p \in Nat, p + 4 <= Len(s), SampleRate(s, p) > 0,
           NEW version \in Versions, NEW layer \in 1 .. 3, Version(s, p) = version, Layer(s, p) = layer
    PROVE  frame_length(layer, BitRate(s, p), SampleRate(s, p), Padding(s, p)) \in Nat
<1>1. /\ s[p + 3] \in Byte /\ RateIndex(s, p) \in 0 .. 15 /\ Padding(s, p) \in Nat
      /\ Version(s, p) \in 0 .. 3
  BY HeaderTyped
<1>2. BitRate(s, p) \in Nat
  BY <1>1, RateTyped DEF BitRate
<1>3. SampleRate(s, p) \in Nat \ {0}
  <2>1. (s[p + 3] \div 4) % 4 \in 0 .. 3
    <3>1. \A b \in Byte : (b \div 4) % 4 \in 0 .. 3
      BY DEF Byte
    <3> QED BY <1>1, <3>1
  <2>2. SampleRate(s, p) \in Nat
    BY <1>1, <2>1, SampleRatesTyped DEF SampleRate
  <2> QED BY <2>2
<1> QED BY <1>1, <1>2, <1>3, FrameLengthTyped

\* From the header of a frame the scan goes to its end.
LEMMA HeaderStep ==
    ASSUME NEW p \in Nat, NEW e \in Nat, NEW version \in Versions, NEW layer \in 1 .. 3, NEW hz,
           bytes \in Seq(Byte), e <= Len(bytes), IsFrame(bytes, p, e), at = p + 1,
           Version(bytes, p) = version, Layer(bytes, p) = layer, SampleRate(bytes, p) = hz,
           scan_frame
    PROVE  /\ pc' = "sync" /\ at' = e /\ file' = file /\ track' = track
           /\ CountsFrame(RateIndex(bytes, p), version, layer, hz)
<1>1. /\ p + 4 <= Len(bytes) /\ p + 4 <= e /\ Len(bytes) \in Nat
      /\ FrameBegins(bytes, p) /\ HasNoCrc(bytes, p) /\ SampleRate(bytes, p) > 0
      /\ e = p + frame_length(layer, BitRate(bytes, p), hz, Padding(bytes, p))
  BY DEF IsFrame
<1>2. PICK junk \in Junk :
          LET index == byte(1, junk) \div 16
              sample_rate == sample_rates[((byte(0, junk) \div 8) % 4) + 1][((byte(1, junk) \div 4) % 4) + 1]
              length == frame_length((byte(0, junk) \div 2) % 4,
                                     bit_rate((byte(0, junk) \div 8) % 4, (byte(0, junk) \div 2) % 4,
                                              index, junk),
                                     sample_rate, (byte(1, junk) \div 2) % 2)
          IN  ~(byte(0, junk) < 224) /\ sample_rate # 0 /\ byte(0, junk) % 2 = 1 =>
                  /\ at' = seek(read(3), read(3) + length - 4)
                  /\ mp3' = [mp3 EXCEPT !.types[index] = @ + 1, !.version = (byte(0, junk) \div 8) % 4,
                                        !.layer = (byte(0, junk) \div 2) % 4,
                                        !.sample_rate = sample_rate]
                  /\ pc' = "sync" /\ UNCHANGED <<file, track>>
  BY DEF scan_frame
<1>3. byte(0, junk) = bytes[p + 2] /\ byte(1, junk) = bytes[p + 3] /\ read(3) = p + 4
  <2>1. /\ at \in Nat /\ at + 1 = p + 2 /\ at + 2 = p + 3 /\ at + 3 = p + 4
        /\ at < Len(bytes) /\ at + 2 <= Len(bytes) /\ at + 3 <= Len(bytes)
    BY <1>1
  <2> QED BY <2>1, LookThree
<1>4. bytes[p + 2] \in Byte /\ bytes[p + 3] \in Byte /\ RateIndex(bytes, p) \in 0 .. 15
  BY <1>1, HeaderTyped
<1>5. bit_rate(version, layer, RateIndex(bytes, p), junk) = BitRate(bytes, p)
  BY <1>4, RateTyped DEF BitRate
<1>6. ~(bytes[p + 2] < 224) /\ bytes[p + 2] % 2 = 1 /\ hz # 0
  <2>1. hz > 0 /\ bytes[p + 2] >= 224 /\ bytes[p + 2] % 2 = 1
    BY <1>1 DEF FrameBegins, HasNoCrc
  <2>2. Byte \subseteq Nat
    BY CharactersAreNumbers
  <2>3. bytes[p + 2] \in Nat
    BY <1>4, <2>2
  <2> QED BY <2>1, <2>3
<1> DEFINE length == frame_length(layer, BitRate(bytes, p), hz, Padding(bytes, p))
<1>7. /\ at' = seek(p + 4, p + 4 + length - 4) /\ pc' = "sync" /\ file' = file /\ track' = track
      /\ CountsFrame(RateIndex(bytes, p), version, layer, hz)
  BY <1>2, <1>3, <1>5, <1>6 DEF CountsFrame, Version, Layer, SampleRate, RateIndex, Padding
<1>8. seek(p + 4, p + 4 + length - 4) = e
  <2>1. PICK l \in Nat : l = length
    BY <1>1, <1>4, LengthTyped
  <2>2. e = p + l /\ e >= 0 /\ p + 4 + l - 4 = p + l
    BY <1>1, <2>1
  <2> HIDE DEF length
  <2> QED BY <2>1, <2>2 DEF seek
<1> QED BY <1>7, <1>8

\* A byte that is not the second of a frame is looked at again.
LEMMA BackStep ==
    ASSUME bytes \in Seq(Byte), at \in Nat, at < Len(bytes), bytes[at + 1] < 224, scan_frame
    PROVE  pc' = "sync" /\ at' = at /\ file' = file /\ track' = track /\ mp3' = mp3
<1>1. PICK junk \in Junk : byte(0, junk) < 224 =>
          at' = seek(at, read(1) - 1) /\ pc' = "sync" /\ UNCHANGED <<file, track, mp3, m4a>>
  BY DEF scan_frame
<1>2. byte(0, junk) = bytes[at + 1] /\ read(1) = at + 1
  BY LookThree
<1> QED BY <1>1, <1>2 DEF seek

\* Where the scan goes from the header of a frame, or from what is none.
LEMMA HeaderWalk ==
    ASSUME NEW cut, NEW n, NEW version, NEW layer, NEW hz, Mpeg(cut, n, version, layer, hz),
           NEW k \in 0 .. n - 1, \/ at = cut[k] + 1 /\ FrameBegins(bytes, cut[k])
                                 \/ at = cut[k] /\ bytes[at + 1] < 224,
           scan_frame
    PROVE  /\ pc' = "sync" /\ file' = file /\ track' = track
           /\ \/ /\ FrameBegins(bytes, cut[k]) /\ at = cut[k] + 1 /\ at' = cut[k + 1]
                 /\ CountsFrame(RateIndex(bytes, cut[k]), version, layer, hz)
              \/ at = cut[k] /\ at' = cut[k] /\ mp3' = mp3
<1>1. /\ bytes \in Seq(Byte) /\ n \in Nat /\ version \in Versions /\ layer \in 1 .. 3
      /\ IsLayout(bytes, cut, n) /\ Alike(bytes, cut, n, version, layer, hz)
  BY MpegIs
<1>2. k \in 0 .. n /\ k # n
  BY <1>1
<1>3. /\ cut[k] \in Nat /\ cut[k] < Len(bytes) /\ cut[k + 1] \in Nat /\ cut[k + 1] <= Len(bytes)
      /\ FrameBegins(bytes, cut[k]) => IsFrame(bytes, cut[k], cut[k + 1])
  BY <1>1, <1>2, Places, FrameIsFrame
<1>4. CASE at = cut[k] + 1 /\ FrameBegins(bytes, cut[k])
  <2>1. Version(bytes, cut[k]) = version /\ Layer(bytes, cut[k]) = layer /\ SampleRate(bytes, cut[k]) = hz
    BY <1>1, <1>4 DEF Alike, Frames
  <2>2. /\ pc' = "sync" /\ at' = cut[k + 1] /\ file' = file /\ track' = track
        /\ CountsFrame(RateIndex(bytes, cut[k]), version, layer, hz)
    BY <1>1, <1>3, <1>4, <2>1, HeaderStep
  <2> QED BY <1>4, <2>2
<1>5. CASE at = cut[k] /\ bytes[at + 1] < 224
  BY <1>1, <1>3, <1>5, BackStep
<1> QED BY <1>4, <1>5

LEMMA FrameStep ==
    ASSUME NEW cut, NEW n, NEW version, NEW layer, NEW hz, Mpeg(cut, n, version, layer, hz),
           Where(cut, n, version, layer, hz), scan_frame
    PROVE  Where(cut, n, version, layer, hz)'
<1>1. PICK k \in 0 .. n - 1 : /\ Counted(cut, n, k, version, layer, hz)
                              /\ \/ at = cut[k] + 1 /\ FrameBegins(bytes, cut[k])
                                 \/ at = cut[k] /\ bytes[at + 1] < 224
  BY DEF Where, scan_frame, AtHeader
<1>2. /\ bytes \in Seq(Byte) /\ n \in Nat /\ version \in Versions /\ layer \in 1 .. 3
      /\ IsLayout(bytes, cut, n) /\ Alike(bytes, cut, n, version, layer, hz)
  BY MpegIs
<1>3. k \in 0 .. n /\ k + 1 \in 0 .. n
  BY <1>2
<1>4. /\ pc' = "sync" /\ file' = file
      /\ \/ /\ FrameBegins(bytes, cut[k]) /\ at' = cut[k + 1]
            /\ CountsFrame(RateIndex(bytes, cut[k]), version, layer, hz)
         \/ at' = cut[k] /\ mp3' = mp3
  BY <1>1, HeaderWalk
<1>5. CASE /\ FrameBegins(bytes, cut[k]) /\ at' = cut[k + 1]
           /\ CountsFrame(RateIndex(bytes, cut[k]), version, layer, hz)
  <2>1. Counted(cut, n, k + 1, version, layer, hz)'
    BY <1>1, <1>2, <1>4, <1>5, CountedFrame
  <2>2. AtPart(cut, n, version, layer, hz)'
    BY <1>3, <1>5, <2>1 DEF AtPart
  <2> QED BY <1>4, <2>2 DEF Where
<1>6. CASE at' = cut[k] /\ mp3' = mp3
  <2>1. Counted(cut, n, k, version, layer, hz)'
    BY <1>1, <1>4, <1>6, CountedSame
  <2>2. AtPart(cut, n, version, layer, hz)'
    BY <1>3, <1>6, <2>1 DEF AtPart
  <2> QED BY <1>4, <2>2 DEF Where
<1> QED BY <1>4, <1>5, <1>6

\* A set has more than one element if two of them differ.
LEMMA MoreThanOne ==
    ASSUME NEW S, IsFiniteSet(S), S # {}
    PROVE  Cardinality(S) > 1 <=> ~(\A i, j \in S : i = j)
<1>1. Cardinality(S) \in Nat /\ Cardinality(S) # 0
  BY FS_CardinalityType, FS_EmptySet
<1>2. Cardinality(S) = 1 <=> \E x : S = {x}
  BY FS_Singleton
<1>3. (\E x : S = {x}) <=> \A i, j \in S : i = j
  OBVIOUS
<1>4. Cardinality(S) > 1 <=> ~(Cardinality(S) = 1)
  BY <1>1
<1> QED BY <1>2, <1>3, <1>4

Found(types) == {i \in 0 .. 15 : types[i] > 0}

\* The kinds that were counted are the kinds of frames there are.
LEMMA KindsFound ==
    ASSUME NEW types, NEW s, NEW cut, NEW n, NEW version, NEW layer,
           IsHistogram(types, s, cut, n, n, version, layer),
           \A k \in Frames(s, cut, n) : RateIndex(s, cut[k]) \in 0 .. 15,
           Found(types) # {}
    PROVE  /\ Frames(s, cut, n) # {}
           /\ Cardinality(Found(types)) > 1 <=>
                  ~(\A j, k \in Frames(s, cut, n) : RateIndex(s, cut[j]) = RateIndex(s, cut[k]))
<1> DEFINE frames == Frames(s, cut, n)
           index(k) == RateIndex(s, cut[k])
<1>1. IsFiniteSet(Found(types))
  <2>1. IsFiniteSet(0 .. 15)
    <3>1. 0 \in Int /\ 15 \in Int
      OBVIOUS
    <3> QED BY <3>1, FS_Interval
  <2>2. Found(types) \subseteq 0 .. 15
    BY DEF Found
  <2> QED BY <2>1, <2>2, FS_Subset
<1>2. \A i : i \in Found(types) <=> \E k \in frames : index(k) = i
  BY DEF IsHistogram, Found
<1> HIDE DEF frames, index
<1>3. (\A i, j \in Found(types) : i = j) <=> \A j, k \in frames : index(j) = index(k)
  BY <1>2
<1>4. frames # {}
  BY <1>2
<1> QED BY <1>1, <1>3, <1>4, MoreThanOne DEF frames, index

\* The counts among what was set.
SoundCounts(size, rate, hz, duration, vbr) ==
    [size |-> size, sample_rate |-> hz, bit_rate |-> rate, duration |-> duration, vbr |-> vbr]
SoundValues(size, rate, hz, duration, vbr) ==
    [size |-> size, bit_rate |-> rate, sample_rate |-> hz, duration |-> duration, vbr |-> vbr,
     filetype |-> "MPEG audio file"]

LEMMA CountsSet ==
    ASSUME NEW size, NEW rate, NEW hz, NEW duration, NEW vbr, NEW t
    PROVE  LET counts == SoundCounts(size, rate, hz, duration, vbr)
               new == over(SoundValues(size, rate, hz, duration, vbr), t)
           IN  \A name \in DOMAIN counts : name \in DOMAIN new /\ new[name] = counts[name]
<1> DEFINE counts == SoundCounts(size, rate, hz, duration, vbr)
           new == over(SoundValues(size, rate, hz, duration, vbr), t)
<1>1. DOMAIN counts = {"size", "sample_rate", "bit_rate", "duration", "vbr"}
  BY DEF SoundCounts
<1>2. /\ "size" \in DOMAIN new /\ new["size"] = size
      /\ "sample_rate" \in DOMAIN new /\ new["sample_rate"] = hz
      /\ "bit_rate" \in DOMAIN new /\ new["bit_rate"] = rate
      /\ "duration" \in DOMAIN new /\ new["duration"] = duration
      /\ "vbr" \in DOMAIN new /\ new["vbr"] = vbr
  BY DEF over, SoundValues
<1>3. /\ counts["size"] = size /\ counts["sample_rate"] = hz /\ counts["bit_rate"] = rate
      /\ counts["duration"] = duration /\ counts["vbr"] = vbr
  BY DEF SoundCounts
<1> QED BY ONLY <1>1, <1>2, <1>3

LEMMA EndStep ==
    ASSUME NEW cut, NEW n, NEW version, NEW layer, NEW hz, Mpeg(cut, n, version, layer, hz),
           Where(cut, n, version, layer, hz), scan_end
    PROVE  Where(cut, n, version, layer, hz)'
<1>1. Counted(cut, n, n, version, layer, hz)
  <2>1. PICK k \in 0 .. n : at = cut[k] /\ Counted(cut, n, k, version, layer, hz)
    BY DEF Where, scan_end, AtPart
  <2>2. at \in Nat /\ Len(bytes) \in Nat /\ (k # n <=> at < Len(bytes))
    BY <2>1, AtPartIs, MpegIs
  <2>3. at >= Len(bytes)
    BY DEF scan_end
  <2>4. k = n
    BY <2>2, <2>3
  <2> QED BY <2>1, <2>4
<1>2. /\ bytes \in Seq(Byte) /\ n \in Nat /\ version \in Versions /\ layer \in 1 .. 3
      /\ IsLayout(bytes, cut, n) /\ Alike(bytes, cut, n, version, layer, hz)
  BY MpegIs
<1> DEFINE types == mp3.types
           frames == Frames(bytes, cut, n)
           total_rate(junk) == sum_of([i \in 0 .. 15 |->
                                   mp3.types[i] * bit_rate(mp3.version, mp3.layer, i, junk)], 16)
           samples == frame_count * (IF mp3.layer = LAYER_1 THEN 384 ELSE 1152)
           duration == (samples \div mp3.sample_rate) * 1000
           vbr == IF Cardinality(Found(types)) > 1 THEN 257 ELSE 256
<1>3. IsHistogram(types, bytes, cut, n, n, version, layer) /\ types \in Row
  BY <1>1 DEF Counted, IsHistogram
<1>4. \A k \in frames : RateIndex(bytes, cut[k]) \in 0 .. 15
  BY <1>2, RatesTyped
<1>5. PICK junk \in Junk :
          IF Found(types) = {} THEN fault
          ELSE /\ set([size |-> Len(bytes),
                       bit_rate |-> total_rate(junk) \div frame_count,
                       sample_rate |-> mp3.sample_rate,
                       duration |-> duration,
                       vbr |-> vbr,
                       filetype |-> "MPEG audio file"])
               /\ pc' = "title"
               /\ UNCHANGED <<file, at, mp3, m4a>>
  BY DEF scan_end, Found
<1>6. CASE Found(types) = {}
  <2>1. pc' = "fault"
    BY <1>5, <1>6 DEF fault
  <2> QED BY <2>1 DEF Where
<1>7. CASE Found(types) # {}
  <2>1. /\ frames # {}
        /\ Cardinality(Found(types)) > 1 <=>
               ~(\A j, k \in frames : RateIndex(bytes, cut[j]) = RateIndex(bytes, cut[k]))
    <3> HIDE DEF types
    <3> QED BY <1>3, <1>4, <1>7, KindsFound
  <2>2. mp3.version = version /\ mp3.layer = layer /\ mp3.sample_rate = hz
    BY <1>1, <2>1 DEF Counted
  <2>3. total_rate(junk) = sum_of(Rates(bytes, cut, n), n)
    <3>1. total_rate(junk) = sum_of([i \in 0 .. 15 |->
                                 types[i] * bit_rate(version, layer, i, junk)], 16)
      BY <2>2
    <3>2. [i \in 0 .. 15 |-> types[i] * bit_rate(version, layer, i, junk)]
              = Weighed(types, RatesOf(version, layer))
      <4>1. PICK row \in Row : row = types
        BY <1>3
      <4>2. [i \in 0 .. 15 |-> row[i] * bit_rate(version, layer, i, junk)]
                = Weighed(row, RatesOf(version, layer))
        <5>1. PICK v \in Versions, l \in 1 .. 3 : v = version /\ l = layer
          BY ONLY <1>2
        <5>2. [i \in 0 .. 15 |-> row[i] * bit_rate(v, l, i, junk)] = Weighed(row, RatesOf(v, l))
          <6>1. \A i \in 0 .. 15 : bit_rate(v, l, i, junk) = RatesOf(v, l)[i]
            BY ONLY v \in Versions, l \in 1 .. 3, RateTyped DEF RatesOf
          <6> QED BY ONLY <6>1 DEF Weighed
        <5> QED BY ONLY <5>1, <5>2
      <4> QED BY ONLY <4>1, <4>2
    <3>3. sum_of(Weighed(types, RatesOf(version, layer)), 16) = sum_of(Rates(bytes, cut, n), n)
      BY <1>3 DEF IsHistogram
    <3> HIDE DEF total_rate, types
    <3> QED BY <3>1, <3>2, <3>3
  <2>4. frame_count = Cardinality(frames)
    BY <1>3 DEF IsHistogram, frame_count
  <2>5. duration = ((Cardinality(frames) * Samples(layer)) \div hz) * 1000
    BY <2>2, <2>4 DEF Samples
  <2>6. vbr = IF \A j, k \in frames : RateIndex(bytes, cut[j]) = RateIndex(bytes, cut[k])
              THEN 256 ELSE 257
    BY <2>1
  <2> DEFINE rate == total_rate(junk) \div frame_count
  <2>7. rate = sum_of(Rates(bytes, cut, n), n) \div Cardinality(frames)
    <3> HIDE DEF total_rate
    <3> QED BY <2>3, <2>4
  <2>8. file.counts = SoundCounts(Len(bytes), rate, hz, duration, vbr)
    <3>1. file.counts = FrameCounts(bytes, cut, n, layer, hz)
      BY DEF Mpeg, IsMpeg, bytes
    <3> HIDE DEF rate, duration, vbr
    <3> QED BY <2>5, <2>6, <2>7, <3>1 DEF FrameCounts, SoundCounts
  <2>9. /\ pc' = "title" /\ file' = file
        /\ track' = over(SoundValues(Len(bytes), rate, hz, duration, vbr), track)
    <3> HIDE DEF total_rate, duration, vbr, types
    <3> QED BY <1>5, <1>7, <2>2 DEF set, SoundValues
  <2>10. HasCounts'
    <3> HIDE DEF rate, duration, vbr
    <3>1. \A name \in DOMAIN file.counts :
              name \in DOMAIN track' /\ track'[name] = file.counts[name]
      BY <2>8, <2>9, CountsSet
    <3> QED BY <2>9, <3>1 DEF HasCounts
  <2> QED BY <2>9, <2>10 DEF Where
<1> QED BY <1>6, <1>7

-----------------------------------------------------------------------------
(* The invariant                                                           *)

FileTyped == bytes \in Seq(Byte)

IInv ==
    /\ FileTyped
    /\ extension = <<".mp3">> =>
           \A cut, n, version, layer, hz :
               IsMpeg(file, cut, n, version, layer, hz) => Where(cut, n, version, layer, hz)

LEMMA InitIInv == Init => IInv
<1> SUFFICES ASSUME Init PROVE IInv
  OBVIOUS
<1>1. FileTyped
  BY AudioFileAssumption DEF Init, FileTyped, bytes
<1>2. ASSUME NEW cut, NEW n, NEW version, NEW layer, NEW hz
      PROVE  Where(cut, n, version, layer, hz)
  BY DEF Init, Where
<1> QED BY <1>1, <1>2 DEF IInv

LEMMA FileKept ==
    ASSUME [ipod_track_add_from]_vars
    PROVE  file' = file
<1>1. CASE ipod_track_from_mp3
  <2>1. ipod_mp3_scan_id3v1 => file' = file
    BY DEF ipod_mp3_scan_id3v1, fault
  <2>2. scan_byte => file' = file
    BY DEF scan_byte
  <2>3. ipod_mp3_scan_id3v2 => file' = file
    BY DEF ipod_mp3_scan_id3v2
  <2>4. id3v2_frame => file' = file
    BY DEF id3v2_frame, fault
  <2>5. scan_frame => file' = file
    BY DEF scan_frame, fault
  <2>6. scan_end => file' = file
    BY DEF scan_end, fault
  <2> QED BY <1>1, <2>1, <2>2, <2>3, <2>4, <2>5, <2>6 DEF ipod_track_from_mp3
<1>2. CASE ipod_track_from_m4a
  <2>1. enter_atom => file' = file
    BY DEF enter_atom
  <2>2. read_atom => file' = file
    BY DEF read_atom, fault
  <2>3. next_atom => file' = file
    BY DEF next_atom
  <2>4. set_bit_rate => file' = file
    BY DEF set_bit_rate
  <2> QED BY <1>2, <2>1, <2>2, <2>3, <2>4 DEF ipod_track_from_m4a
<1>3. open_file \/ no_track \/ upload \/ UNCHANGED vars => file' = file
  BY DEF open_file, no_track, upload, vars
<1> QED BY <1>1, <1>2, <1>3 DEF ipod_track_add_from

LEMMA NextWhere ==
    ASSUME NEW cut, NEW n, NEW version, NEW layer, NEW hz, Mpeg(cut, n, version, layer, hz),
           Where(cut, n, version, layer, hz), [ipod_track_add_from]_vars
    PROVE  Where(cut, n, version, layer, hz)'
<1>1. CASE ipod_track_from_mp3
  BY <1>1, Id3v1Step, ByteStep, Id3v2Step, TagStep, FrameStep, EndStep DEF ipod_track_from_mp3
<1>2. CASE ipod_track_from_m4a
  <2>1. pc \notin {"atom", "next", "rate"}
    BY DEF Where
  <2> QED BY <1>2, <2>1 DEF ipod_track_from_m4a, enter_atom, read_atom, next_atom, set_bit_rate
<1>3. CASE open_file \/ no_track \/ upload
  BY <1>3, OpenStep, NoTrackStep, UploadStep
<1>4. CASE UNCHANGED vars
  BY <1>4 DEF vars, Where, AtPart, AtHeader, AtTags, InTags, HasCounts, Counted, bytes
<1> QED BY <1>1, <1>2, <1>3, <1>4 DEF ipod_track_add_from

LEMMA NextIInv == IInv /\ [ipod_track_add_from]_vars => IInv'
<1> SUFFICES ASSUME IInv, [ipod_track_add_from]_vars PROVE IInv'
  OBVIOUS
<1>1. file' = file /\ bytes' = bytes /\ extension' = extension
  BY FileKept DEF bytes, extension, ipod_extension_of, from_last, path
<1>2. ASSUME extension = <<".mp3">>,
             NEW cut, NEW n, NEW version, NEW layer, NEW hz, IsMpeg(file, cut, n, version, layer, hz)
      PROVE  Where(cut, n, version, layer, hz)'
  <2>1. Mpeg(cut, n, version, layer, hz) /\ Where(cut, n, version, layer, hz)
    BY <1>2 DEF IInv, FileTyped, Mpeg
  <2> QED BY <2>1, NextWhere
<1> QED BY <1>1, <1>2 DEF IInv, FileTyped

LEMMA InvariantIInv == Spec => []IInv
BY InitIInv, NextIInv, PTL DEF Spec

\* From an mp3 file that is nothing but frames of one version, layer and sample rate,
\* ID3v2 tags and other bytes, whatever is in the tags and wherever they are, the
\* program gets the size, the rates and the duration of exactly these frames, or it
\* faults over a tag (ipod_track_from_mp3.c:359-441).
THEOREM FramesCountOnce ==
    Spec => [](extension = <<".mp3">> /\ IsMpegFile(file) => CountsRight)
<1>1. IInv => (extension = <<".mp3">> /\ IsMpegFile(file) => CountsRight)
  <2> SUFFICES ASSUME IInv, extension = <<".mp3">>, IsMpegFile(file), pc = "returned", track # NULL
               PROVE  HasCounts
    BY DEF CountsRight, HasCounts
  <2>1. PICK cut, n, version, layer, hz : IsMpeg(file, cut, n, version, layer, hz)
    BY DEF IsMpegFile
  <2>2. Where(cut, n, version, layer, hz)
    BY <2>1 DEF IInv
  <2> QED BY <2>2 DEF Where
<1> QED BY <1>1, InvariantIInv, PTL

-----------------------------------------------------------------------------
(* What tags say                                                           *)

\* Letters of one byte are written as they are.
LEMMA LettersWritten ==
    ASSUME NEW s, NEW units, NEW cut, IsText(s, units, cut), \A k \in DOMAIN units : units[k] < 128
    PROVE  s = units
<1>1. PICK n \in Nat : n = Len(units)
  BY DEF IsText
<1>2. /\ s \in Seq(Byte) /\ units \in Seq(Unit) /\ Len(s) \in Nat
      /\ cut \in [0 .. n -> Nat] /\ cut[0] = 0 /\ cut[n] = Len(s)
      /\ \A k \in 1 .. n : cut[k] = cut[k - 1] + Len(utf8_of(units[k]))
      /\ \A k \in 1 .. n : \A i \in 1 .. Len(utf8_of(units[k])) :
             s[cut[k - 1] + i] = utf8_of(units[k])[i]
  BY <1>1 DEF IsText
<1>3. ASSUME NEW k \in 1 .. n
      PROVE  /\ cut[k] = cut[k - 1] + 1 /\ s[cut[k - 1] + 1] = units[k]
  <2>1. units[k] \in Unit /\ units[k] < 128
    <3>1. k \in DOMAIN units
      BY <1>1, <1>2
    <3> QED BY <1>2, <3>1
  <2>2. utf8_of(units[k]) = <<units[k]>>
    BY <2>1 DEF utf8_of
  <2>3. 1 \in 1 .. Len(utf8_of(units[k])) /\ Len(utf8_of(units[k])) = 1 /\ utf8_of(units[k])[1] = units[k]
    BY <2>2
  <2> QED BY <1>2, <2>3
<1> DEFINE S == {k \in 0 .. n : cut[k] = k}
<1>4. 0 \in S
  BY <1>2
<1>5. ASSUME NEW k \in 1 .. n, k - 1 \in S PROVE k \in S
  BY <1>3, <1>5
<1>6. \A k \in 0 .. n : k \in S
  <2> HIDE DEF S
  <2> QED BY <1>4, <1>5, Induction
<1>7. Len(s) = n
  <2>1. n \in S
    <3> HIDE DEF S
    <3> QED BY <1>6
  <2> QED BY <1>2, <2>1
<1>8. \A k \in 1 .. n : s[k] = units[k]
  <2> TAKE k \in 1 .. n
  <2>1. k - 1 \in 0 .. n /\ k - 1 + 1 = k
    OBVIOUS
  <2>2. k - 1 \in S
    <3> HIDE DEF S
    <3> QED BY <1>6, <2>1
  <2>3. cut[k - 1] = k - 1
    BY <2>2
  <2> QED BY <1>3, <2>1, <2>3
<1> QED BY <1>1, <1>2, <1>7, <1>8

\* The text of a frame in UTF-8.
TextOf(s) == IF s[1] = 3 THEN c_string(Tail(s)) ELSE utf8_from_utf16[Written(s)]

LEMMA UnitIs ==
    ASSUME NEW u \in Nat, u <= 65535
    PROVE  u \in Unit
<1>1. PICK m \in Nat : m = 65535
  OBVIOUS
<1>2. Unit = 0 .. m
  BY <1>1 DEF Unit
<1>3. u <= m
  BY <1>1
<1>4. u \in 0 .. m
  BY ONLY <1>3, u \in Nat, m \in Nat
<1> QED BY <1>2, <1>4

LEMMA UnitOfBytes ==
    ASSUME NEW a \in Byte, NEW b \in Byte
    PROVE  256 * a + b \in Unit
<1>1. a \in Int /\ 0 <= a /\ a <= 255 /\ b \in Int /\ 0 <= b /\ b <= 255
  BY DEF Byte
<1>2. 256 * a + b \in Nat /\ 256 * a + b <= 65535
  BY <1>1
<1> QED BY <1>2, UnitIs

LEMMA PairsTyped ==
    ASSUME NEW s \in Seq(Byte), NEW high_first \in BOOLEAN
    PROVE  pairs(s, high_first) \in Seq(Unit)
<1>1. PICK n \in Nat : n = Len(s) \div 2 /\ 2 * n <= Len(s)
  <2>1. \A l \in Nat : l \div 2 \in Nat /\ 2 * (l \div 2) <= l
    OBVIOUS
  <2> QED BY <2>1
<1>2. ASSUME NEW i \in 1 .. n
      PROVE  256 * s[2 * i - 1] + s[2 * i] \in Unit /\ 256 * s[2 * i] + s[2 * i - 1] \in Unit
  <2>1. 2 * i - 1 \in 1 .. Len(s) /\ 2 * i \in 1 .. Len(s)
    BY <1>1
  <2>2. s[2 * i - 1] \in Byte /\ s[2 * i] \in Byte
    BY <2>1
  <2> QED BY <2>2, UnitOfBytes
<1> DEFINE value(i) == IF high_first THEN 256 * s[2 * i - 1] + s[2 * i] ELSE 256 * s[2 * i] + s[2 * i - 1]
<1>3. \A i \in 1 .. n : value(i) \in Unit
  BY <1>2
<1>4. pairs(s, high_first) = [i \in 1 .. n |-> value(i)]
  BY <1>1 DEF pairs
<1> HIDE DEF value
<1> QED BY <1>3, <1>4

LEMMA BytesAreUnits ==
    ASSUME NEW s \in Seq(Byte)
    PROVE  s \in Seq(Unit)
<1>1. PICK n \in Nat : n = Len(s)
  OBVIOUS
<1>2. s \in [1 .. n -> Byte]
  BY <1>1
<1>3. Byte \subseteq Unit
  <2> SUFFICES ASSUME NEW b \in Byte PROVE b \in Unit
    OBVIOUS
  <2>1. b \in Nat /\ b <= 65535
    BY DEF Byte
  <2> QED BY <2>1, UnitIs
<1>4. s \in [1 .. n -> Unit]
  BY <1>2, <1>3
<1> QED BY <1>4

LEMMA LettersTyped ==
    ASSUME NEW s \in Seq(Byte), HasText(s)
    PROVE  /\ Written(s) \in Seq(Unit) /\ Letters(s) \in Seq(Unit)
           /\ s[1] = 3 => Letters(s) = c_string(Tail(s))
<1>1. Tail(s) \in Seq(Byte)
  BY DEF HasText
<1>2. Tail(s) \in Seq(Unit)
  BY <1>1, BytesAreUnits
<1>3. Written(s) \in Seq(Unit)
  <2>1. CASE s[1] = 1
    <3>1. Len(s) \in Nat /\ Len(s) >= 3
      BY <2>1 DEF HasText
    <3>2. SubSeq(s, 4, Len(s)) \in Seq(Byte)
      BY <3>1
    <3>3. pairs(SubSeq(s, 4, Len(s)), s[2] = 254) \in Seq(Unit)
      BY <3>2, PairsTyped
    <3> QED BY <2>1, <3>3 DEF Written
  <2>2. CASE s[1] = 2
    <3>1. pairs(Tail(s), TRUE) \in Seq(Unit)
      BY <1>1, PairsTyped
    <3>2. Written(s) = pairs(Tail(s), TRUE)
      BY <2>2 DEF Written
    <3> QED BY <3>1, <3>2
  <2>3. CASE s[1] \notin {1, 2}
    BY <1>2, <2>3 DEF Written
  <2> QED BY <2>1, <2>2, <2>3
<1>4. Letters(s) \in Seq(Unit)
  <2>1. Unit \subseteq Nat
    BY CharactersAreNumbers
  <2> QED BY <1>3, <2>1, StringIs DEF Letters
<1>5. s[1] = 3 => Written(s) = Tail(s)
  BY DEF Written
<1> QED BY <1>3, <1>4, <1>5 DEF Letters

\* Up to a zero, the text of one-byte letters is what is written.
LEMMA LettersAre ==
    ASSUME NEW s \in Seq(Byte), HasText(s), \A i \in DOMAIN Letters(s) : Letters(s)[i] < 128
    PROVE  TextOf(s) = Letters(s)
<1>1. CASE s[1] = 3
  BY <1>1, LettersTyped DEF TextOf
<1>2. CASE s[1] # 3
  <2>1. Written(s) \in Seq(Unit)
    BY LettersTyped
  <2>2. PICK cut : IsText(utf8_from_utf16[Written(s)], c_string(Written(s)), cut)
    BY <2>1, TextEnds
  <2>3. utf8_from_utf16[Written(s)] = c_string(Written(s))
    BY <2>2, LettersWritten DEF Letters
  <2> QED BY <1>2, <2>3 DEF TextOf, Letters
<1> QED BY <1>1, <1>2

\* The units that a text of units sets.
LEMMA TextSet ==
    ASSUME NEW units \in Seq(Unit), NEW junk
    PROVE  text(utf8_from_utf16[units], junk) = c_string(units)
<1>1. PICK cut : IsText(utf8_from_utf16[units], c_string(units), cut)
  BY TextEnds
<1>2. \A k \in DOMAIN c_string(units) : c_string(units)[k] # 0
  <2>1. Unit \subseteq Nat
    BY CharactersAreNumbers
  <2>2. PICK m \in 0 .. Len(units) :
            /\ Len(c_string(units)) = m /\ c_string(units) \in Seq(Unit)
            /\ \A i \in 1 .. m : units[i] # 0 /\ c_string(units)[i] = units[i]
    BY <2>1, StringIs
  <2> QED BY <2>2
<1> QED BY <1>1, <1>2, TextIs DEF text

LEMMA TextTold ==
    ASSUME NEW s \in Seq(Byte), HasText(s), NEW v, Encodes(s, v), NEW junk
    PROVE  text(TextOf(s), junk) = v
<1>1. CASE s[1] = 3
  <2>1. v \in Seq(Unit \ {0}) /\ c_string(Tail(s)) = utf16_to_utf8[v]
    BY <1>1, LettersTyped DEF Encodes
  <2>2. v \in Seq(Unit) /\ \A k \in DOMAIN v : v[k] # 0
    BY <2>1
  <2>3. PICK t, cut : t = utf16_to_utf8[v] /\ IsText(t, v, cut)
    BY <2>2, TextWritten
  <2>4. c_string(t) = t /\ utf16_from_utf8(t, junk) = v
    BY <2>2, <2>3, TextIs
  <2> QED BY <1>1, <2>1, <2>3, <2>4 DEF text, TextOf
<1>2. CASE s[1] # 3
  <2>1. Written(s) \in Seq(Unit) /\ v = c_string(Written(s))
    BY <1>2, LettersTyped DEF Encodes, Letters
  <2> QED BY <1>2, <2>1, TextSet DEF TextOf
<1> QED BY <1>1, <1>2

-----------------------------------------------------------------------------
(* Numbers                                                                 *)

\* The greatest of some numbers up to m.
LEMMA GreatestIs ==
    ASSUME NEW m \in Nat, NEW t \in SUBSET (1 .. m), t # {}
    PROVE  /\ Max(t) \in t /\ \A y \in t : Max(t) >= y
           /\ m \in t => Max(t) = m
<1> DEFINE gaps == {m - x : x \in t}
<1>1. gaps \subseteq Nat /\ gaps # {}
  OBVIOUS
<1>2. PICK g \in gaps : \A h \in gaps : g <= h
  <2> HIDE DEF gaps
  <2> QED BY <1>1, LeastNat
<1>3. PICK x \in t : g = m - x
  OBVIOUS
<1>4. ASSUME NEW y \in t PROVE x >= y
  <2>1. m - y \in gaps
    OBVIOUS
  <2>2. m - x <= m - y /\ x \in Int /\ y \in Int
    BY <1>2, <1>3, <2>1
  <2> QED BY <2>2
<1>5. Max(t) \in t /\ \A y \in t : Max(t) >= y
  BY <1>4 DEF Max
<1>6. m \in t => Max(t) = m
  <2>1. Max(t) \in 1 .. m
    BY <1>5
  <2> QED BY <1>5, <2>1
<1> QED BY <1>5, <1>6

\* g has the numbers of the digits at each set of places.
IsFold(g, s, base, m) ==
    /\ g \in [SUBSET (1 .. m) -> Nat]
    /\ \A t \in SUBSET (1 .. m) :
          g[t] = IF t = {} THEN 0 ELSE base * g[t \ {Max(t)}] + s[Max(t)]

LEMMA FoldGrows ==
    ASSUME NEW s \in Seq(Nat), NEW base \in Nat, NEW m \in 1 .. Len(s), NEW h, IsFold(h, s, base, m - 1)
    PROVE  \E g : IsFold(g, s, base, m)
<1> DEFINE value(t) == IF m \in t THEN base * h[t \ {m}] + s[m] ELSE h[t]
           g == [t \in SUBSET (1 .. m) |-> value(t)]
<1>1. m - 1 \in Nat /\ m \in Nat /\ s[m] \in Nat
  OBVIOUS
<1>2. ASSUME NEW t \in SUBSET (1 .. m)
      PROVE  t \ {m} \in SUBSET (1 .. m - 1) /\ (m \notin t => t \in SUBSET (1 .. m - 1))
  OBVIOUS
<1>3. ASSUME NEW t \in SUBSET (1 .. m - 1) PROVE h[t] \in Nat
  BY <1>3 DEF IsFold
<1>4. ASSUME NEW t \in SUBSET (1 .. m) PROVE value(t) \in Nat
  <2>1. h[t \ {m}] \in Nat
    BY <1>2, <1>3
  <2>2. base * h[t \ {m}] + s[m] \in Nat
    <3>1. \A a, b, c \in Nat : a * b + c \in Nat
      OBVIOUS
    <3> QED BY ONLY <1>1, <2>1, <3>1, base \in Nat
  <2>3. m \notin t => h[t] \in Nat
    BY <1>2, <1>3
  <2> QED BY <2>2, <2>3
<1> HIDE DEF value
<1>5. g \in [SUBSET (1 .. m) -> Nat] /\ \A t \in SUBSET (1 .. m) : g[t] = value(t)
  BY <1>4
<1> HIDE DEF g
<1>6. ASSUME NEW t \in SUBSET (1 .. m)
      PROVE  g[t] = IF t = {} THEN 0 ELSE base * g[t \ {Max(t)}] + s[Max(t)]
  <2>1. CASE t = {}
    <3>1. g[t] = h[t]
      BY <1>5, <2>1 DEF value
    <3>2. t \in SUBSET (1 .. m - 1)
      BY <2>1
    <3> QED BY <2>1, <3>1, <3>2 DEF IsFold
  <2>2. CASE m \in t
    <3>1. Max(t) = m /\ t # {}
      BY <1>1, <2>2, GreatestIs
    <3>2. g[t] = base * h[t \ {m}] + s[m]
      BY <1>5, <2>2 DEF value
    <3>3. g[t \ {m}] = h[t \ {m}]
      <4>1. t \ {m} \in SUBSET (1 .. m)
        OBVIOUS
      <4> QED BY <1>5, <4>1 DEF value
    <3> QED BY <3>1, <3>2, <3>3
  <2>3. CASE t # {} /\ m \notin t
    <3>1. t \in SUBSET (1 .. m - 1)
      BY <1>2, <2>3
    <3>2. h[t] = base * h[t \ {Max(t)}] + s[Max(t)]
      BY <2>3, <3>1 DEF IsFold
    <3>3. g[t] = h[t] /\ g[t \ {Max(t)}] = h[t \ {Max(t)}]
      <4>1. t \ {Max(t)} \in SUBSET (1 .. m) /\ m \notin t \ {Max(t)}
        BY <2>3
      <4> QED BY <1>5, <2>3, <4>1 DEF value
    <3> QED BY <2>3, <3>2, <3>3
  <2> QED BY <2>1, <2>2, <2>3
<1>7. IsFold(g, s, base, m)
  BY <1>5, <1>6 DEF IsFold
<1> QED BY <1>7

LEMMA NumberTyped ==
    ASSUME NEW s \in Seq(Nat), NEW base \in Nat
    PROVE  number(s, base) \in Nat
<1>1. PICK n \in Nat : n = Len(s) /\ DOMAIN s = 1 .. n
  OBVIOUS
<1> DEFINE S == {m \in 0 .. n : \E g : IsFold(g, s, base, m)}
<1>2. 0 \in S
  <2> DEFINE g == [t \in SUBSET (1 .. 0) |-> 0]
  <2>1. g \in [SUBSET (1 .. 0) -> Nat] /\ \A t \in SUBSET (1 .. 0) : t = {} /\ g[t] = 0
    OBVIOUS
  <2> HIDE DEF g
  <2>2. IsFold(g, s, base, 0)
    BY <2>1 DEF IsFold
  <2> QED BY <2>2
<1>3. ASSUME NEW m \in 1 .. n, m - 1 \in S PROVE m \in S
  BY <1>1, <1>3, FoldGrows
<1>4. n \in S
  <2> HIDE DEF S
  <2>1. \A m \in 0 .. n : m \in S
    BY <1>2, <1>3, Induction
  <2> QED BY <2>1
<1>5. PICK g : IsFold(g, s, base, n)
  BY <1>4
<1> DEFINE Is(h) == h = [t \in SUBSET (DOMAIN s) |->
                            IF t = {} THEN 0 ELSE base * h[t \ {Max(t)}] + s[Max(t)]]
           iter == CHOOSE h : Is(h)
<1>6. Is(iter)
  <2>1. Is(g)
    BY <1>1, <1>5 DEF IsFold
  <2> HIDE DEF Is
  <2> QED BY <2>1
<1>7. number(s, base) = iter[DOMAIN s]
  BY DEF number, FoldLeft, MapThenFoldSet
<1> HIDE DEF iter
<1> DEFINE T == {m \in 0 .. n : iter[1 .. m] \in Nat}
<1>8. 0 \in T
  <2>1. 1 .. 0 = {} /\ {} \in SUBSET (DOMAIN s)
    OBVIOUS
  <2>2. iter[{}] = 0
    BY <1>6, <2>1
  <2> QED BY <2>1, <2>2
<1>9. ASSUME NEW m \in 1 .. n, m - 1 \in T PROVE m \in T
  <2>1. 1 .. m \in SUBSET (DOMAIN s) /\ 1 .. m # {} /\ m \in 1 .. m /\ (1 .. m) \ {m} = 1 .. m - 1
    <3>1. m \in Nat /\ m <= n /\ 1 <= m
      OBVIOUS
    <3>2. 1 .. m \subseteq DOMAIN s /\ m \in 1 .. m
      BY <1>1, <3>1
    <3>3. (1 .. m) \ {m} = 1 .. m - 1
      BY <3>1
    <3> QED BY <3>2, <3>3
  <2>2. Max(1 .. m) = m
    BY <2>1, GreatestIs
  <2>3. iter[1 .. m] = base * iter[1 .. m - 1] + s[m]
    BY <1>6, <2>1, <2>2
  <2>4. PICK a \in Nat : a = iter[1 .. m - 1]
    BY <1>9
  <2>5. s[m] \in Nat
    BY <1>1
  <2>6. base * a + s[m] \in Nat
    BY <2>5
  <2> QED BY <2>3, <2>4, <2>6
<1>10. n \in T
  <2> HIDE DEF T
  <2>1. \A m \in 0 .. n : m \in T
    BY <1>8, <1>9, Induction
  <2> QED BY <2>1
<1> QED BY <1>1, <1>7, <1>10

-----------------------------------------------------------------------------
(* Numbers in texts                                                       *)

\* The place where some letters end is one.
EndsAt(t, i, some, e) ==
    /\ \A k \in i .. e - 1 : t[k] \in some
    /\ e \in DOMAIN t => t[e] \notin some

LEMMA PastIs ==
    ASSUME NEW t \in Seq(Nat), NEW i \in Nat \ {0}, NEW some, NEW e \in i .. Len(t) + 1,
           EndsAt(t, i, some, e)
    PROVE  past(t, i, some) = e
<1>1. ASSUME NEW c \in i .. Len(t) + 1, NEW d \in i .. Len(t) + 1, c < d,
             EndsAt(t, i, some, c), EndsAt(t, i, some, d)
      PROVE  FALSE
  <2>1. c \in DOMAIN t /\ c \in i .. d - 1
    BY <1>1
  <2> QED BY <1>1, <2>1 DEF EndsAt
<1> DEFINE p == CHOOSE d \in i .. Len(t) + 1 : EndsAt(t, i, some, d)
<1>2. p \in i .. Len(t) + 1 /\ EndsAt(t, i, some, p)
  OBVIOUS
<1>3. past(t, i, some) = p
  BY DEF past, EndsAt
<1> HIDE DEF p
<1>4. p < e \/ e < p \/ p = e
  BY <1>2
<1> QED BY <1>1, <1>2, <1>3, <1>4

\* sscanf() finds the number that stands there.
LEMMA NumberRead ==
    ASSUME NEW t \in Seq(Nat), NEW i \in Nat \ {0}, NEW j, IsNumber(t, i, j)
    PROVE  /\ digits_from(t, i) = i /\ Len(digits_at(t, i)) = j - i + 1
           /\ number_at(t, i) = Value(t, i, j) /\ Value(t, i, j) \in Nat
<1>1. /\ j \in 1 .. Len(t) /\ i <= j /\ Len(t) \in Nat /\ j + 1 \in i .. Len(t) + 1
      /\ i \in i .. Len(t) + 1 /\ t[i] \in 48 .. 57
  <2>1. j \in DOMAIN t /\ i <= j /\ t[i] \in 48 .. 57
    BY DEF IsNumber
  <2> QED BY <2>1
<1>2. past(t, i, {32} \cup 9 .. 13) = i
  <2>1. \A k \in i .. i - 1 : FALSE
    OBVIOUS
  <2>2. PICK a : a = t[i]
    OBVIOUS
  <2>3. a \notin {32} \cup 9 .. 13
    <3>1. \A b \in 48 .. 57 : b # 32 /\ b \notin 9 .. 13
      OBVIOUS
    <3>2. a \in 48 .. 57
      BY ONLY <1>1, <2>2
    <3> QED BY ONLY <3>1, <3>2
  <2>4. EndsAt(t, i, {32} \cup 9 .. 13, i)
    BY ONLY <2>1, <2>2, <2>3 DEF EndsAt
  <2> QED BY <1>1, <2>4, PastIs
<1>3. digits_from(t, i) = i
  <2>1. PICK a : a = t[i]
    OBVIOUS
  <2>2. a \notin {43, 45}
    BY ONLY <1>1, <2>1
  <2> QED BY ONLY <1>2, <2>1, <2>2 DEF digits_from
<1>4. past(t, i, 48 .. 57) = j + 1
  <2>1. j + 1 - 1 = j /\ (j + 1 \in DOMAIN t => j < Len(t))
    BY <1>1
  <2>2. EndsAt(t, i, 48 .. 57, j + 1)
    BY <2>1 DEF IsNumber, EndsAt
  <2> QED BY <1>1, <2>2, PastIs
<1>5. PICK n \in Nat : n = j - i + 1 /\ j + 1 - i = n
  BY <1>1
<1> DEFINE s == [k \in 1 .. n |-> t[i + k - 1] - 48]
<1>6. digits_at(t, i) = s
  <2>1. PICK e : e = past(t, i, 48 .. 57)
    OBVIOUS
  <2>2. digits_at(t, i) = [k \in 1 .. e - i |-> t[i + k - 1] - 48]
    BY ONLY <1>3, <2>1 DEF digits_at
  <2>3. e = j + 1
    BY ONLY <1>4, <2>1
  <2>4. e - i = n
    BY ONLY <1>1, <1>5, <2>3
  <2> QED BY <2>2, <2>4
<1>7. s \in Seq(Nat) /\ Len(s) = n
  <2>1. ASSUME NEW k \in 1 .. n PROVE t[i + k - 1] - 48 \in Nat
    <3>1. i + k - 1 \in i .. j
      BY <1>1, <1>5
    <3>2. PICK a : a = t[i + k - 1]
      OBVIOUS
    <3>3. a \in 48 .. 57
      BY <3>1, <3>2 DEF IsNumber
    <3>4. a - 48 \in Nat
      BY ONLY <3>3
    <3> QED BY ONLY <3>2, <3>4
  <2> QED BY <2>1
<1>8. Value(t, i, j) = number(s, 10)
  BY <1>5 DEF Value
<1> HIDE DEF s
<1>9. number(s, 10) \in Nat
  <2>1. PICK base \in Nat : base = 10
    OBVIOUS
  <2>2. number(s, base) \in Nat
    BY <1>7, NumberTyped
  <2> QED BY <2>1, <2>2
<1>10. number_at(t, i) = number(s, 10)
  <2>1. ~(i > i)
    OBVIOUS
  <2> QED BY <1>3, <1>6, <2>1 DEF number_at
<1> QED BY <1>3, <1>5, <1>6, <1>7, <1>8, <1>9, <1>10

LEMMA GenreRead ==
    ASSUME NEW t \in Seq(Nat), NEW v, IsGenre(t, v)
    PROVE  number_in_parentheses(t) = v
<1>1. t # <<>> /\ t[1] = 40
  BY DEF IsGenre
<1>2. PICK j : IsNumber(t, 2, j) /\ v = Value(t, 2, j)
  BY DEF IsGenre, NumberIn
<1>3. number_at(t, 2) = v
  BY <1>2, NumberRead
<1> QED BY <1>1, <1>3 DEF number_in_parentheses

LEMMA FirstRead ==
    ASSUME NEW t \in Seq(Nat), NEW v, IsFirst(t, v)
    PROVE  uint32(number_at(t, 1)) = v
<1>1. PICK j : IsNumber(t, 1, j) /\ v = Value(t, 1, j)
  BY DEF IsFirst, NumberIn
<1>2. number_at(t, 1) = v /\ v \in Nat
  BY <1>1, NumberRead
<1> QED BY <1>2 DEF uint32

LEMMA SecondRead ==
    ASSUME NEW t \in Seq(Nat), NEW v, IsSecond(t, v)
    PROVE  uint32(number_after_slash(t)) = v
<1>1. PICK j \in 2 .. Len(t) - 1 : /\ IsNumber(t, 1, j - 1) /\ t[j] = 47
                                   /\ \E i \in DOMAIN t : NumberIn(t, j + 1, i, v)
  BY DEF IsSecond
<1>2. PICK i : IsNumber(t, j + 1, i) /\ v = Value(t, j + 1, i)
  BY <1>1 DEF NumberIn
<1>3. j + 1 \in Nat \ {0}
  OBVIOUS
<1>4. number_at(t, j + 1) = v /\ v \in Nat
  BY <1>2, <1>3, NumberRead
<1>5. digits_from(t, 1) = 1 /\ Len(digits_at(t, 1)) = (j - 1) - 1 + 1
  BY <1>1, NumberRead
<1>6. (j - 1) - 1 + 1 > 0 /\ 1 + ((j - 1) - 1 + 1) = j /\ j \in DOMAIN t
  OBVIOUS
<1>7. number_after_slash(t) = v
  BY <1>1, <1>4, <1>5, <1>6 DEF number_after_slash
<1> QED BY <1>4, <1>7 DEF uint32

\* Four digits give their number, whichever way it is set.
LEMMA DigitsRead ==
    ASSUME NEW t \in Seq(Nat), NEW v, IsYear(t, v)
    PROVE  digits(t) = v
<1>1. Len(t) = 4 /\ IsNumber(t, 1, 4) /\ v = Value(t, 1, 4)
  BY DEF IsYear, NumberIn
<1>2. v \in Nat
  BY <1>1, NumberRead
<1>3. [i \in 1 .. 4 |-> t[i] - 48] = [k \in 1 .. 4 - 1 + 1 |-> t[1 + k - 1] - 48]
  <2>1. 4 - 1 + 1 = 4 /\ \A k \in 1 .. 4 : 1 + k - 1 = k
    OBVIOUS
  <2> QED BY <2>1
<1>4. digits(t) = uint32(v)
  BY <1>1, <1>3 DEF digits, Value
<1> QED BY <1>2, <1>4 DEF uint32

LEMMA YearRead ==
    ASSUME NEW t \in Seq(Nat), NEW v, IsYear(t, v), NEW junk
    PROVE  year_of(t, junk) = v
<1>1. Len(t) = 4 /\ \A k \in 1 .. 4 : t[k] \in 48 .. 57
  BY DEF IsYear, NumberIn, IsNumber
<1> DEFINE letter(i) == IF i \in DOMAIN t THEN t[i] ELSE IF i = Len(t) + 1 THEN 0 ELSE junk
           letters == [i \in 1 .. 4 |-> IF letter(i) < 128 THEN letter(i) ELSE letter(i) - 256]
<1>2. \A i \in 1 .. 4 : letters[i] = t[i]
  BY <1>1
<1>3. year_of(t, junk) = digits(letters)
  BY DEF year_of
<1> HIDE DEF letters
<1>4. digits(letters) = digits(t)
  <2>1. [i \in 1 .. 4 |-> letters[i] - 48] = [i \in 1 .. 4 |-> t[i] - 48]
    BY <1>2
  <2> QED BY <2>1 DEF digits
<1> QED BY <1>3, <1>4, DigitsRead

LEMMA UnitsAreNumbers ==
    ASSUME NEW s \in Seq(Unit)
    PROVE  s \in Seq(Nat)
<1>1. PICK n \in Nat : n = Len(s)
  OBVIOUS
<1>2. s \in [1 .. n -> Unit]
  BY <1>1
<1>3. Unit \subseteq Nat
  BY CharactersAreNumbers
<1>4. s \in [1 .. n -> Nat]
  BY <1>2, <1>3
<1> QED BY <1>4

LEMMA MusicGenre ==
    ASSUME NEW j \in Genres
    PROVE  music_genres(j) = {genre_name(j)}
BY DEF music_genres

Kinds == TextKinds \cup {"year", "genre", "track", "disc"}

LEMMA KindsAre ==
    ASSUME NEW id
    PROVE  frame_kind(id) \in Kinds \cup {"unknown"}
<1> DEFINE letters == IF id[1] = 0 THEN Tail(id) ELSE id
           title == letters \in {<<84, 84, 50>>, <<84, 73, 84, 50>>}
           artist == letters \in {<<84, 80, 49>>, <<84, 80, 69, 49>>}
           album == letters \in {<<84, 65, 76>>, <<84, 65, 76, 66>>}
           composer == letters \in {<<84, 67, 77>>, <<84, 67, 79, 77>>}
           year == letters \in {<<84, 89, 69>>, <<84, 89, 69, 82>>}
           genre == letters \in {<<84, 67, 79>>, <<84, 67, 79, 78>>}
           number_of == letters \in {<<84, 82, 75>>, <<84, 82, 67, 75>>}
           disc == letters \in {<<84, 80, 65>>, <<84, 80, 79, 83>>}
<1>1. frame_kind(id) = CASE title -> "title" [] artist -> "artist" [] album -> "album"
                         [] composer -> "composer" [] year -> "year" [] genre -> "genre"
                         [] number_of -> "track" [] disc -> "disc" [] OTHER -> "unknown"
  BY DEF frame_kind
<1> HIDE DEF title, artist, album, composer, year, genre, number_of, disc
<1>2. frame_kind(id) \in {"title", "artist", "album", "composer", "year", "genre", "track", "disc", "unknown"}
  BY <1>1
<1> QED BY <1>2 DEF Kinds, TextKinds

\* What a frame sets is what it tells, and nothing it is not about.
LEMMA ValuesTell ==
    ASSUME NEW s \in Seq(Byte), NEW about \in Kinds, IsReadable(about, s), NEW junk,
           NEW values \in frame_values(about, TextOf(s), junk)
    PROVE  /\ DOMAIN values \subseteq Names(about)
           /\ \A name, v : Tells(about, s, name, v) => name \in DOMAIN values /\ values[name] = v
<1> DEFINE t == Letters(s)
<1>1. HasText(s) /\ t \in Seq(Nat)
  <2>1. HasText(s)
    BY DEF IsReadable, Kinds, TextKinds
  <2> QED BY <2>1, LettersTyped, UnitsAreNumbers
<1>2. (\A i \in DOMAIN t : t[i] < 128) => TextOf(s) = t
  BY <1>1, LettersAre
<1> HIDE DEF t
<1>3. CASE about \in TextKinds
  <2>1. about \notin {"year", "genre", "track", "disc", "unknown"}
    BY <1>3 DEF TextKinds
  <2>2. values = [name \in {about} |-> text(TextOf(s), junk)]
    <3>1. frame_values(about, TextOf(s), junk) = {[name \in {about} |-> text(TextOf(s), junk)]}
      BY <1>3, <2>1 DEF frame_values
    <3> QED BY <3>1
  <2>3. DOMAIN values = {about} /\ values[about] = text(TextOf(s), junk)
    BY <2>2
  <2>4. Names(about) = {about}
    BY <2>1 DEF Names
  <2>5. ASSUME NEW name, NEW v, Tells(about, s, name, v) PROVE name = about /\ Encodes(s, v)
    BY <2>1, <2>5 DEF Tells
  <2>6. ASSUME NEW v, Encodes(s, v) PROVE text(TextOf(s), junk) = v
    BY <1>1, <2>6, TextTold
  <2> QED BY <2>3, <2>4, <2>5, <2>6
<1>4. CASE about = "year"
  <2>1. values = [year |-> year_of(TextOf(s), junk)]
    BY <1>4 DEF frame_values, TextKinds
  <2>2. Names(about) = {"year"} /\ DOMAIN values = {"year"} /\ values["year"] = year_of(TextOf(s), junk)
    BY <1>4, <2>1 DEF Names
  <2>3. ASSUME NEW name, NEW v, Tells(about, s, name, v)
        PROVE  name = "year" /\ IsYear(t, v) /\ TextOf(s) = t
    BY <1>2, <1>4, <2>3 DEF Tells, TextKinds, t
  <2>4. ASSUME NEW v, IsYear(t, v) PROVE year_of(t, junk) = v
    BY <1>1, <2>4, YearRead
  <2> QED BY <2>2, <2>3, <2>4
<1>5. CASE about = "genre"
  <2>1. PICK j \in Genres : IsGenre(t, j) /\ TextOf(s) = t
    BY <1>2, <1>5 DEF IsReadable, t
  <2>2. number_in_parentheses(t) = j
    BY <1>1, <2>1, GenreRead
  <2>3. music_genres(number_in_parentheses(TextOf(s))) = {genre_name(j)}
    BY <2>1, <2>2, MusicGenre
  <2>4. values \in {[genre |-> g] : g \in music_genres(number_in_parentheses(TextOf(s)))}
    BY <1>5 DEF frame_values, TextKinds
  <2>5. values = [genre |-> genre_name(j)]
    BY <2>3, <2>4
  <2>6. Names(about) = {"genre"} /\ DOMAIN values = {"genre"} /\ values["genre"] = genre_name(j)
    BY <1>5, <2>5 DEF Names
  <2>7. ASSUME NEW name, NEW v, Tells(about, s, name, v)
        PROVE  name = "genre" /\ v = genre_name(j)
    <3>1. name = "genre" /\ \E i \in Genres : IsGenre(t, i) /\ v = genre_name(i)
      BY <1>5, <2>7 DEF Tells, TextKinds, t
    <3>2. PICK i \in Genres : IsGenre(t, i) /\ v = genre_name(i)
      BY <3>1
    <3>3. number_in_parentheses(t) = i
      BY <1>1, <3>2, GenreRead
    <3> QED BY <2>2, <3>1, <3>2, <3>3
  <2> QED BY <2>6, <2>7
<1>6. CASE about = "track"
  <2>1. values = [track_number |-> uint32(number_at(TextOf(s), 1)), track_count |-> uint32(number_after_slash(TextOf(s)))]
    BY <1>6 DEF frame_values, TextKinds
  <2>2. /\ DOMAIN values = {"track_number", "track_count"}
        /\ values["track_number"] = uint32(number_at(TextOf(s), 1))
        /\ values["track_count"] = uint32(number_after_slash(TextOf(s)))
    BY <2>1
  <2>3. Names(about) = {"track_number", "track_count"}
    BY <1>6 DEF Names
  <2>4. ASSUME NEW name, NEW v, Tells(about, s, name, v)
        PROVE  /\ TextOf(s) = t
               /\ (name = "track_number" /\ IsFirst(t, v)) \/ (name = "track_count" /\ IsSecond(t, v))
    BY <1>2, <1>6, <2>4 DEF Tells, TextKinds, t
  <2>5. ASSUME NEW v PROVE /\ IsFirst(t, v) => uint32(number_at(t, 1)) = v
                           /\ IsSecond(t, v) => uint32(number_after_slash(t)) = v
    BY <1>1, FirstRead, SecondRead
  <2> QED BY <2>2, <2>3, <2>4, <2>5
<1>7. CASE about = "disc"
  <2>1. values = [disc_number |-> uint32(number_at(TextOf(s), 1)), disc_count |-> uint32(number_after_slash(TextOf(s)))]
    BY <1>7 DEF frame_values, TextKinds
  <2>2. /\ DOMAIN values = {"disc_number", "disc_count"}
        /\ values["disc_number"] = uint32(number_at(TextOf(s), 1))
        /\ values["disc_count"] = uint32(number_after_slash(TextOf(s)))
    BY <2>1
  <2>3. Names(about) = {"disc_number", "disc_count"}
    BY <1>7 DEF Names
  <2>4. ASSUME NEW name, NEW v, Tells(about, s, name, v)
        PROVE  /\ TextOf(s) = t
               /\ (name = "disc_number" /\ IsFirst(t, v)) \/ (name = "disc_count" /\ IsSecond(t, v))
    BY <1>2, <1>7, <2>4 DEF Tells, TextKinds, t
  <2>5. ASSUME NEW v PROVE /\ IsFirst(t, v) => uint32(number_at(t, 1)) = v
                           /\ IsSecond(t, v) => uint32(number_after_slash(t)) = v
    BY <1>1, FirstRead, SecondRead
  <2> QED BY <2>2, <2>3, <2>4, <2>5
<1> QED BY <1>3, <1>4, <1>5, <1>6, <1>7 DEF Kinds

-----------------------------------------------------------------------------
(* Reading ID3v1                                                           *)

LEMMA FieldRead ==
    ASSUME NEW s \in Seq(Byte), Len(s) >= 128, NEW o \in Nat, NEW n \in Nat, o + n <= 128, NEW junk
    PROVE  bytes_at(s, Len(s) - 128 + o, n, junk) = Field(s, o, n) /\ Field(s, o, n) \in Seq(Byte)
<1>1. PICK p \in Nat : p = Len(s) - 128 + o /\ p + n <= Len(s)
  <2>1. Len(s) - 128 + o \in Nat /\ Len(s) - 128 + o + n <= Len(s)
    OBVIOUS
  <2> QED BY <2>1
<1>2. bytes_at(s, p, n, junk) = SubSeq(s, p + 1, p + n) /\ SubSeq(s, p + 1, p + n) \in Seq(Byte)
  <2>1. p + n <= Len(s)
    BY <1>1
  <2> QED BY ONLY <2>1, s \in Seq(Byte), p \in Nat, n \in Nat, Inside
<1>3. p + 1 = Len(s) - 127 + o /\ p + n = Len(s) - 128 + o + n
  BY <1>1
<1> QED BY <1>1, <1>2, <1>3 DEF Field

\* What is set from ID3v1 is what it tells.
LEMMA EndTold ==
    ASSUME bytes \in Seq(Byte), Len(bytes) >= 128, NEW genre, NEW junk,
           NEW name, NEW v, TellsAtEnd(bytes, name, v)
    PROVE  /\ name \in DOMAIN id3v1_values(Len(bytes) - 128, genre, junk)
           /\ id3v1_values(Len(bytes) - 128, genre, junk)[name] = v
<1> DEFINE from == Len(bytes) - 128
           texts == [title |-> id3v1_text(from + 3, 30, junk),
                     artist |-> id3v1_text(from + 33, 30, junk),
                     album |-> id3v1_text(from + 63, 30, junk),
                     comment |-> id3v1_text(from + 97, 28, junk),
                     track_number |-> getub(bytes, from + 125, junk),
                     genre |-> genre]
           year == bytes_at(bytes, from + 93, 4, junk)
           years == IF year = <<0, 0, 0, 0>> THEN <<>> ELSE [year |-> digits(year)]
<1>1. id3v1_values(from, genre, junk) = over(texts, years)
  BY DEF id3v1_values
<1>2. DOMAIN texts = {"title", "artist", "album", "comment", "track_number", "genre"}
  OBVIOUS
<1>3. ASSUME NEW o \in Nat, NEW n \in Nat, o + n <= 128
      PROVE  id3v1_text(from + o, n, junk) = c_string(Field(bytes, o, n))
  <2>1. bytes_at(bytes, from + o, n, junk) = Field(bytes, o, n) /\ Field(bytes, o, n) \in Seq(Unit)
    BY <1>3, FieldRead, BytesAreUnits
  <2> QED BY <2>1, TextSet DEF id3v1_text
<1>4. /\ texts.title = c_string(Field(bytes, 3, 30)) /\ texts.artist = c_string(Field(bytes, 33, 30))
      /\ texts.album = c_string(Field(bytes, 63, 30)) /\ texts.comment = c_string(Field(bytes, 97, 28))
  BY <1>3
<1>5. CASE name = "year" /\ IsYear(Field(bytes, 93, 4), v)
  <2>1. year = Field(bytes, 93, 4)
    BY FieldRead
  <2> DEFINE t == Field(bytes, 93, 4)
  <2>2. Len(t) = 4 /\ t[1] \in 48 .. 57
    BY <1>5 DEF IsYear, NumberIn, IsNumber
  <2>3. t \in Seq(Nat)
    BY FieldRead, BytesAreUnits, UnitsAreNumbers
  <2>4. digits(t) = v
    BY <1>5, <2>3, DigitsRead
  <2> HIDE DEF t, year
  <2>5. t # <<0, 0, 0, 0>>
    <3>1. <<0, 0, 0, 0>>[1] = 0
      OBVIOUS
    <3> QED BY <2>2, <3>1
  <2>6. years = [year |-> v]
    BY <2>1, <2>4, <2>5 DEF t
  <2>7. DOMAIN years = {"year"} /\ years["year"] = v
    <3> HIDE DEF years
    <3> QED BY <2>6
  <2> HIDE DEF texts, years
  <2> QED BY <1>1, <1>2, <1>5, <2>7 DEF over
<1>6. CASE \/ name = "title" /\ v = c_string(Field(bytes, 3, 30))
           \/ name = "artist" /\ v = c_string(Field(bytes, 33, 30))
           \/ name = "album" /\ v = c_string(Field(bytes, 63, 30))
           \/ name = "comment" /\ v = c_string(Field(bytes, 97, 28))
  <2>1. name \in DOMAIN texts /\ texts[name] = v
    BY <1>2, <1>4, <1>6
  <2> HIDE DEF texts, years
  <2> QED BY <1>1, <2>1 DEF over
<1> QED BY <1>5, <1>6 DEF TellsAtEnd

-----------------------------------------------------------------------------
(* What was heard                                                          *)

\* The track t has what was last told before p.
Heard(t, cut, n, places, p) ==
    \A name \in DOMAIN file.tags : \A last \in places \cup {0} :
        (last = 0 \/ last < p) /\ IsLast(bytes, cut, n, places, last, name, file.tags[name]) =>
            name \in DOMAIN t /\ t[name] = file.tags[name]

LEMMA InPart ==
    ASSUME NEW cut, NEW n \in Nat, IsLayout(bytes, cut, n), NEW j \in 0 .. n - 1, NEW k \in 0 .. n - 1,
           NEW q \in Nat, cut[j] < q, q < cut[j + 1], cut[k] <= q, q < cut[k + 1]
    PROVE  j = k
<1>1. /\ j \in 0 .. n /\ j + 1 \in 0 .. n /\ k \in 0 .. n /\ k + 1 \in 0 .. n
      /\ cut[j] \in Nat /\ cut[j + 1] \in Nat /\ cut[k] \in Nat /\ cut[k + 1] \in Nat
  BY DEF IsLayout
<1>2. ASSUME j < k PROVE FALSE
  <2>1. j + 1 = k \/ j + 1 < k
    BY <1>2
  <2>2. j + 1 < k => cut[j + 1] < cut[k]
    BY <1>1 DEF IsLayout
  <2> QED BY <1>1, <2>1, <2>2
<1>3. ASSUME k < j PROVE FALSE
  <2>1. k + 1 = j \/ k + 1 < j
    BY <1>3
  <2>2. k + 1 < j => cut[k + 1] < cut[j]
    BY <1>1 DEF IsLayout
  <2> QED BY <1>1, <2>1, <2>2
<1> QED BY <1>2, <1>3

\* No frame of tags is at one of the places from p up to q.
NoneIn(cut, n, places, p, q) ==
    \A j \in 0 .. n - 1, r \in places : p <= r /\ r < q => ~IsTagFrame(bytes, cut, j, r)

\* Where there are no frames of tags nothing more is told,
LEMMA HeardOn ==
    ASSUME NEW t, NEW cut, NEW n, NEW places, places \subseteq Nat, NEW p \in Nat, NEW q \in Nat,
           Heard(t, cut, n, places, p),
           NoneIn(cut, n, places, p, q)
    PROVE  Heard(t, cut, n, places, q)
<1> SUFFICES ASSUME NEW name \in DOMAIN file.tags, NEW last \in places \cup {0}, last = 0 \/ last < q,
                    IsLast(bytes, cut, n, places, last, name, file.tags[name])
             PROVE  name \in DOMAIN t /\ t[name] = file.tags[name]
  BY DEF Heard
<1>1. CASE last = 0 \/ last < p
  BY <1>1 DEF Heard
<1>2. CASE ~(last = 0 \/ last < p)
  <2>1. last \in places /\ last \in Nat /\ p <= last
    BY <1>2
  <2>2. PICK k \in 0 .. n - 1 : IsTagFrame(bytes, cut, k, last)
    BY <1>2 DEF IsLast
  <2> QED BY <1>2, <2>1, <2>2 DEF NoneIn
<1> QED BY <1>1, <1>2

\* A frame about something, with contents, made t2 of the track t.
IsTold(t2, t, about, contents) ==
    /\ \A name \in DOMAIN t \ Names(about) : name \in DOMAIN t2 /\ t2[name] = t[name]
    /\ \A name, v : Tells(about, contents, name, v) => name \in DOMAIN t2 /\ t2[name] = v

\* and a frame tells what is in it.
LEMMA HeardFrame ==
    ASSUME NEW t, NEW cut, NEW n \in Nat, NEW places, places \subseteq Nat, IsLayout(bytes, cut, n),
           NEW k \in 0 .. n - 1, NEW q \in places, IsTagFrame(bytes, cut, k, q),
           Heard(t, cut, n, places, q), NEW t2,
           LET version == bytes[cut[k] + 4]
           IN  IsTold(t2, t, About(bytes, version, q), Contents(bytes, version, q))
    PROVE  Heard(t2, cut, n, places, q + 1)
<1> SUFFICES ASSUME NEW name \in DOMAIN file.tags, NEW last \in places \cup {0}, last = 0 \/ last < q + 1,
                    IsLast(bytes, cut, n, places, last, name, file.tags[name])
             PROVE  name \in DOMAIN t2 /\ t2[name] = file.tags[name]
  BY DEF Heard
<1> DEFINE version == bytes[cut[k] + 4]
           about == About(bytes, version, q)
           contents == Contents(bytes, version, q)
<1>1. q \in Nat /\ last \in Nat /\ cut[k] < q /\ q < cut[k + 1] /\ cut[k] \in Nat
  BY DEF IsTagFrame, IsLayout
<1>2. CASE last = 0 \/ last < q
  <2>1. name \in DOMAIN t /\ t[name] = file.tags[name]
    BY <1>2 DEF Heard
  <2>2. name \notin Names(about)
    <3>1. q > last
      BY <1>1, <1>2
    <3> QED BY <3>1 DEF IsLast
  <2> QED BY <2>1, <2>2 DEF IsTold
<1>3. CASE ~(last = 0 \/ last < q)
  <2>1. last = q /\ last # 0
    BY <1>1, <1>3
  <2>2. PICK j \in 0 .. n - 1 :
            /\ IsTagFrame(bytes, cut, j, q)
            /\ Tells(About(bytes, bytes[cut[j] + 4], q), Contents(bytes, bytes[cut[j] + 4], q),
                     name, file.tags[name])
    BY <2>1 DEF IsLast
  <2>3. j = k
    <3>1. cut[j] < q /\ q < cut[j + 1] /\ cut[k] <= q
      BY <1>1, <2>2 DEF IsTagFrame
    <3> QED BY <1>1, <3>1, InPart
  <2> QED BY <2>2, <2>3 DEF IsTold
<1> QED BY <1>2, <1>3

-----------------------------------------------------------------------------
(* Frames of tags                                                          *)

LEMMA BytesNumber ==
    ASSUME NEW s \in Seq(Byte)
    PROVE  number(s, 128) \in Nat /\ number(s, 256) \in Nat
<1>1. s \in Seq(Nat)
  BY BytesAreUnits, UnitsAreNumbers
<1>2. PICK a \in Nat : a = 128
  OBVIOUS
<1>3. PICK b \in Nat : b = 256
  OBVIOUS
<1>4. number(s, a) \in Nat /\ number(s, b) \in Nat
  BY <1>1, NumberTyped
<1> QED BY <1>2, <1>3, <1>4

\* The identification and the size of a frame whose header is in the file.
LEMMA HeaderIs ==
    ASSUME bytes \in Seq(Byte), NEW q \in Nat, at = q, NEW version \in 2 .. 4, mp3.id3 = version,
           TextFrom(version, q) <= Len(bytes), NEW junk
    PROVE  /\ bytes_at(bytes, q, id_length(version), junk) = SubSeq(bytes, q + 1, q + id_length(version))
           /\ id_length(version) \in Nat /\ q + id_length(version) <= Len(bytes)
           /\ read(header_length(version)) = TextFrom(version, q) /\ TextFrom(version, q) \in Nat
           /\ frame_size(junk) \in Nat
           /\ FrameEnd(bytes, version, q) = TextFrom(version, q) + frame_size(junk)
<1>1. Len(bytes) \in Nat
  OBVIOUS
<1>2. CASE version = 2
  <2>1. /\ id_length(version) = 3 /\ header_length(version) = 6 /\ TextFrom(version, q) = q + 6
        /\ q + 6 <= Len(bytes)
    BY <1>2 DEF id_length, header_length, TextFrom
  <2>2. bytes_at(bytes, q, 3, junk) = SubSeq(bytes, q + 1, q + 3)
    <3>1. PICK l \in Nat : l = 3
      OBVIOUS
    <3>2. q + l <= Len(bytes)
      BY <1>1, <2>1, <3>1
    <3>3. bytes_at(bytes, q, l, junk) = SubSeq(bytes, q + 1, q + l)
      BY ONLY <3>2, bytes \in Seq(Byte), q \in Nat, l \in Nat, Inside
    <3> QED BY <3>1, <3>3
  <2>3. read(6) = q + 6
    BY <1>1, <2>1 DEF read, tell
  <2>4. /\ bytes_at(bytes, q + 3, 3, junk) = SubSeq(bytes, q + 4, q + 6)
        /\ SubSeq(bytes, q + 4, q + 6) \in Seq(Byte)
    <3>1. PICK p \in Nat : p = q + 3
      OBVIOUS
    <3>2. PICK l \in Nat : l = 3
      OBVIOUS
    <3>3. p + l <= Len(bytes) /\ p + 1 = q + 4 /\ p + l = q + 6
      BY <1>1, <2>1, <3>1, <3>2
    <3>4. /\ bytes_at(bytes, p, l, junk) = SubSeq(bytes, p + 1, p + l)
          /\ SubSeq(bytes, p + 1, p + l) \in Seq(Byte)
      BY ONLY <3>3, bytes \in Seq(Byte), p \in Nat, l \in Nat, Inside
    <3> QED BY <3>1, <3>2, <3>3, <3>4
  <2>5. frame_size(junk) = number(SubSeq(bytes, q + 4, q + 6), 256)
    <3>1. frame_size(junk) = getul3(bytes, q + 3, junk)
      BY <1>2 DEF frame_size
    <3> QED BY <2>4, <3>1 DEF getul3
  <2>6. frame_size(junk) \in Nat
    <3>1. number(SubSeq(bytes, q + 4, q + 6), 256) \in Nat
      <4>1. PICK part \in Seq(Byte) : part = SubSeq(bytes, q + 4, q + 6)
        BY ONLY <2>4
      <4>2. number(part, 256) \in Nat
        BY ONLY part \in Seq(Byte), BytesNumber
      <4> QED BY ONLY <4>1, <4>2
    <3> QED BY ONLY <2>5, <3>1
  <2>7. FrameEnd(bytes, version, q) = TextFrom(version, q) + frame_size(junk)
    BY <1>2, <2>5 DEF FrameEnd
  <2> QED BY <1>1, <2>1, <2>2, <2>3, <2>6, <2>7
<1>3. CASE version \in {3, 4}
  <2>1. /\ id_length(version) = 4 /\ header_length(version) = 10 /\ TextFrom(version, q) = q + 10
        /\ q + 10 <= Len(bytes)
    BY <1>3 DEF id_length, header_length, TextFrom
  <2>2. bytes_at(bytes, q, 4, junk) = SubSeq(bytes, q + 1, q + 4)
    <3>1. PICK l \in Nat : l = 4
      OBVIOUS
    <3>2. q + l <= Len(bytes)
      BY <1>1, <2>1, <3>1
    <3>3. bytes_at(bytes, q, l, junk) = SubSeq(bytes, q + 1, q + l)
      BY ONLY <3>2, bytes \in Seq(Byte), q \in Nat, l \in Nat, Inside
    <3> QED BY <3>1, <3>3
  <2>3. read(10) = q + 10
    BY <1>1, <2>1 DEF read, tell
  <2>4. /\ bytes_at(bytes, q + 4, 4, junk) = SubSeq(bytes, q + 5, q + 8)
        /\ SubSeq(bytes, q + 5, q + 8) \in Seq(Byte)
    <3>1. PICK p \in Nat : p = q + 4
      OBVIOUS
    <3>2. PICK l \in Nat : l = 4
      OBVIOUS
    <3>3. p + l <= Len(bytes) /\ p + 1 = q + 5 /\ p + l = q + 8
      BY <1>1, <2>1, <3>1, <3>2
    <3>4. /\ bytes_at(bytes, p, l, junk) = SubSeq(bytes, p + 1, p + l)
          /\ SubSeq(bytes, p + 1, p + l) \in Seq(Byte)
      BY ONLY <3>3, bytes \in Seq(Byte), p \in Nat, l \in Nat, Inside
    <3> QED BY <3>1, <3>2, <3>3, <3>4
  <2>5. frame_size(junk) = IF version = 3 THEN number(SubSeq(bytes, q + 5, q + 8), 256)
                                          ELSE number(SubSeq(bytes, q + 5, q + 8), 128)
    <3>1. frame_size(junk) = IF version = 3 THEN getul_be(bytes, q + 4, junk) ELSE getul_ss(bytes, q + 4, junk)
      BY <1>3 DEF frame_size
    <3> QED BY <2>4, <3>1 DEF getul_be, getul_ss
  <2>6. frame_size(junk) \in Nat
    <3>1. /\ number(SubSeq(bytes, q + 5, q + 8), 128) \in Nat
          /\ number(SubSeq(bytes, q + 5, q + 8), 256) \in Nat
      <4>1. PICK u \in Seq(Byte) : u = SubSeq(bytes, q + 5, q + 8)
        BY <2>4
      <4>2. number(u, 128) \in Nat /\ number(u, 256) \in Nat
        BY ONLY BytesNumber
      <4> QED BY ONLY <4>1, <4>2
    <3> QED BY ONLY <2>5, <3>1
  <2>7. FrameEnd(bytes, version, q) = TextFrom(version, q) + frame_size(junk)
    BY <1>3, <2>5 DEF FrameEnd
  <2> QED BY <1>1, <2>1, <2>2, <2>3, <2>6, <2>7
<1> QED BY <1>2, <1>3

\* The text of a frame that is in the file.
LEMMA TextIsRead ==
    ASSUME bytes \in Seq(Byte), NEW from \in Nat, NEW size \in Nat, from + size <= Len(bytes), NEW s,
           s = SubSeq(bytes, from + 1, from + size), HasText(s), NEW junk
    PROVE  s \in Seq(Byte) /\ has_text(from, size, junk) /\ id3v2_text(from, size, junk) = TextOf(s)
<1>1. bytes_at(bytes, from, size, junk) = s /\ s \in Seq(Byte) /\ Len(s) = size
  BY Inside
<1>2. s # <<>> /\ s[1] \in 0 .. 3 /\ (s[1] = 1 => Len(s) >= 3)
  BY DEF HasText
<1>3. size > 0 /\ s[1] = bytes[from + 1]
  BY <1>1, <1>2
<1>4. getub(bytes, from, junk) = s[1]
  <2>1. from < Len(bytes)
    BY <1>3
  <2> QED BY <1>3, <2>1 DEF getub
<1>5. has_text(from, size, junk)
  BY <1>1, <1>2, <1>3, <1>4 DEF has_text
<1>6. id3v2_text(from, size, junk) = TextOf(s)
  <2>1. id3v2_text(from, size, junk) =
            CASE s[1] = 0 -> utf8_from_utf16[Tail(s)]
              [] s[1] = 1 -> utf8_from_utf16[pairs(SubSeq(s, 4, size), s[2] = 254)]
              [] s[1] = 2 -> utf8_from_utf16[pairs(Tail(s), TRUE)]
              [] s[1] = 3 -> c_string(Tail(s))
    BY <1>1 DEF id3v2_text
  <2>2. CASE s[1] = 0
    <3>1. Written(s) = Tail(s)
      BY ONLY <2>2 DEF Written
    <3>2. TextOf(s) = utf8_from_utf16[Written(s)]
      BY ONLY <2>2 DEF TextOf
    <3>3. id3v2_text(from, size, junk) = utf8_from_utf16[Tail(s)]
      BY ONLY <2>1, <2>2
    <3> QED BY <3>1, <3>2, <3>3
  <2>3. CASE s[1] = 1
    <3>1. Written(s) = pairs(SubSeq(s, 4, size), s[2] = 254)
      BY ONLY Len(s) = size, <2>3 DEF Written
    <3>2. TextOf(s) = utf8_from_utf16[Written(s)]
      BY ONLY <2>3 DEF TextOf
    <3>3. id3v2_text(from, size, junk) = utf8_from_utf16[pairs(SubSeq(s, 4, size), s[2] = 254)]
      BY ONLY <2>1, <2>3
    <3> QED BY <3>1, <3>2, <3>3, ZenonT(30)
  <2>4. CASE s[1] = 2
    <3>1. Written(s) = pairs(Tail(s), TRUE)
      BY ONLY <2>4 DEF Written
    <3>2. TextOf(s) = utf8_from_utf16[Written(s)]
      BY ONLY <2>4 DEF TextOf
    <3>3. id3v2_text(from, size, junk) = utf8_from_utf16[pairs(Tail(s), TRUE)]
      BY ONLY <2>1, <2>4
    <3> QED BY <3>1, <3>2, <3>3
  <2>5. CASE s[1] = 3
    <3>1. id3v2_text(from, size, junk) = c_string(Tail(s))
      BY ONLY <2>1, <2>5
    <3> QED BY <2>5, <3>1 DEF TextOf
  <2>6. s[1] \in {0, 1, 2, 3}
    BY <1>2
  <2> QED BY <2>2, <2>3, <2>4, <2>5, <2>6
<1> QED BY <1>1, <1>5, <1>6

\* A frame of tags is in one part only.
LEMMA TagFrameIn ==
    ASSUME NEW cut, NEW n \in Nat, IsLayout(bytes, cut, n), NEW k \in 0 .. n - 1, NEW j \in 0 .. n - 1,
           NEW r \in Nat, IsTagFrame(bytes, cut, j, r), cut[k] <= r, r < cut[k + 1]
    PROVE  j = k
<1>1. cut[j] < r /\ r < cut[j + 1]
  BY DEF IsTagFrame
<1> QED BY <1>1, InPart

\* None is in a part that is not tags of a version that is read.
LEMMA NotInPart ==
    ASSUME NEW cut, NEW n \in Nat, IsLayout(bytes, cut, n), NEW places, places \subseteq Nat,
           NEW k \in 0 .. n - 1,
           ~(IsTags(bytes, cut[k], cut[k + 1]) /\ bytes[cut[k] + 4] \in 2 .. 4)
    PROVE  NoneIn(cut, n, places, cut[k], cut[k + 1])
<1> SUFFICES ASSUME NEW j \in 0 .. n - 1, NEW r \in places, cut[k] <= r, r < cut[k + 1],
                    IsTagFrame(bytes, cut, j, r)
             PROVE  FALSE
  BY DEF NoneIn
<1>1. j = k
  BY TagFrameIn
<1> QED BY <1>1 DEF IsTagFrame

\* The places of frames in the tags of part k.
Here(cut, k, places) == {q \in places : cut[k] < q /\ q <= cut[k + 1]}
AreTags(cut, n, places, k) ==
    /\ k \in 0 .. n - 1 /\ IsTags(bytes, cut[k], cut[k + 1]) /\ bytes[cut[k] + 4] \in 2 .. 4
    /\ FramesAt(bytes, cut[k], cut[k + 1], places)

\* None is before the first one in the tags,
LEMMA NotBefore ==
    ASSUME NEW cut, NEW n \in Nat, IsLayout(bytes, cut, n), NEW places, places \subseteq Nat,
           NEW k \in 0 .. n - 1, AreTags(cut, n, places, k)
    PROVE  /\ FramesFrom(bytes, cut[k]) \in Here(cut, k, places)
           /\ NoneIn(cut, n, places, cut[k], FramesFrom(bytes, cut[k]))
<1>1. /\ FramesFrom(bytes, cut[k]) \in Here(cut, k, places)
      /\ \A q \in Here(cut, k, places) : FramesFrom(bytes, cut[k]) <= q
  BY DEF AreTags, FramesAt, Here
<1>2. PICK f \in Nat : f = FramesFrom(bytes, cut[k])
  BY <1>1 DEF Here
<1>3. f <= cut[k + 1] /\ cut[k] \in Nat /\ cut[k + 1] \in Nat
  BY <1>1, <1>2 DEF Here, IsLayout
<1>4. ASSUME NEW j \in 0 .. n - 1, NEW r \in places, cut[k] <= r, r < f, IsTagFrame(bytes, cut, j, r)
      PROVE  FALSE
  <2>1. r \in Nat /\ r < cut[k + 1]
    BY <1>3, <1>4
  <2>2. j = k
    BY <1>4, <2>1, TagFrameIn
  <2>3. r \in Here(cut, k, places)
    BY <1>3, <1>4, <2>1, <2>2 DEF IsTagFrame, Here
  <2>4. f <= r
    BY <1>1, <1>2, <2>3
  <2> QED BY <1>4, <2>1, <2>4
<1> QED BY <1>1, <1>2, <1>4 DEF NoneIn

\* in a frame, or where they end.
LEMMA NotBetween ==
    ASSUME NEW cut, NEW n \in Nat, IsLayout(bytes, cut, n), NEW places, places \subseteq Nat,
           NEW k \in 0 .. n - 1, AreTags(cut, n, places, k),
           NEW q \in Nat, q \in Here(cut, k, places),
           NEW version \in 2 .. 4, version = bytes[cut[k] + 4]
    PROVE  IF q = cut[k + 1] \/ IsPadding(bytes, version, q)
           THEN NoneIn(cut, n, places, q, cut[k + 1])
           ELSE /\ IsTagFrame(bytes, cut, k, q)
                /\ TextFrom(version, q) <= cut[k + 1]
                /\ IsReadable(About(bytes, version, q), Contents(bytes, version, q))
                /\ FrameEnd(bytes, version, q) \in Here(cut, k, places)
                /\ NoneIn(cut, n, places, q + 1, FrameEnd(bytes, version, q))
<1> DEFINE ends == q = cut[k + 1] \/ IsPadding(bytes, version, q)
           end == FrameEnd(bytes, version, q)
<1>1. IF ends THEN \A r \in Here(cut, k, places) : r <= q
      ELSE /\ TextFrom(version, q) <= cut[k + 1] /\ end \in Here(cut, k, places)
           /\ \A r \in Here(cut, k, places) : q < r => end <= r
           /\ IsReadable(About(bytes, version, q), Contents(bytes, version, q))
  BY DEF AreTags, FramesAt, Here
<1>2. cut[k] \in Nat /\ cut[k + 1] \in Nat /\ q \in Nat /\ cut[k] < q /\ q <= cut[k + 1] /\ q \in places
  BY DEF IsLayout, Here
<1>3. ASSUME ends, NEW j \in 0 .. n - 1, NEW r \in places, q <= r, r < cut[k + 1],
             IsTagFrame(bytes, cut, j, r)
      PROVE  FALSE
  <2>1. r \in Nat /\ cut[k] < r
    BY <1>2, <1>3
  <2>2. j = k
    BY <1>2, <1>3, <2>1, TagFrameIn
  <2>3. r \in Here(cut, k, places)
    BY <1>2, <1>3, <2>1 DEF Here
  <2>4. r = q
    BY <1>1, <1>2, <1>3, <2>1, <2>3
  <2>5. q # cut[k + 1]
    BY <1>2, <1>3, <2>4
  <2>6. ~IsPadding(bytes, version, q)
    BY <1>3, <2>2, <2>4 DEF IsTagFrame
  <2> QED BY <1>3, <2>5, <2>6
<1>4. ASSUME ~ends PROVE IsTagFrame(bytes, cut, k, q)
  <2>1. q < cut[k + 1] /\ ~IsPadding(bytes, version, q)
    BY <1>2, <1>4
  <2> QED BY <1>2, <2>1 DEF IsTagFrame, AreTags
<1>5. ASSUME ~ends, NEW j \in 0 .. n - 1, NEW r \in places, q + 1 <= r, r < end,
             IsTagFrame(bytes, cut, j, r)
      PROVE  FALSE
  <2>1. end \in Nat /\ end <= cut[k + 1] /\ r \in Nat
    BY <1>1, <1>5 DEF Here
  <2> HIDE DEF ends, end
  <2>2. r < cut[k + 1] /\ cut[k] < r /\ q < r
    BY <1>2, <1>5, <2>1
  <2>3. r \in Here(cut, k, places)
    BY <1>2, <1>5, <2>1, <2>2 DEF Here
  <2>4. end <= r
    BY <1>1, <1>5, <2>2, <2>3
  <2> QED BY <1>5, <2>1, <2>4
<1> HIDE DEF ends
<1>6. CASE ends
  BY <1>3, <1>6 DEF ends, NoneIn
<1>7. CASE ~ends
  <2>1. NoneIn(cut, n, places, q + 1, end)
    BY <1>5, <1>7 DEF NoneIn
  <2> QED BY <1>1, <1>4, <1>7, <2>1 DEF ends
<1> QED BY <1>6, <1>7

\* The end of tags.
LEMMA TagsOver ==
    ASSUME bytes \in Seq(Byte), NEW version \in 2 .. 4, mp3.id3 = version, NEW q \in Nat, at = q,
           q = mp3.end \/ IsPadding(bytes, version, q), mp3.end \in Nat, id3v2_frame
    PROVE  file' = file /\ mp3' = mp3 /\ track' = track /\ pc' = "sync" /\ at' = mp3.end
<1> DEFINE id(junk) == bytes_at(bytes, at, id_length(mp3.id3), junk)
<1>1. PICK junk \in Junk :
          at >= mp3.end \/ (\A i \in DOMAIN id(junk) : id(junk)[i] = 0) =>
              at' = mp3.end /\ pc' = "sync" /\ UNCHANGED <<file, track, mp3, m4a>>
  BY DEF id3v2_frame
<1>2. CASE q = mp3.end
  BY <1>1, <1>2
<1>3. CASE IsPadding(bytes, version, q)
  <2>1. PICK l \in Nat : l = id_length(version)
    BY DEF id_length
  <2>2. q + l <= Len(bytes) /\ \A i \in 1 .. l : bytes[q + i] = 0
    BY <1>3, <2>1 DEF IsPadding
  <2>3. id(junk) = SubSeq(bytes, q + 1, q + l)
    BY <2>1, <2>2, Inside
  <2> HIDE DEF id
  <2>4. \A i \in DOMAIN id(junk) : id(junk)[i] = 0
    <3>1. /\ DOMAIN SubSeq(bytes, q + 1, q + l) = 1 .. l
          /\ \A j \in 1 .. l : SubSeq(bytes, q + 1, q + l)[j] = bytes[q + j]
      BY ONLY bytes \in Seq(Byte), q \in Nat, l \in Nat, <2>2, PartOf
    <3> QED BY ONLY <2>2, <2>3, <3>1
  <2> QED BY <1>1, <2>4
<1> QED BY <1>2, <1>3

\* A number in parentheses that is read is the one of a genre.
LEMMA GenreOf ==
    ASSUME NEW s \in Seq(Byte), IsReadable("genre", s)
    PROVE  number_in_parentheses(TextOf(s)) \in Genres
<1>1. /\ HasText(s) /\ \A i \in DOMAIN Letters(s) : Letters(s)[i] < 128
      /\ \E j \in Genres : IsGenre(Letters(s), j)
  BY DEF IsReadable
<1>2. Letters(s) \in Seq(Nat)
  BY <1>1, LettersTyped, UnitsAreNumbers
<1>3. TextOf(s) = Letters(s)
  BY <1>1, LettersAre
<1> QED BY <1>1, <1>2, <1>3, GenreRead

\* A frame of tags.
LEMMA TagRead ==
    ASSUME bytes \in Seq(Byte), NEW version \in 2 .. 4, mp3.id3 = version, NEW q \in Nat, at = q,
           mp3.end \in Nat, q < mp3.end, mp3.end <= Len(bytes), ~IsPadding(bytes, version, q),
           TextFrom(version, q) <= mp3.end, FrameEnd(bytes, version, q) <= mp3.end,
           IsReadable(About(bytes, version, q), Contents(bytes, version, q)), id3v2_frame
    PROVE  /\ file' = file /\ mp3' = mp3 /\ pc' = "tags" /\ at' = FrameEnd(bytes, version, q)
           /\ IsTold(track', track, About(bytes, version, q), Contents(bytes, version, q))
<1> DEFINE about == About(bytes, version, q)
           contents == Contents(bytes, version, q)
           mark == TextFrom(version, q)
           end == FrameEnd(bytes, version, q)
           id(junk) == bytes_at(bytes, at, id_length(mp3.id3), junk)
           s(junk) == id3v2_text(read(header_length(mp3.id3)), frame_size(junk), junk)
<1>1. PICK junk \in Junk :
          IF at >= mp3.end \/ \A i \in DOMAIN id(junk) : id(junk)[i] = 0
          THEN at' = mp3.end /\ pc' = "sync" /\ UNCHANGED <<file, track, mp3, m4a>>
          ELSE IF frame_kind(id(junk)) = "unknown"
          THEN at' = read(header_length(mp3.id3)) + frame_size(junk) /\ UNCHANGED <<file, pc, track, mp3, m4a>>
          ELSE IF ~has_text(read(header_length(mp3.id3)), frame_size(junk), junk) THEN fault
          ELSE \/ frame_kind(id(junk)) = "genre" /\ number_in_parentheses(s(junk)) \notin Genres /\ fault
               \/ /\ \E values \in frame_values(frame_kind(id(junk)), s(junk), junk) : set(values)
                  /\ at' = read(header_length(mp3.id3)) + frame_size(junk)
                  /\ UNCHANGED <<file, pc, mp3, m4a>>
  BY DEF id3v2_frame
<1>2. pc = "tags"
  BY DEF id3v2_frame
<1>3. mark <= Len(bytes)
  <2>1. mark \in Nat
    BY DEF TextFrom, header_length
  <2> HIDE DEF mark
  <2> QED BY <2>1 DEF mark
<1>4. PICK size \in Nat :
          /\ size = frame_size(junk) /\ mark \in Nat /\ end = mark + size
          /\ read(header_length(mp3.id3)) = mark
          /\ id(junk) = SubSeq(bytes, q + 1, q + id_length(version))
          /\ id_length(version) \in Nat /\ q + id_length(version) <= Len(bytes)
  BY <1>3, HeaderIs
<1>5. frame_kind(id(junk)) = about
  BY <1>4 DEF About
<1>6. ~(at >= mp3.end \/ \A i \in DOMAIN id(junk) : id(junk)[i] = 0)
  <2>1. PICK l \in Nat : l = id_length(version)
    BY <1>4
  <2>2. PICK i \in 1 .. l : bytes[q + i] # 0
    BY <1>4, <2>1 DEF IsPadding
  <2> HIDE DEF id
  <2>3. i \in DOMAIN id(junk) /\ id(junk)[i] = bytes[q + i]
    <3>1. q + l <= Len(bytes) /\ id(junk) = SubSeq(bytes, q + 1, q + l)
      BY <1>4, <2>1
    <3>2. /\ DOMAIN SubSeq(bytes, q + 1, q + l) = 1 .. l
          /\ \A j \in 1 .. l : SubSeq(bytes, q + 1, q + l)[j] = bytes[q + j]
      BY ONLY bytes \in Seq(Byte), q \in Nat, l \in Nat, <3>1, PartOf
    <3> QED BY ONLY i \in 1 .. l, <3>1, <3>2
  <2> QED BY <2>2, <2>3
<1>7. contents = SubSeq(bytes, mark + 1, mark + size)
  BY <1>4 DEF Contents
<1> HIDE DEF about, contents, mark, end, id
<1>8. CASE about = "unknown"
  <2>1. at' = mark + size /\ UNCHANGED <<file, pc, track, mp3>>
    BY <1>1, <1>4, <1>5, <1>6, <1>8
  <2>2. \A name, v : ~Tells(about, contents, name, v)
    BY <1>8 DEF Tells, TextKinds
  <2>3. IsTold(track', track, about, contents)
    BY <2>1, <2>2 DEF IsTold
  <2> QED BY <1>2, <1>4, <2>1, <2>3 DEF about, contents, end
<1>9. CASE about # "unknown"
  <2>1. about \in Kinds
    BY <1>5, <1>9, KindsAre
  <2>2. IsReadable(about, contents) /\ HasText(contents)
    BY <1>9 DEF IsReadable, about, contents
  <2>3. /\ contents \in Seq(Byte) /\ has_text(mark, size, junk)
        /\ id3v2_text(mark, size, junk) = TextOf(contents)
    <3>1. mark + size <= Len(bytes)
      BY <1>4 DEF end
    <3>2. PICK from \in Nat : from = mark
      BY <1>4
    <3>3. from + size <= Len(bytes) /\ contents = SubSeq(bytes, from + 1, from + size)
      BY <1>7, <3>1, <3>2
    <3>4. /\ contents \in Seq(Byte) /\ has_text(from, size, junk)
          /\ id3v2_text(from, size, junk) = TextOf(contents)
      BY ONLY bytes \in Seq(Byte), from \in Nat, size \in Nat, <2>2, <3>3, TextIsRead
    <3> QED BY <3>2, <3>4
  <2>4. s(junk) = TextOf(contents)
    BY <1>4, <2>3
  <2>5. about = "genre" => number_in_parentheses(TextOf(contents)) \in Genres
    BY <2>2, <2>3, GenreOf
  <2> HIDE DEF s
  <2>6. /\ \E values \in frame_values(about, TextOf(contents), junk) : set(values)
        /\ at' = mark + size /\ UNCHANGED <<file, pc, mp3>>
    BY <1>1, <1>4, <1>5, <1>6, <1>9, <2>3, <2>4, <2>5
  <2>7. PICK values \in frame_values(about, TextOf(contents), junk) : track' = over(values, track)
    BY <2>6 DEF set
  <2>8. /\ DOMAIN values \subseteq Names(about)
        /\ \A name, v : Tells(about, contents, name, v) => name \in DOMAIN values /\ values[name] = v
    BY <2>1, <2>2, <2>3, ValuesTell
  <2>9. IsTold(track', track, about, contents)
    <3>1. PICK t2 : t2 = over(values, track)
      OBVIOUS
    <3>2. PICK t : t = track
      OBVIOUS
    <3>3. t2 = [x \in DOMAIN values \cup DOMAIN t |-> IF x \in DOMAIN values THEN values[x] ELSE t[x]]
      BY <3>1, <3>2 DEF over
    <3>4. IsTold(t2, t, about, contents)
      BY ONLY <2>8, <3>3 DEF IsTold
    <3> QED BY <2>7, <3>1, <3>2, <3>4
  <2> QED BY <1>2, <1>4, <2>6, <2>9 DEF about, contents, end
<1> QED BY <1>8, <1>9

-----------------------------------------------------------------------------
(* What the track has                                                      *)

Tagged(cut, n, version, layer, hz, places) ==
    Mpeg(cut, n, version, layer, hz) /\ IsTagged(file, cut, n, places)

\* At a frame of tags, or where they end.
InFrames(cut, n, places) ==
    \E k \in 0 .. n - 1 :
        /\ AreTags(cut, n, places, k) /\ at \in Here(cut, k, places)
        /\ mp3.end = cut[k + 1] /\ mp3.id3 = bytes[cut[k] + 4]

HasTags == \A name \in DOMAIN file.tags : name \in DOMAIN track /\ track[name] = file.tags[name]

Told(cut, n, places) ==
    /\ pc # "fault"
    /\ pc \in {"sync", "frame", "tags"} => Heard(track, cut, n, places, at)
    /\ pc = "id3v2" => Heard(track, cut, n, places, at - 3)
    /\ pc = "tags" => InFrames(cut, n, places)
    /\ pc = "title" => HasTags
    /\ pc = "returned" => track = NULL \/ HasTags

LEMMA TaggedIs ==
    ASSUME NEW cut, NEW n, NEW version, NEW layer, NEW hz, NEW places,
           Tagged(cut, n, version, layer, hz, places)
    PROVE  /\ Mpeg(cut, n, version, layer, hz)
           /\ bytes \in Seq(Byte) /\ n \in Nat /\ IsLayout(bytes, cut, n) /\ places \subseteq Nat
           /\ Len(bytes) \in Nat /\ Len(bytes) >= 128 /\ Frames(bytes, cut, n) # {}
           /\ HasId3v1(bytes) => bytes[Len(bytes) - 1] \in Genres
           /\ \A k \in 0 .. n - 1 : IsTags(bytes, cut[k], cut[k + 1]) =>
                                       FramesAt(bytes, cut[k], cut[k + 1], places)
           /\ \A name \in DOMAIN file.tags :
                 /\ name \notin SoundNames
                 /\ \E last \in places \cup {0} :
                       IsLast(bytes, cut, n, places, last, name, file.tags[name])
<1>1. Mpeg(cut, n, version, layer, hz) /\ IsTagged(file, cut, n, places)
  BY DEF Tagged
<1>2. /\ bytes \in Seq(Byte) /\ n \in Nat /\ IsLayout(bytes, cut, n) /\ Len(bytes) \in Nat
  BY <1>1, MpegIs
<1> QED BY <1>1, <1>2 DEF IsTagged, bytes

\* What was heard is heard still when the file is the same.
LEMMA HeardSame ==
    ASSUME file' = file, NEW cut, NEW n, NEW places
    PROVE  /\ Heard(track', cut, n, places, at') => Heard(track, cut, n, places, at)'
           /\ Heard(track', cut, n, places, at' - 3) => Heard(track, cut, n, places, at - 3)'
BY DEF Heard, bytes

\* No part is tags and something else.
LEMMA TagsAreTags ==
    ASSUME NEW s \in Seq(Byte), NEW p \in Nat, NEW e, IsTags(s, p, e)
    PROVE  ~FrameBegins(s, p) /\ \A d : ~IsOther(s, p, d)
<1>1. s[p + 1] = 73 /\ s[p + 2] = 68 /\ s[p + 3] = 51
  BY DEF IsTags
<1> QED BY <1>1 DEF FrameBegins, IsOther

LEMMA OpenTold ==
    ASSUME NEW cut, NEW n, NEW version, NEW layer, NEW hz, NEW places,
           Tagged(cut, n, version, layer, hz, places), open_file
    PROVE  Told(cut, n, places)'
<1>1. Reader[<<".mp3">>] = "id3v1"
  BY DEF Reader
<1>2. pc' = "id3v1"
  BY <1>1 DEF open_file, Tagged, Mpeg
<1> QED BY <1>2 DEF Told

LEMMA NoTrackTold ==
    ASSUME NEW cut, NEW n, NEW version, NEW layer, NEW hz, NEW places,
           Where(cut, n, version, layer, hz), no_track
    PROVE  Told(cut, n, places)'
BY DEF Told, Where, no_track

\* What is not set stays.
LEMMA TagsStay ==
    ASSUME HasTags, file' = file, NEW values, track' = over(values, track),
           \A name \in DOMAIN file.tags : name \notin DOMAIN values
    PROVE  HasTags'
BY DEF HasTags, over

LEMMA UploadTold ==
    ASSUME NEW cut, NEW n, NEW places, Told(cut, n, places), upload
    PROVE  Told(cut, n, places)'
<1>1. HasTags /\ file' = file /\ pc' = "returned" /\ track' = over(track, [title |-> ipod_file_name_of])
  BY DEF Told, upload
<1>2. HasTags'
  BY <1>1 DEF HasTags, over
<1> QED BY <1>1, <1>2 DEF Told

\* ID3v1 is told first.
LEMMA Id3v1Told ==
    ASSUME NEW cut, NEW n, NEW version, NEW layer, NEW hz, NEW places,
           Tagged(cut, n, version, layer, hz, places), ipod_mp3_scan_id3v1
    PROVE  Told(cut, n, places)'
<1>1. /\ bytes \in Seq(Byte) /\ Len(bytes) \in Nat /\ Len(bytes) >= 128 /\ places \subseteq Nat
      /\ HasId3v1(bytes) => bytes[Len(bytes) - 1] \in Genres
  BY TaggedIs
<1>2. PICK from \in Nat : from = Len(bytes) - 128
  BY <1>1
<1>3. PICK junk \in Junk :
          LET genre == getub(bytes, seek(at, Len(bytes) - 128) + 126, junk)
          IN  IF bytes_at(bytes, seek(at, Len(bytes) - 128), 3, junk) # TAG
              THEN at' = 0 /\ pc' = "sync" /\ UNCHANGED <<file, track, mp3, m4a>>
              ELSE \/ genre \notin Genres /\ fault
                   \/ /\ \E name \in music_genres(genre) :
                            set(id3v1_values(seek(at, Len(bytes) - 128), name, junk))
                      /\ at' = 0 /\ pc' = "sync"
                      /\ UNCHANGED <<file, mp3, m4a>>
  BY DEF ipod_mp3_scan_id3v1
<1>4. seek(at, Len(bytes) - 128) = from
  BY <1>1, <1>2 DEF seek
<1>5. bytes_at(bytes, from, 3, junk) = SubSeq(bytes, Len(bytes) - 127, Len(bytes) - 125)
  <2>1. PICK l \in Nat : l = 3
    OBVIOUS
  <2>2. from + l <= Len(bytes) /\ from + 1 = Len(bytes) - 127 /\ from + l = Len(bytes) - 125
    BY <1>1, <1>2, <2>1
  <2>3. bytes_at(bytes, from, l, junk) = SubSeq(bytes, from + 1, from + l)
    BY ONLY <1>1, <2>2, from \in Nat, l \in Nat, Inside
  <2> QED BY <2>1, <2>2, <2>3
<1>6. getub(bytes, from + 126, junk) = bytes[Len(bytes) - 1]
  <2>1. from + 126 < Len(bytes) /\ from + 126 + 1 = Len(bytes) - 1
    BY <1>1, <1>2
  <2> QED BY <2>1 DEF getub
<1>7. HasId3v1(bytes) <=> bytes_at(bytes, from, 3, junk) = TAG
  BY <1>1, <1>5 DEF HasId3v1
<1>8. CASE ~HasId3v1(bytes)
  <2>1. at' = 0 /\ pc' = "sync" /\ file' = file
    BY <1>3, <1>4, <1>7, <1>8
  <2>2. Heard(track', cut, n, places, 0)
    BY <1>1, <1>8 DEF Heard, IsLast
  <2>3. Heard(track, cut, n, places, at)'
    BY <2>1, <2>2, HeardSame
  <2> QED BY <2>1, <2>3 DEF Told
<1>9. CASE HasId3v1(bytes)
  <2>1. bytes[Len(bytes) - 1] \in Genres
    BY <1>1, <1>9
  <2>2. PICK genre : track' = over(id3v1_values(from, genre, junk), track) /\ at' = 0 /\ pc' = "sync" /\ file' = file
    BY <1>3, <1>4, <1>6, <1>7, <1>9, <2>1 DEF set
  <2>3. ASSUME NEW name, NEW v, TellsAtEnd(bytes, name, v)
        PROVE  name \in DOMAIN track' /\ track'[name] = v
    <3>1. PICK values : values = id3v1_values(from, genre, junk)
      OBVIOUS
    <3>2. name \in DOMAIN values /\ values[name] = v
      BY <1>1, <1>2, <2>3, <3>1, EndTold
    <3> QED BY <2>2, <3>1, <3>2 DEF over
  <2>4. Heard(track', cut, n, places, 0)
    <3> SUFFICES ASSUME NEW name \in DOMAIN file.tags, NEW last \in places \cup {0}, last = 0 \/ last < 0,
                        IsLast(bytes, cut, n, places, last, name, file.tags[name])
                 PROVE  name \in DOMAIN track' /\ track'[name] = file.tags[name]
      BY DEF Heard
    <3>1. last = 0
      BY <1>1
    <3>2. TellsAtEnd(bytes, name, file.tags[name])
      BY <3>1 DEF IsLast
    <3> QED BY <2>3, <3>2
  <2>5. Heard(track, cut, n, places, at)'
    BY <2>2, <2>4, HeardSame
  <2> QED BY <2>2, <2>5 DEF Told
<1> QED BY <1>8, <1>9

\* Between tags nothing is told.
LEMMA ByteTold ==
    ASSUME NEW cut, NEW n, NEW version, NEW layer, NEW hz, NEW places,
           Tagged(cut, n, version, layer, hz, places), Where(cut, n, version, layer, hz),
           Told(cut, n, places), scan_byte
    PROVE  Told(cut, n, places)'
<1>1. PICK k \in 0 .. n : at = cut[k]
  BY DEF Where, scan_byte, AtPart
<1>2. /\ bytes \in Seq(Byte) /\ n \in Nat /\ IsLayout(bytes, cut, n) /\ places \subseteq Nat
      /\ Heard(track, cut, n, places, at)
  BY TaggedIs DEF Told, scan_byte
<1>3. /\ file' = file /\ track' = track /\ k \in 0 .. n - 1
      /\ \/ FrameBegins(bytes, at) /\ at' = at + 1 /\ pc' = "frame"
         \/ ~FrameBegins(bytes, at) /\ IsTags(bytes, at, cut[k + 1]) /\ at' = at + 3 /\ pc' = "id3v2"
         \/ /\ ~FrameBegins(bytes, at) /\ IsOther(bytes, at, cut[k + 1]) /\ at' = cut[k + 1]
            /\ pc' = "sync" \/ pc' = "frame"
  BY <1>1, <1>2, ByteWalk
<1>4. at \in Nat /\ cut[k + 1] \in Nat /\ at < cut[k + 1]
  <2>1. k \in 0 .. n /\ k + 1 \in 0 .. n /\ k < k + 1
    BY <1>2, <1>3
  <2> QED BY <1>1, <1>2, <2>1 DEF IsLayout
<1>5. PICK t : t = track
  OBVIOUS
<1>6. PICK p \in Nat : p = at
  BY <1>4
<1>7. ASSUME ~IsTags(bytes, at, cut[k + 1]), NEW q \in Nat, q <= cut[k + 1]
      PROVE  Heard(t, cut, n, places, q)
  <2>1. NoneIn(cut, n, places, cut[k], cut[k + 1])
    BY <1>1, <1>2, <1>3, <1>7, NotInPart
  <2>2. NoneIn(cut, n, places, p, q)
    BY <1>1, <1>2, <1>4, <1>6, <1>7, <2>1 DEF NoneIn
  <2> QED BY <1>2, <1>5, <1>6, <2>2, HeardOn
<1>8. CASE FrameBegins(bytes, at) /\ at' = at + 1 /\ pc' = "frame"
  <2>1. ~IsTags(bytes, at, cut[k + 1])
    BY <1>2, <1>4, <1>8, TagsAreTags
  <2>2. Heard(track', cut, n, places, at')
    BY <1>3, <1>4, <1>5, <1>7, <1>8, <2>1
  <2> QED BY <1>3, <1>8, <2>2, HeardSame DEF Told
<1>9. CASE at' = at + 3 /\ pc' = "id3v2"
  <2>1. Heard(track', cut, n, places, at' - 3)
    <3>1. at' - 3 = at
      BY <1>4, <1>9
    <3> QED BY <1>2, <1>3, <3>1
  <2> QED BY <1>3, <1>9, <2>1, HeardSame DEF Told
<1>10. CASE IsOther(bytes, at, cut[k + 1]) /\ at' = cut[k + 1] /\ (pc' = "sync" \/ pc' = "frame")
  <2>1. ~IsTags(bytes, at, cut[k + 1])
    BY <1>2, <1>4, <1>10, TagsAreTags
  <2>2. Heard(track', cut, n, places, at')
    BY <1>3, <1>4, <1>5, <1>7, <1>10, <2>1
  <2> QED BY <1>3, <1>10, <2>2, HeardSame DEF Told
<1> QED BY <1>3, <1>8, <1>9, <1>10

LEMMA FrameTold ==
    ASSUME NEW cut, NEW n, NEW version, NEW layer, NEW hz, NEW places,
           Tagged(cut, n, version, layer, hz, places), Where(cut, n, version, layer, hz),
           Told(cut, n, places), scan_frame
    PROVE  Told(cut, n, places)'
<1>1. PICK k \in 0 .. n - 1 : \/ at = cut[k] + 1 /\ FrameBegins(bytes, cut[k])
                              \/ at = cut[k] /\ bytes[at + 1] < 224
  BY DEF Where, scan_frame, AtHeader
<1>2. /\ bytes \in Seq(Byte) /\ n \in Nat /\ IsLayout(bytes, cut, n) /\ places \subseteq Nat
      /\ Heard(track, cut, n, places, at)
  BY TaggedIs DEF Told, scan_frame
<1>3. /\ pc' = "sync" /\ file' = file /\ track' = track
      /\ \/ FrameBegins(bytes, cut[k]) /\ at = cut[k] + 1 /\ at' = cut[k + 1]
         \/ at = cut[k] /\ at' = cut[k]
  BY <1>1, HeaderWalk DEF Tagged
<1>4. cut[k] \in Nat /\ cut[k + 1] \in Nat
  <2>1. k \in 0 .. n /\ k + 1 \in 0 .. n
    BY <1>2
  <2> QED BY <1>2, <2>1 DEF IsLayout
<1>5. CASE FrameBegins(bytes, cut[k]) /\ at = cut[k] + 1 /\ at' = cut[k + 1]
  <2>1. ~IsTags(bytes, cut[k], cut[k + 1])
    BY <1>2, <1>4, <1>5, TagsAreTags
  <2>2. NoneIn(cut, n, places, cut[k], cut[k + 1])
    BY <1>2, <2>1, NotInPart
  <2>3. PICK t : t = track
    OBVIOUS
  <2>4. PICK p \in Nat : p = cut[k] + 1
    BY <1>4
  <2>5. PICK q \in Nat : q = cut[k + 1]
    BY <1>4
  <2>6. NoneIn(cut, n, places, p, q)
    BY <1>2, <1>4, <2>2, <2>4, <2>5 DEF NoneIn
  <2>7. Heard(t, cut, n, places, q)
    BY <1>2, <1>5, <2>3, <2>4, <2>6, HeardOn
  <2> QED BY <1>3, <1>5, <2>3, <2>5, <2>7, HeardSame DEF Told
<1>6. CASE at = cut[k] /\ at' = cut[k]
  BY <1>2, <1>3, <1>6, HeardSame DEF Told
<1> QED BY <1>3, <1>5, <1>6

\* The header of tags leads to their first frame, or, in a version that is not read,
\* behind them.
LEMMA HeaderTold ==
    ASSUME NEW cut, NEW n, NEW version, NEW layer, NEW hz, NEW places,
           Tagged(cut, n, version, layer, hz, places), Where(cut, n, version, layer, hz),
           Told(cut, n, places), ipod_mp3_scan_id3v2
    PROVE  Told(cut, n, places)'
<1>1. PICK k \in 0 .. n - 1 : /\ IsTags(bytes, cut[k], cut[k + 1]) /\ at = cut[k] + 3
                              /\ Counted(cut, n, k + 1, version, layer, hz)
  BY DEF Where, ipod_mp3_scan_id3v2, AtTags
<1>2. /\ bytes \in Seq(Byte) /\ n \in Nat /\ IsLayout(bytes, cut, n) /\ places \subseteq Nat
      /\ Len(bytes) \in Nat /\ FramesAt(bytes, cut[k], cut[k + 1], places)
      /\ Heard(track, cut, n, places, at - 3)
  BY <1>1, TaggedIs DEF Told, ipod_mp3_scan_id3v2
<1>3. cut[k] \in Nat /\ cut[k + 1] \in Nat
  <2>1. k \in 0 .. n /\ k + 1 \in 0 .. n
    BY <1>2
  <2> QED BY <1>2, <2>1 DEF IsLayout
<1>4. PICK p \in Nat : p = cut[k]
  BY <1>3
<1>5. PICK t : t = track
  OBVIOUS
<1>6. Heard(t, cut, n, places, p)
  <2>1. at - 3 = p
    BY <1>1, <1>4
  <2> QED BY <1>2, <1>5, <2>1
<1>7. p + 10 <= Len(bytes)
  BY <1>1, <1>4 DEF IsTags
<1>8. PICK junk \in Junk :
          LET id == byte(0, junk)
              extended == (byte(2, junk) \div 64) % 2 = 1
              mark == read(7)
              end == mark + getul_ss(bytes, at + 3, junk)
          IN  IF id \in 2 .. 4
              THEN /\ mp3' = [mp3 EXCEPT !.id3 = id, !.end = end]
                   /\ at' = IF extended THEN mark + getul_ss(bytes, mark, junk) ELSE mark
                   /\ pc' = "tags"
              ELSE at' = end /\ pc' = "sync"
  BY DEF ipod_mp3_scan_id3v2
<1>9. file' = file /\ track' = track /\ bytes' = bytes
  BY DEF ipod_mp3_scan_id3v2, bytes
<1>10. read(7) + getul_ss(bytes, at + 3, junk) = cut[k + 1]
  BY <1>1, <1>2, <1>3, TagsEnd DEF read
<1>11. byte(0, junk) = bytes[p + 4] /\ byte(2, junk) = bytes[p + 6] /\ read(7) = p + 10
  <2>1. /\ at + 0 < Len(bytes) /\ at + 2 < Len(bytes) /\ at \in Nat
        /\ at + 0 + 1 = p + 4 /\ at + 2 + 1 = p + 6
    <3>1. at = p + 3
      BY <1>1, <1>4
    <3> QED BY ONLY <1>7, <3>1, p \in Nat, Len(bytes) \in Nat
  <2>2. byte(0, junk) = bytes[p + 4]
    BY <2>1 DEF byte, getub
  <2>3. byte(2, junk) = bytes[p + 6]
    BY <2>1 DEF byte, getub
  <2>4. read(7) = p + 10
    BY <1>1, <1>2, <1>4, <1>7, SMTT(30) DEF read, tell
  <2> QED BY <2>2, <2>3, <2>4
<1>12. CASE bytes[p + 4] \in 2 .. 4
  <2>1. AreTags(cut, n, places, k)
    BY <1>1, <1>2, <1>4, <1>12 DEF AreTags
  <2>2. /\ FramesFrom(bytes, cut[k]) \in Here(cut, k, places)
        /\ NoneIn(cut, n, places, cut[k], FramesFrom(bytes, cut[k]))
    BY <1>2, <2>1, NotBefore
  <2>3. PICK q \in Nat : q = FramesFrom(bytes, cut[k])
    BY <1>2, <2>2 DEF Here
  <2>4. /\ mp3' = [mp3 EXCEPT !.id3 = bytes[p + 4], !.end = cut[k + 1]] /\ pc' = "tags"
        /\ at' = IF HasExtended(bytes, p) THEN p + 10 + getul_ss(bytes, p + 10, junk) ELSE p + 10
    BY <1>8, <1>10, <1>11, <1>12 DEF HasExtended
  <2>5. HasExtended(bytes, p) => getul_ss(bytes, p + 10, junk) = number(SubSeq(bytes, p + 11, p + 14), 128)
    <3> SUFFICES ASSUME HasExtended(bytes, p)
                 PROVE  getul_ss(bytes, p + 10, junk) = number(SubSeq(bytes, p + 11, p + 14), 128)
      OBVIOUS
    <3>1. p + 14 <= Len(bytes)
      BY <1>2, <1>4, <1>12 DEF FramesAt
    <3>2. PICK l \in Nat : l = 4
      OBVIOUS
    <3>3. PICK m \in Nat : m = p + 10
      OBVIOUS
    <3>4. m + l <= Len(bytes) /\ m + 1 = p + 11 /\ m + l = p + 14
      BY <3>1, <3>2, <3>3
    <3>5. bytes_at(bytes, m, l, junk) = SubSeq(bytes, m + 1, m + l)
      BY ONLY <1>2, <3>4, m \in Nat, l \in Nat, Inside
    <3> QED BY <3>2, <3>3, <3>4, <3>5 DEF getul_ss
  <2>6. at' = q
    BY <1>4, <2>3, <2>4, <2>5 DEF FramesFrom
  <2>7. Heard(t, cut, n, places, q)
    <3>1. NoneIn(cut, n, places, p, q)
      BY <1>4, <2>2, <2>3
    <3> QED BY <1>2, <1>6, <3>1, HeardOn
  <2>8. mp3'.id3 = bytes[cut[k] + 4] /\ mp3'.end = cut[k + 1]
    BY <1>1, <1>4, <2>4 DEF Counted
  <2>9. InFrames(cut, n, places)'
    <3>1. AreTags(cut, n, places, k)' /\ Here(cut, k, places)' = Here(cut, k, places)
      BY <1>9, <2>1 DEF AreTags, Here
    <3> QED BY <1>9, <2>2, <2>3, <2>6, <2>8, <3>1 DEF InFrames
  <2> QED BY <1>5, <1>9, <2>4, <2>6, <2>7, <2>9, HeardSame DEF Told
<1>13. CASE bytes[p + 4] \notin 2 .. 4
  <2>1. at' = cut[k + 1] /\ pc' = "sync"
    BY <1>8, <1>10, <1>11, <1>13
  <2>2. PICK q \in Nat : q = cut[k + 1]
    BY <1>3
  <2>3. NoneIn(cut, n, places, p, q)
    BY <1>2, <1>4, <1>13, <2>2, NotInPart
  <2>4. Heard(t, cut, n, places, q)
    BY <1>2, <1>6, <2>3, HeardOn
  <2> QED BY <1>5, <1>9, <2>1, <2>2, <2>4, HeardSame DEF Told
<1> QED BY <1>12, <1>13

\* Each frame of tags is told, and nothing is told between them.
LEMMA TagsTold ==
    ASSUME NEW cut, NEW n, NEW version, NEW layer, NEW hz, NEW places,
           Tagged(cut, n, version, layer, hz, places), Told(cut, n, places), id3v2_frame
    PROVE  Told(cut, n, places)'
<1>1. /\ bytes \in Seq(Byte) /\ n \in Nat /\ IsLayout(bytes, cut, n) /\ places \subseteq Nat
      /\ Heard(track, cut, n, places, at) /\ InFrames(cut, n, places)
  BY TaggedIs DEF Told, id3v2_frame
<1>2. PICK k \in 0 .. n - 1 : /\ AreTags(cut, n, places, k) /\ at \in Here(cut, k, places)
                              /\ mp3.end = cut[k + 1] /\ mp3.id3 = bytes[cut[k] + 4]
  BY <1>1 DEF InFrames
<1>3. PICK e \in Nat : e = cut[k + 1] /\ e <= Len(bytes)
  <2>1. k \in 0 .. n /\ k # n
    BY <1>1
  <2> QED BY <1>1, <2>1, Places
<1>4. PICK q \in Nat : q = at /\ q \in Here(cut, k, places) /\ q \in places /\ q <= e
  BY <1>1, <1>2, <1>3 DEF Here
<1>5. PICK id3 \in 2 .. 4 : id3 = bytes[cut[k] + 4]
  BY <1>2 DEF AreTags
<1>6. IF q = cut[k + 1] \/ IsPadding(bytes, id3, q)
      THEN NoneIn(cut, n, places, q, cut[k + 1])
      ELSE /\ IsTagFrame(bytes, cut, k, q)
           /\ TextFrom(id3, q) <= cut[k + 1]
           /\ IsReadable(About(bytes, id3, q), Contents(bytes, id3, q))
           /\ FrameEnd(bytes, id3, q) \in Here(cut, k, places)
           /\ NoneIn(cut, n, places, q + 1, FrameEnd(bytes, id3, q))
  BY ONLY <1>1, <1>2, <1>4, <1>5, n \in Nat, k \in 0 .. n - 1, q \in Here(cut, k, places),
          id3 \in 2 .. 4, NotBetween
<1>7. PICK t : t = track
  OBVIOUS
<1>8. CASE q = e \/ IsPadding(bytes, id3, q)
  <2>1. file' = file /\ track' = track /\ pc' = "sync" /\ at' = e
    BY <1>1, <1>2, <1>3, <1>4, <1>5, <1>8, TagsOver
  <2>2. Heard(t, cut, n, places, e)
    <3>1. NoneIn(cut, n, places, q, e)
      BY <1>3, <1>6, <1>8
    <3> QED BY <1>1, <1>4, <1>7, <3>1, HeardOn
  <2> QED BY <1>7, <2>1, <2>2, HeardSame DEF Told
<1>9. CASE ~(q = e \/ IsPadding(bytes, id3, q))
  <2>1. PICK end \in Nat : end = FrameEnd(bytes, id3, q) /\ end <= e /\ end \in Here(cut, k, places)
    BY <1>1, <1>3, <1>6, <1>9 DEF Here
  <2>2. /\ file' = file /\ mp3' = mp3 /\ pc' = "tags" /\ at' = end
        /\ IsTold(track', track, About(bytes, id3, q), Contents(bytes, id3, q))
    <3>1. q < e
      BY <1>4, <1>9
    <3> QED BY <1>1, <1>2, <1>3, <1>4, <1>5, <1>6, <1>9, <2>1, <3>1, TagRead
  <2>3. PICK t2 : t2 = track'
    OBVIOUS
  <2>4. Heard(t2, cut, n, places, q + 1)
    <3>1. IsTold(t2, t, About(bytes, id3, q), Contents(bytes, id3, q))
      BY <1>7, <2>2, <2>3
    <3>2. Heard(t, cut, n, places, q) /\ IsTagFrame(bytes, cut, k, q)
      BY <1>1, <1>3, <1>4, <1>6, <1>7, <1>9
    <3> QED BY <1>1, <1>4, <1>5, <3>1, <3>2, HeardFrame
  <2>5. PICK p \in Nat : p = q + 1
    OBVIOUS
  <2>6. NoneIn(cut, n, places, p, end)
    BY <1>3, <1>6, <1>9, <2>1, <2>5
  <2>7. Heard(t2, cut, n, places, end)
    BY <1>1, <2>4, <2>5, <2>6, HeardOn
  <2>8. InFrames(cut, n, places)'
    <3>1. AreTags(cut, n, places, k)' /\ Here(cut, k, places)' = Here(cut, k, places)
      BY <1>2, <2>2 DEF AreTags, Here, bytes
    <3>2. bytes' = bytes
      BY <2>2 DEF bytes
    <3> QED BY <1>2, <2>1, <2>2, <3>1, <3>2 DEF InFrames
  <2> QED BY <2>2, <2>3, <2>7, <2>8, HeardSame DEF Told
<1> QED BY <1>8, <1>9

\* At the end of the file all is told.
LEMMA AllTold ==
    ASSUME NEW cut, NEW n, NEW version, NEW layer, NEW hz, NEW places,
           Tagged(cut, n, version, layer, hz, places), Heard(track, cut, n, places, Len(bytes))
    PROVE  HasTags
<1> SUFFICES ASSUME NEW name \in DOMAIN file.tags
             PROVE  name \in DOMAIN track /\ track[name] = file.tags[name]
  BY DEF HasTags
<1>1. /\ bytes \in Seq(Byte) /\ n \in Nat /\ IsLayout(bytes, cut, n) /\ places \subseteq Nat
      /\ Len(bytes) \in Nat
  BY TaggedIs
<1>2. PICK last \in places \cup {0} : IsLast(bytes, cut, n, places, last, name, file.tags[name])
  BY TaggedIs
<1>3. last = 0 \/ last < Len(bytes)
  <2>1. CASE last # 0
    <3>1. PICK k \in 0 .. n - 1 : last < cut[k + 1]
      BY <1>2, <2>1 DEF IsLast, IsTagFrame
    <3>2. k \in 0 .. n /\ k # n
      BY <1>1
    <3>3. cut[k + 1] \in Nat /\ cut[k + 1] <= Len(bytes)
      BY <1>1, <3>2, Places
    <3> QED BY <1>1, <3>1, <3>3
  <2> QED BY <2>1
<1> QED BY <1>2, <1>3 DEF Heard

LEMMA EndHasTags ==
    ASSUME NEW cut, NEW n, NEW version, NEW layer, NEW hz, NEW places,
           Tagged(cut, n, version, layer, hz, places), Where(cut, n, version, layer, hz),
           Told(cut, n, places), scan_end
    PROVE  Told(cut, n, places)'
<1>1. PICK k \in 0 .. n : at = cut[k] /\ Counted(cut, n, k, version, layer, hz)
  BY DEF Where, scan_end, AtPart
<1>2. /\ Mpeg(cut, n, version, layer, hz) /\ bytes \in Seq(Byte) /\ n \in Nat /\ IsLayout(bytes, cut, n)
      /\ Len(bytes) \in Nat /\ Frames(bytes, cut, n) # {} /\ Heard(track, cut, n, places, at)
      /\ \A name \in DOMAIN file.tags : name \notin SoundNames
  <2>1. Heard(track, cut, n, places, at)
    BY DEF Told, scan_end
  <2> QED BY <2>1, TaggedIs
<1>3. k = n /\ at = Len(bytes)
  <2>1. at \in Nat /\ at <= Len(bytes) /\ (k # n <=> at < Len(bytes))
    BY <1>1, <1>2, AtPartIs
  <2>2. at >= Len(bytes)
    BY DEF scan_end
  <2> QED BY <1>2, <2>1, <2>2
<1>4. HasTags
  BY <1>2, <1>3, AllTold
<1>5. Found(mp3.types) # {}
  <2>1. IsHistogram(mp3.types, bytes, cut, n, n, version, layer)
    BY <1>1, <1>3 DEF Counted
  <2>2. PICK j \in Frames(bytes, cut, n) : RateIndex(bytes, cut[j]) \in 0 .. 15
    BY <1>2, MpegIs, RatesTyped
  <2>3. mp3.types[RateIndex(bytes, cut[j])] > 0
    BY <2>1, <2>2 DEF IsHistogram
  <2> QED BY <2>2, <2>3 DEF Found
<1>6. PICK rate, hertz, duration, vbr :
          track' = over(SoundValues(Len(bytes), rate, hertz, duration, vbr), track)
          /\ pc' = "title" /\ file' = file
  <2>1. PICK junk \in Junk :
            LET total_rate == sum_of([i \in 0 .. 15 |->
                    mp3.types[i] * bit_rate(mp3.version, mp3.layer, i, junk)], 16)
                samples == frame_count * (IF mp3.layer = LAYER_1 THEN 384 ELSE 1152)
            IN  IF Found(mp3.types) = {} THEN fault
                ELSE /\ set(SoundValues(Len(bytes), total_rate \div frame_count, mp3.sample_rate,
                                        (samples \div mp3.sample_rate) * 1000,
                                        IF Cardinality(Found(mp3.types)) > 1 THEN 257 ELSE 256))
                     /\ pc' = "title"
                     /\ UNCHANGED <<file, at, mp3, m4a>>
    BY DEF scan_end, Found, SoundValues
  <2> QED BY <1>5, <2>1 DEF set
<1>7. PICK values : values = SoundValues(Len(bytes), rate, hertz, duration, vbr)
  OBVIOUS
<1>8. DOMAIN values = SoundNames
  BY <1>7 DEF SoundValues, SoundNames
<1>9. HasTags'
  BY <1>2, <1>4, <1>6, <1>7, <1>8, TagsStay
<1> QED BY <1>6, <1>9 DEF Told

-----------------------------------------------------------------------------
(* The invariant, with what is told                                        *)

TInv ==
    extension = <<".mp3">> =>
        \A cut, n, version, layer, hz, places :
            IsMpeg(file, cut, n, version, layer, hz) /\ IsTagged(file, cut, n, places) =>
                Told(cut, n, places)

LEMMA InitTInv == Init => TInv
BY DEF Init, TInv, Told

LEMMA NextTold ==
    ASSUME NEW cut, NEW n, NEW version, NEW layer, NEW hz, NEW places,
           Tagged(cut, n, version, layer, hz, places), Where(cut, n, version, layer, hz),
           Told(cut, n, places), [ipod_track_add_from]_vars
    PROVE  Told(cut, n, places)'
<1>1. CASE ipod_track_from_mp3
  BY <1>1, Id3v1Told, ByteTold, HeaderTold, TagsTold, FrameTold, EndHasTags DEF ipod_track_from_mp3
<1>2. CASE ipod_track_from_m4a
  <2>1. pc \notin {"atom", "next", "rate"}
    BY DEF Where
  <2> QED BY <1>2, <2>1 DEF ipod_track_from_m4a, enter_atom, read_atom, next_atom, set_bit_rate
<1>3. CASE open_file \/ no_track \/ upload
  BY <1>3, OpenTold, NoTrackTold, UploadTold
<1>4. CASE UNCHANGED vars
  <2>1. UNCHANGED <<file, pc, at, track, mp3, bytes>>
    BY <1>4 DEF vars, bytes
  <2> QED BY <2>1 DEF Told, Heard, InFrames, AreTags, Here, HasTags
<1> QED BY <1>1, <1>2, <1>3, <1>4 DEF ipod_track_add_from

LEMMA NextTInv == IInv /\ TInv /\ [ipod_track_add_from]_vars => TInv'
<1> SUFFICES ASSUME IInv, TInv, [ipod_track_add_from]_vars PROVE TInv'
  OBVIOUS
<1>1. file' = file /\ extension' = extension
  BY FileKept DEF extension, ipod_extension_of, from_last, path
<1>2. ASSUME extension = <<".mp3">>, NEW cut, NEW n, NEW version, NEW layer, NEW hz, NEW places,
             IsMpeg(file, cut, n, version, layer, hz), IsTagged(file, cut, n, places)
      PROVE  Told(cut, n, places)'
  <2>1. Tagged(cut, n, version, layer, hz, places) /\ Where(cut, n, version, layer, hz)
    BY <1>2 DEF IInv, FileTyped, Mpeg, Tagged
  <2>2. Told(cut, n, places)
    BY <1>2 DEF TInv
  <2> QED BY <2>1, <2>2, NextTold
<1> QED BY <1>1, <1>2 DEF TInv

\* From an mp3 file with sound, whose tags the program knows how to read, the program
\* gets what its tags tell, of each name what is told last, and does not fault,
\* however the tags are split, padded, extended and followed by others, and whatever
\* is between them (ipod_track_from_mp3.c:224-352, ipod.h:141-143).
THEOREM TagsAreRead ==
    Spec => [](extension = <<".mp3">> /\ IsTaggedFile(file) => ReadsTags)
<1>1. TInv => (extension = <<".mp3">> /\ IsTaggedFile(file) => ReadsTags)
  <2> SUFFICES ASSUME TInv, extension = <<".mp3">>, IsTaggedFile(file)
               PROVE  pc # "fault" /\ (pc = "returned" /\ track # NULL => HasTags)
    BY DEF ReadsTags, HasTags
  <2>1. PICK cut, n, version, layer, hz, places :
            IsMpeg(file, cut, n, version, layer, hz) /\ IsTagged(file, cut, n, places)
    BY DEF IsTaggedFile
  <2>2. Told(cut, n, places)
    BY <2>1 DEF TInv
  <2> QED BY <2>2 DEF Told
<1> QED BY <1>1, InitTInv, NextTInv, InvariantIInv, PTL DEF Spec
=============================================================================
