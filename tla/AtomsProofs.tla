---------------------------- MODULE AtomsProofs ----------------------------
(***************************************************************************)
(* What is written of a database is what is read of it, for every tree of  *)
(* the atoms' types, every version and every size of the headers.          *)
(*                                                                         *)
(* The proof goes up from the leaves: where the cells of an atom are in a  *)
(* file, its reader yields the atom and leaves the stream behind it; and   *)
(* of children written one after the other, each is where the one before   *)
(* it ends.  The loops are recursive functions, about which facts are      *)
(* proved by induction as a set of numbers: one that has 0 and with each   *)
(* number the next.                                                        *)
(*                                                                         *)
(* Behind that are facts about the other loops over lists, for the proofs  *)
(* about whole calls: searches, sorting, choosing a part of a list.        *)
(***************************************************************************)
EXTENDS Atoms, SequenceTheorems, FiniteSetTheorems, TLAPS

-----------------------------------------------------------------------------
(* Induction, by least counterexample                                      *)

\* A set of natural numbers has a least element.
LEMMA LeastNat ==
    ASSUME NEW T, T \subseteq Nat, T # {}
    PROVE  \E x \in T : \A y \in T : x <= y
<1> DEFINE below == {1..x : x \in T}
<1>1. IsWellFoundedOn(StrictSubsetOrdering(Nat), FiniteSubsetsOf(Nat))
  BY FS_StrictSubsetOrderingWellFounded
<1>2. below \subseteq FiniteSubsetsOf(Nat) /\ below # {}
  <2>1. ASSUME NEW x \in T PROVE 1..x \in FiniteSubsetsOf(Nat)
    <3>1. x \in Int /\ 1 \in Int
      OBVIOUS
    <3>2. IsFiniteSet(1..x)
      BY <3>1, FS_Interval
    <3> QED BY <3>2 DEF FiniteSubsetsOf
  <2> QED BY <2>1
<1>3. PICK b \in below : \A c \in below : <<c, b>> \notin StrictSubsetOrdering(Nat)
  <2> HIDE DEF below
  <2> QED BY <1>1, <1>2, WFMin
<1>4. PICK x \in T : b = 1..x
  BY <1>3
<1>5. ASSUME NEW y \in T, y < x PROVE FALSE
  <2>1. 1..y \subseteq 1..x /\ 1..y # 1..x
    <3>1. x \in 1..x /\ x \notin 1..y
      BY <1>5
    <3> QED BY <1>5, <3>1
  <2>2. <<1..y, 1..x>> \in StrictSubsetOrdering(Nat)
    BY <2>1 DEF StrictSubsetOrdering
  <2> QED BY <1>3, <1>4, <2>2
<1>6. \A y \in T : x <= y
  BY <1>5
<1> QED BY <1>6

\* A set of numbers up to n that has 0, and with each number the next, has all.
LEMMA Induction ==
    ASSUME NEW n \in Nat, NEW S, 0 \in S,
           \A i \in 1..n : i - 1 \in S => i \in S
    PROVE  \A i \in 0..n : i \in S
<1> DEFINE T == {i \in 0..n : i \notin S}
<1>1. ASSUME T # {} PROVE FALSE
  <2>1. PICK m \in T : \A y \in T : m <= y
    <3>1. T \subseteq Nat
      OBVIOUS
    <3> HIDE DEF T
    <3> QED BY <1>1, <3>1, LeastNat
  <2>2. m \in 1..n
    BY <2>1
  <2>3. m - 1 \notin T
    <3>1. ASSUME m - 1 \in T PROVE m <= m - 1
      <4> HIDE DEF T
      <4> QED BY <2>1, <3>1
    <3>2. m \in Int /\ ~(m <= m - 1)
      BY <2>2
    <3> HIDE DEF T
    <3> QED BY <3>1, <3>2
  <2>4. m - 1 \in S
    BY <2>2, <2>3
  <2> QED BY <2>1, <2>2, <2>4
<1> QED BY <1>1

-----------------------------------------------------------------------------
(* Cells                                                                   *)

\* The cells s are in the file f, from position p on.
At(f, p, s) == \A k \in 1..Len(s) : p + k - 1 \in DOMAIN f /\ f[p + k - 1] = s[k]

\* What concatenation is, cell by cell.
LEMMA Cat ==
    ASSUME NEW s \in File, NEW t \in File
    PROVE  /\ s \o t \in File /\ Len(s \o t) = Len(s) + Len(t)
           /\ \A k \in 1..Len(s) : (s \o t)[k] = s[k]
           /\ \A k \in 1..Len(t) : (s \o t)[Len(s) + k] = t[k]
  BY DEF File

\* Both parts of a concatenation are where it is.
LEMMA AtCat ==
    ASSUME NEW f, NEW p \in Nat, NEW s \in File, NEW t \in File, At(f, p, s \o t)
    PROVE  At(f, p, s) /\ At(f, p + Len(s), t)
<1> DEFINE st == s \o t
<1>1. /\ Len(st) = Len(s) + Len(t) /\ Len(s) \in Nat /\ Len(t) \in Nat
      /\ \A k \in 1..Len(s) : st[k] = s[k]
      /\ \A k \in 1..Len(t) : st[Len(s) + k] = t[k]
  <2>1. Len(s) \in Nat /\ Len(t) \in Nat
    BY DEF File
  <2> QED BY <2>1, Cat
<1> HIDE DEF st
<1>2. \A k \in 1..Len(st) : p + k - 1 \in DOMAIN f /\ f[p + k - 1] = st[k]
  BY DEF At, st
<1>3. ASSUME NEW k \in 1..Len(s) PROVE p + k - 1 \in DOMAIN f /\ f[p + k - 1] = s[k]
  <2>1. k \in 1..Len(st)
    BY <1>1
  <2> QED BY <1>1, <1>2, <2>1
<1>4. ASSUME NEW k \in 1..Len(t)
      PROVE  p + Len(s) + k - 1 \in DOMAIN f /\ f[p + Len(s) + k - 1] = t[k]
  <2>1. Len(s) + k \in 1..Len(st)
    BY <1>1
  <2>2. p + (Len(s) + k) - 1 = p + Len(s) + k - 1
    BY <1>1
  <2> QED BY <1>1, <1>2, <2>1, <2>2
<1> QED BY <1>3, <1>4 DEF At

\* Reading a cell of what is there.
LEMMA AtCell ==
    ASSUME NEW f, NEW p, NEW s, At(f, p, s), NEW k \in 1..Len(s)
    PROVE  Cell(f, p + k - 1) = s[k]
  BY DEF At, Cell

\* Reading a short sequence of cells.
LEMMA AtShort ==
    ASSUME NEW f, NEW p \in Nat
    PROVE  /\ \A x : At(f, p, <<x>>) => Cell(f, p) = x
           /\ \A x, y : At(f, p, <<x, y>>) => Cell(f, p) = x /\ Cell(f, p + 1) = y
<1>1. ASSUME NEW x, At(f, p, <<x>>) PROVE Cell(f, p) = x
  <2>1. 1 \in 1..Len(<<x>>) /\ <<x>>[1] = x /\ p + 1 - 1 = p
    OBVIOUS
  <2> QED BY <1>1, <2>1 DEF At, Cell
<1>2. ASSUME NEW x, NEW y, At(f, p, <<x, y>>) PROVE Cell(f, p) = x /\ Cell(f, p + 1) = y
  <2>1. /\ 1 \in 1..Len(<<x, y>>) /\ 2 \in 1..Len(<<x, y>>)
        /\ <<x, y>>[1] = x /\ <<x, y>>[2] = y /\ p + 1 - 1 = p /\ p + 2 - 1 = p + 1
    OBVIOUS
  <2> QED BY <1>2, <2>1 DEF At, Cell
<1> QED BY <1>1, <1>2

\* Reading as many cells as there are.
LEMMA AtCells ==
    ASSUME NEW f, NEW p, NEW s \in File, At(f, p, s)
    PROVE  Cells(f, p, Len(s)) = s
<1>1. \A k \in 1..Len(s) : Cell(f, p + k - 1) = s[k]
  BY AtCell
<1>2. s = [k \in 1..Len(s) |-> s[k]]
  BY DEF File
<1> QED BY <1>1, <1>2 DEF Cells

\* Padding a header.
LEMMA Pad ==
    ASSUME NEW s \in File, NEW size \in Nat, Len(s) <= size
    PROVE  /\ Padded(s, size) \in File /\ Len(Padded(s, size)) = size
           /\ \A k \in 1..Len(s) : Padded(s, size)[k] = s[k]
<1> DEFINE zeros == [k \in 1..(size - Len(s)) |-> 0]
<1>1. Len(s) \in Nat /\ size - Len(s) \in Nat
  BY DEF File
<1>2. zeros \in File /\ Len(zeros) = size - Len(s)
  BY <1>1 DEF File
<1>3. Padded(s, size) = s \o zeros
  BY DEF Padded
<1> HIDE DEF zeros
<1> QED BY <1>1, <1>2, <1>3, Cat

\* The cells s are an atom, with these parts where they are read.
IsAtom(s, tag, size, fields, body) ==
    /\ s \in File /\ Len(s) = size + Len(body) /\ s[1] = tag
    /\ \A f : \A p \in Nat : At(f, p, s) =>
          /\ Cell(f, p) = tag /\ Cell(f, p + 1) = size
          /\ Cell(f, p + 2) = size + Len(body)
          /\ \A k \in 1..Len(fields) : Cell(f, p + 2 + k) = fields[k]
          /\ At(f, p + size, body)

\* An atom has its parts.
LEMMA AtomParts ==
    ASSUME NEW tag \in Int, NEW size \in Nat, NEW fields \in File, NEW body \in File,
           3 + Len(fields) <= size
    PROVE  IsAtom(Atom(tag, size, fields, body), tag, size, fields, body)
<1> DEFINE first == <<tag, size, 0>>
           start == first \o fields
           head == Padded(start, size)
           full == [head EXCEPT ![3] = Len(head) + Len(body)]
<1>1. Atom(tag, size, fields, body) = full \o body
  BY DEF Atom
<1>2. first \in File /\ Len(first) = 3 /\ first[1] = tag /\ first[2] = size
  BY DEF File
<1>3. Len(fields) \in Nat /\ Len(body) \in Nat
  BY DEF File
<1> HIDE DEF first
<1>4. /\ start \in File /\ Len(start) = 3 + Len(fields)
      /\ start[1] = tag /\ start[2] = size
      /\ \A k \in 1..Len(fields) : start[3 + k] = fields[k]
  <2>1. 1 \in 1..Len(first) /\ 2 \in 1..Len(first)
    BY <1>2
  <2>2. /\ start \in File /\ Len(start) = Len(first) + Len(fields)
        /\ \A k \in 1..Len(first) : start[k] = first[k]
        /\ \A k \in 1..Len(fields) : start[Len(first) + k] = fields[k]
    BY <1>2, Cat
  <2> HIDE DEF start
  <2> QED BY <1>2, <2>1, <2>2
<1> HIDE DEF start
<1>5. /\ head \in File /\ Len(head) = size
      /\ \A k \in 1..Len(start) : head[k] = start[k]
  BY <1>3, <1>4, Pad
<1> HIDE DEF head
<1>6. /\ full \in File /\ Len(full) = size /\ full[3] = size + Len(body)
      /\ full[1] = tag /\ full[2] = size
      /\ \A k \in 1..Len(fields) : full[3 + k] = fields[k]
  <2>1. DOMAIN head = 1..size /\ 3 \in 1..size
    BY <1>3, <1>5 DEF File
  <2>2. full \in File /\ Len(full) = size /\ full[3] = size + Len(body)
        /\ \A k \in 1..size : k # 3 => full[k] = head[k]
    BY <1>3, <1>5, <2>1 DEF File
  <2> HIDE DEF full
  <2>3. full[1] = tag /\ full[2] = size
    <3>1. 1 \in 1..size /\ 2 \in 1..size /\ 1 \in 1..Len(start) /\ 2 \in 1..Len(start)
      BY <1>3, <1>4
    <3> QED BY <1>4, <1>5, <2>2, <3>1
  <2>4. ASSUME NEW k \in 1..Len(fields) PROVE full[3 + k] = fields[k]
    <3>1. 3 + k \in 1..size /\ 3 + k \in 1..Len(start) /\ 3 + k # 3
      BY <1>3, <1>4
    <3> QED BY <1>4, <1>5, <2>2, <3>1
  <2> QED BY <2>2, <2>3, <2>4
<1> HIDE DEF full
<1>7. 1 \in 1..Len(full) /\ 2 \in 1..Len(full) /\ 3 \in 1..Len(full)
      /\ \A k \in 1..Len(fields) : 3 + k \in 1..Len(full)
  BY <1>3, <1>6
<1>8. full \o body \in File /\ Len(full \o body) = size + Len(body)
      /\ (full \o body)[1] = tag
  <2> DEFINE all == full \o body
  <2>1. /\ all \in File /\ Len(all) = Len(full) + Len(body)
        /\ \A k \in 1..Len(full) : all[k] = full[k]
    BY <1>6, Cat
  <2> HIDE DEF all
  <2>2. all \in File /\ Len(all) = size + Len(body) /\ all[1] = tag
    BY <1>6, <1>7, <2>1
  <2> QED BY <2>2 DEF all
<1>9. ASSUME NEW f, NEW p \in Nat, At(f, p, full \o body)
      PROVE  /\ Cell(f, p) = tag /\ Cell(f, p + 1) = size
             /\ Cell(f, p + 2) = size + Len(body)
             /\ \A k \in 1..Len(fields) : Cell(f, p + 2 + k) = fields[k]
             /\ At(f, p + size, body)
  <2>1. At(f, p, full) /\ At(f, p + size, body)
    BY <1>6, <1>9, AtCat
  <2>2. \A k \in 1..Len(full) : Cell(f, p + k - 1) = full[k]
    BY <2>1, AtCell
  <2>3. p + 1 - 1 = p /\ p + 2 - 1 = p + 1 /\ p + 3 - 1 = p + 2
        /\ \A k \in Nat : p + (3 + k) - 1 = p + 2 + k
    OBVIOUS
  <2>4. Cell(f, p) = tag /\ Cell(f, p + 1) = size /\ Cell(f, p + 2) = size + Len(body)
    BY <1>6, <1>7, <2>2, <2>3
  <2>5. ASSUME NEW k \in 1..Len(fields) PROVE Cell(f, p + 2 + k) = fields[k]
    <3>1. k \in Nat
      BY <1>3
    <3>2. Cell(f, p + (3 + k) - 1) = full[3 + k]
      BY <1>7, <2>2
    <3> QED BY <1>6, <2>3, <3>1, <3>2
  <2> QED BY <2>1, <2>4, <2>5
<1> QED BY <1>1, <1>8, <1>9 DEF IsAtom

\* The cells s are a list: a count, and no total size.
IsList(s, tag, size, fields, body) ==
    /\ s \in File /\ Len(s) = size + Len(body) /\ s[1] = tag
    /\ \A f : \A p \in Nat : At(f, p, s) =>
          /\ Cell(f, p) = tag /\ Cell(f, p + 1) = size
          /\ \A k \in 1..Len(fields) : Cell(f, p + 1 + k) = fields[k]
          /\ At(f, p + size, body)

\* A list has its parts.
LEMMA ListParts ==
    ASSUME NEW tag \in Int, NEW size \in Nat, NEW fields \in File, NEW body \in File,
           2 + Len(fields) <= size
    PROVE  IsList(ListAtom(tag, size, fields, body), tag, size, fields, body)
<1> DEFINE first == <<tag, size>>
           start == first \o fields
           head == Padded(start, size)
<1>1. ListAtom(tag, size, fields, body) = head \o body
  BY DEF ListAtom
<1>2. first \in File /\ Len(first) = 2 /\ first[1] = tag /\ first[2] = size
  BY DEF File
<1>3. Len(fields) \in Nat /\ Len(body) \in Nat
  BY DEF File
<1> HIDE DEF first
<1>4. /\ start \in File /\ Len(start) = 2 + Len(fields)
      /\ start[1] = tag /\ start[2] = size
      /\ \A k \in 1..Len(fields) : start[2 + k] = fields[k]
  <2>1. 1 \in 1..Len(first) /\ 2 \in 1..Len(first)
    BY <1>2
  <2>2. /\ start \in File /\ Len(start) = Len(first) + Len(fields)
        /\ \A k \in 1..Len(first) : start[k] = first[k]
        /\ \A k \in 1..Len(fields) : start[Len(first) + k] = fields[k]
    BY <1>2, Cat
  <2> HIDE DEF start
  <2> QED BY <1>2, <2>1, <2>2
<1> HIDE DEF start
<1>5. /\ head \in File /\ Len(head) = size
      /\ \A k \in 1..Len(start) : head[k] = start[k]
  BY <1>3, <1>4, Pad
<1> HIDE DEF head
<1>6. /\ head[1] = tag /\ head[2] = size
      /\ \A k \in 1..Len(fields) : head[2 + k] = fields[k]
  <2>1. 1 \in 1..Len(start) /\ 2 \in 1..Len(start)
        /\ \A k \in 1..Len(fields) : 2 + k \in 1..Len(start)
    BY <1>3, <1>4
  <2> QED BY <1>4, <1>5, <2>1
<1>7. 1 \in 1..Len(head) /\ 2 \in 1..Len(head)
      /\ \A k \in 1..Len(fields) : 2 + k \in 1..Len(head)
  BY <1>3, <1>5
<1>8. head \o body \in File /\ Len(head \o body) = size + Len(body)
  BY <1>5, Cat
<1>9. ASSUME NEW f, NEW p \in Nat, At(f, p, head \o body)
      PROVE  /\ Cell(f, p) = tag /\ Cell(f, p + 1) = size
             /\ \A k \in 1..Len(fields) : Cell(f, p + 1 + k) = fields[k]
             /\ At(f, p + size, body)
  <2>1. At(f, p, head) /\ At(f, p + size, body)
    BY <1>5, <1>9, AtCat
  <2>2. \A k \in 1..Len(head) : Cell(f, p + k - 1) = head[k]
    BY <2>1, AtCell
  <2>3. p + 1 - 1 = p /\ p + 2 - 1 = p + 1
        /\ \A k \in Nat : p + (2 + k) - 1 = p + 1 + k
    OBVIOUS
  <2>4. Cell(f, p) = tag /\ Cell(f, p + 1) = size
    BY <1>6, <1>7, <2>2, <2>3
  <2>5. ASSUME NEW k \in 1..Len(fields) PROVE Cell(f, p + 1 + k) = fields[k]
    <3>1. k \in Nat
      BY <1>3
    <3>2. Cell(f, p + (2 + k) - 1) = head[2 + k]
      BY <1>7, <2>2
    <3> QED BY <1>6, <2>3, <3>1, <3>2
  <2> QED BY <2>1, <2>4, <2>5
<1>10. (head \o body)[1] = tag
  BY <1>5, <1>6, <1>7, Cat
<1> QED BY <1>1, <1>8, <1>9, <1>10 DEF IsList

-----------------------------------------------------------------------------
(* Children, written one after the other and read so                       *)

\* How far from the first the following ones are.
Offsets(off, ss) ==
    /\ off \in [0..Len(ss) -> Nat] /\ off[0] = 0
    /\ \A i \in 1..Len(ss) : off[i] = off[i - 1] + Len(ss[i])

\* The recursive function in FlattenSeq() exists, and joins prefixes.
LEMMA FlattenPrefixes ==
    ASSUME NEW ss \in Seq(File), Len(ss) # 0
    PROVE  \E h \in [1..Len(ss) -> File] :
              /\ \A i \in 1..Len(ss) : h[i] = IF i = 1 THEN ss[i] ELSE h[i - 1] \o ss[i]
              /\ FlattenSeq(ss) = h[Len(ss)]
<1>1. PICK n \in Nat : n = Len(ss) /\ n # 0 /\ \A i \in 1..n : ss[i] \in File
  OBVIOUS
<1> DEFINE Joins(h, m) == \A i \in 1..m : h[i] = IF i = 1 THEN ss[i] ELSE h[i - 1] \o ss[i]
           S == {m \in 0..n : \E h \in [1..m -> File] : Joins(h, m)}
<1>2. 0 \in S
  <2>1. [i \in 1..0 |-> <<>>] \in [1..0 -> File]
    OBVIOUS
  <2>2. Joins([i \in 1..0 |-> <<>>], 0)
    OBVIOUS
  <2> HIDE DEF Joins
  <2>3. \E h \in [1..0 -> File] : Joins(h, 0)
    BY <2>1, <2>2
  <2>4. 0 \in 0..n
    BY <1>1
  <2> QED BY <2>3, <2>4
<1>3. ASSUME NEW m \in 1..n, m - 1 \in S PROVE m \in S
  <2>1. PICK h \in [1..m - 1 -> File] : Joins(h, m - 1)
    BY <1>3
  <2> DEFINE last == IF m = 1 THEN ss[m] ELSE h[m - 1] \o ss[m]
             g == [i \in 1..m |-> IF i = m THEN last ELSE h[i]]
  <2>2. last \in File
    <3>1. CASE m = 1
      BY <1>1, <3>1
    <3>2. CASE m # 1
      <4>1. h[m - 1] \in File /\ ss[m] \in File
        BY <1>1, <3>2
      <4> QED BY <3>2, <4>1, Cat
    <3> QED BY <3>1, <3>2
  <2>3. g[m] = last /\ \A i \in 1..m - 1 : g[i] = h[i]
    <3> HIDE DEF last
    <3> QED OBVIOUS
  <2>4. g \in [1..m -> File]
    <3> HIDE DEF last
    <3> QED BY <2>2
  <2> HIDE DEF g
  <2>5. ASSUME NEW i \in 1..m PROVE g[i] = IF i = 1 THEN ss[i] ELSE g[i - 1] \o ss[i]
    <3>1. CASE i = m
      <4>1. m # 1 => g[m - 1] = h[m - 1]
        BY <2>3
      <4> QED BY <2>3, <3>1, <4>1
    <3>2. CASE i # m
      <4>1. i \in 1..m - 1 /\ (i # 1 => i - 1 \in 1..m - 1)
        BY <3>2
      <4>2. h[i] = IF i = 1 THEN ss[i] ELSE h[i - 1] \o ss[i]
        BY <2>1, <4>1
      <4> QED BY <2>3, <4>1, <4>2
    <3> QED BY <3>1, <3>2
  <2>6. Joins(g, m)
    BY <2>5
  <2> HIDE DEF Joins
  <2>7. \E e \in [1..m -> File] : Joins(e, m)
    BY <2>4, <2>6
  <2> QED BY <2>7
<1>4. n \in S
  <2> HIDE DEF S
  <2>1. \A i \in 0..n : i \in S
    BY <1>2, <1>3, Induction
  <2>2. n \in 0..n
    BY <1>1
  <2> QED BY <2>1, <2>2
<1>5. PICK h0 \in [1..n -> File] : Joins(h0, n)
  BY <1>4
<1> DEFINE h == CHOOSE h : h = [i \in 1..n |-> IF i = 1 THEN ss[i] ELSE h[i - 1] \o ss[i]]
<1>6. h = [i \in 1..n |-> IF i = 1 THEN ss[i] ELSE h[i - 1] \o ss[i]]
  <2>1. h0 = [i \in 1..n |-> IF i = 1 THEN ss[i] ELSE h0[i - 1] \o ss[i]]
    BY <1>5
  <2> QED BY <2>1
<1>7. FlattenSeq(ss) = h[n]
  BY <1>1 DEF FlattenSeq
<1> HIDE DEF h
<1>8. Joins(h, n)
  BY <1>6
<1>9. \A i \in 0..n : i \in {j \in 0..n : j = 0 \/ h[j] \in File}
  <2> DEFINE Fs == {j \in 0..n : j = 0 \/ h[j] \in File}
  <2>1. 0 \in Fs
    BY <1>1
  <2>2. ASSUME NEW i \in 1..n, i - 1 \in Fs PROVE i \in Fs
    <3>1. h[i] = IF i = 1 THEN ss[i] ELSE h[i - 1] \o ss[i]
      BY <1>8
    <3>2. ss[i] \in File /\ (i # 1 => h[i - 1] \in File)
      BY <1>1, <2>2
    <3>3. h[i] \in File
      BY <3>1, <3>2, Cat
    <3> QED BY <3>3
  <2> HIDE DEF Fs
  <2>3. \A i \in 0..n : i \in Fs
    BY <2>1, <2>2, Induction
  <2> QED BY <2>3 DEF Fs
<1>10. h \in [1..n -> File]
  <2>1. \A i \in 1..n : h[i] \in File
    BY <1>9
  <2>2. h = [i \in 1..n |-> h[i]]
    BY <1>6
  <2> QED BY <2>1, <2>2
<1> QED BY <1>1, <1>7, <1>8, <1>10

\* Each child is at its offset.
LEMMA FlattenParts ==
    ASSUME NEW ss \in Seq(File)
    PROVE  /\ FlattenSeq(ss) \in File
           /\ \E off : /\ Offsets(off, ss)
                       /\ Len(FlattenSeq(ss)) = off[Len(ss)]
                       /\ \A f : \A p \in Nat : At(f, p, FlattenSeq(ss)) =>
                             \A i \in 1..Len(ss) : At(f, p + off[i - 1], ss[i])
<1>1. PICK n \in Nat : n = Len(ss) /\ \A i \in 1..n : ss[i] \in File /\ Len(ss[i]) \in Nat
  <2>1. Len(ss) \in Nat /\ \A i \in 1..Len(ss) : ss[i] \in File
    OBVIOUS
  <2>2. \A s \in File : Len(s) \in Nat
    BY DEF File
  <2> QED BY <2>1, <2>2
<1>2. CASE n = 0
  <2>1. FlattenSeq(ss) = <<>>
    BY <1>1, <1>2, EmptySeq DEF FlattenSeq
  <2> DEFINE off == [i \in 0..0 |-> 0]
  <2>2. Offsets(off, ss) /\ Len(<<>>) = off[Len(ss)] /\ <<>> \in File
    BY <1>1, <1>2 DEF Offsets, File
  <2> QED BY <1>1, <1>2, <2>1, <2>2
<1>3. CASE n # 0
  <2>1. PICK h \in [1..n -> File] :
              /\ \A i \in 1..n : h[i] = IF i = 1 THEN ss[i] ELSE h[i - 1] \o ss[i]
              /\ FlattenSeq(ss) = h[n]
    BY <1>1, <1>3, FlattenPrefixes
  <2> DEFINE off == [i \in 0..n |-> IF i = 0 THEN 0 ELSE Len(h[i])]
  <2>2. \A i \in 1..n : h[i] \in File /\ Len(h[i]) \in Nat
    BY <2>1 DEF File
  <2>3. off \in [0..n -> Nat] /\ off[0] = 0 /\ \A i \in 1..n : off[i] = Len(h[i])
    BY <2>2
  <2> HIDE DEF off
  <2>4. ASSUME NEW i \in 1..n
        PROVE  off[i] = off[i - 1] + Len(ss[i])
    <3>1. CASE i = 1
      <4>1. h[i] = ss[i]
        BY <2>1, <3>1
      <4> QED BY <1>1, <2>3, <3>1, <4>1
    <3>2. CASE i # 1
      <4>0. i - 1 \in 1..n
        BY <1>1, <3>2
      <4>1. i - 1 \in 1..n /\ h[i] = h[i - 1] \o ss[i]
        BY <2>1, <3>2, <4>0
      <4>2. Len(h[i]) = Len(h[i - 1]) + Len(ss[i])
        BY <1>1, <2>2, <4>1, Cat
      <4> QED BY <2>3, <4>1, <4>2
    <3> QED BY <3>1, <3>2
  <2>5. Offsets(off, ss)
    BY <1>1, <2>3, <2>4 DEF Offsets
  <2>6. ASSUME NEW f, NEW p \in Nat, At(f, p, h[n])
        PROVE  \A i \in 1..n : At(f, p + off[i - 1], ss[i])
    <3> DEFINE Back(i) == n - i
               S == {i \in 0..n : i = n \/ At(f, p, h[n - i])}
    <3>1. 0 \in S
      BY <2>6
    <3>2. ASSUME NEW i \in 1..n, i - 1 \in S PROVE i \in S
      <4>1. CASE i = n
        BY <4>1
      <4>2. CASE i # n
        <5> DEFINE j == n - (i - 1)
        <5>1. j \in 1..n /\ j # 1 /\ j - 1 = n - i /\ j - 1 \in 1..n
          BY <4>2
        <5>2. At(f, p, h[j])
          BY <3>2
        <5> HIDE DEF j
        <5>3. h[j] = h[j - 1] \o ss[j] /\ h[j - 1] \in File /\ ss[j] \in File
          BY <1>1, <2>1, <2>2, <5>1
        <5>4. At(f, p, h[j - 1])
          BY <5>2, <5>3, AtCat
        <5> QED BY <4>2, <5>1, <5>4
      <4> QED BY <4>1, <4>2
    <3>3. \A i \in 0..n : i \in S
      <4> HIDE DEF S
      <4> QED BY <3>1, <3>2, Induction
    <3>4. ASSUME NEW i \in 1..n PROVE At(f, p, h[i])
      <4>1. n - i \in 0..n /\ n - (n - i) = i /\ n - i # n
        BY <1>1
      <4> QED BY <3>3, <4>1
    <3>5. ASSUME NEW i \in 1..n PROVE At(f, p + off[i - 1], ss[i])
      <4>1. CASE i = 1
        <5>0. i - 1 = 0 /\ p + 0 = p
          BY <4>1
        <5>1. h[i] = ss[i] /\ off[i - 1] = 0 /\ p + 0 = p
          BY <2>1, <2>3, <4>1, <5>0
        <5> QED BY <3>4, <5>1
      <4>2. CASE i # 1
        <5>0. i - 1 \in 1..n
          BY <1>1, <4>2
        <5>1. i - 1 \in 1..n /\ h[i] = h[i - 1] \o ss[i] /\ off[i - 1] = Len(h[i - 1])
          BY <2>1, <2>3, <4>2, <5>0
        <5>2. h[i - 1] \in File /\ ss[i] \in File /\ At(f, p, h[i - 1] \o ss[i])
          BY <1>1, <2>2, <3>4, <5>1
        <5>3. At(f, p + Len(h[i - 1]), ss[i])
          BY <5>2, AtCat
        <5> QED BY <5>1, <5>3
      <4> QED BY <4>1, <4>2
    <3> QED BY <3>5
  <2>7. FlattenSeq(ss) \in File /\ Len(FlattenSeq(ss)) = off[n]
    BY <1>3, <2>1, <2>2, <2>3
  <2> QED BY <1>1, <2>1, <2>5, <2>6, <2>7
<1> QED BY <1>2, <1>3

\* What a reader yields that knows all the tags it meets.
Good(atom, pos) == Got(atom, pos, TRUE)

\* The values vs are what is read at the offsets from p, up to q.
ReadAlong(read, p, q, off, vs) ==
    /\ \E V : vs \in Seq(V)
    /\ q = p + off[Len(vs)]
    /\ off \in [0..Len(vs) -> Nat] /\ off[0] = 0
    /\ \A i \in 1..Len(vs) : read[p + off[i - 1]] = Good(vs[i], p + off[i])

\* Children that are read one after the other are all read.
LEMMA ChildrenRead ==
    ASSUME NEW f, NEW p \in Nat, NEW q, NEW read, NEW off, NEW vs,
           ReadAlong(read, p, q, off, vs), Len(vs) <= Len(f)
    PROVE  Children(read, f, p, Len(vs)) = Good(vs, q)
<1> PICK V : vs \in Seq(V)
  BY DEF ReadAlong
<1>0. PICK n \in Nat :
         /\ n = Len(vs) /\ n <= Len(f) /\ q = p + off[n] /\ off \in [0..n -> Nat] /\ off[0] = 0
         /\ \A i \in 1..n : read[p + off[i - 1]] = Good(vs[i], p + off[i])
  <2>1. Len(vs) \in Nat
    OBVIOUS
  <2> QED BY <2>1, Zenon DEF ReadAlong
<1> DEFINE Sofar(i) == [k \in 1..i |-> vs[k]]
           Step(before) == IF before.ok
                           THEN LET next == read[before.pos]
                                IN  Got(Append(before.atom, next.atom), next.pos, next.ok)
                           ELSE before
           Reads(g) == g = [i \in 0..n |-> IF i = 0 THEN Good(<<>>, p) ELSE Step(g[i - 1])]
           All == [i \in 0..n |-> Good(Sofar(i), p + off[i])]
<1>1. \A i \in 1..n : Step(Good(Sofar(i - 1), p + off[i - 1])) = Good(Sofar(i), p + off[i])
  <2> TAKE i \in 1..n
  <2>1. Append(Sofar(i - 1), vs[i]) = Sofar(i)
    <3>1. i - 1 \in Nat /\ \A k \in 1..i : vs[k] \in V
      BY <1>0
    <3>2. Sofar(i - 1) \in Seq(V) /\ Len(Sofar(i - 1)) = i - 1
      BY <3>1
    <3>3. Sofar(i) \in Seq(V) /\ Len(Sofar(i)) = i
      BY <3>1
    <3>4. Append(Sofar(i - 1), vs[i]) \in Seq(V) /\ Len(Append(Sofar(i - 1), vs[i])) = i
      BY <3>1, <3>2
    <3>5. \A k \in 1..i : Append(Sofar(i - 1), vs[i])[k] = Sofar(i)[k]
      <4> TAKE k \in 1..i
      <4>1. CASE k = i
        BY <3>1, <3>2, <4>1
      <4>2. CASE k # i
        <5>1. k \in 1..i - 1
          BY <4>2
        <5>2. Append(Sofar(i - 1), vs[i])[k] = Sofar(i - 1)[k]
          <6> HIDE DEF Sofar
          <6> QED BY <3>1, <3>2, <5>1
        <5> QED BY <5>1, <5>2
      <4> QED BY <4>1, <4>2
    <3> HIDE DEF Sofar
    <3> QED BY <3>3, <3>4, <3>5
  <2>2. read[p + off[i - 1]] = Good(vs[i], p + off[i])
    BY <1>0
  <2> DEFINE before == Good(Sofar(i - 1), p + off[i - 1])
             next == Good(vs[i], p + off[i])
  <2> HIDE DEF Sofar
  <2>3. /\ before.ok /\ before.pos = p + off[i - 1] /\ before.atom = Sofar(i - 1)
        /\ next.ok = TRUE /\ next.pos = p + off[i] /\ next.atom = vs[i]
    BY DEF Got, Good
  <2> HIDE DEF before
  <2>4. read[before.pos] = next
    BY <2>2, <2>3
  <2> HIDE DEF next
  <2>5. Step(before) = Got(Append(before.atom, next.atom), next.pos, next.ok)
    BY <2>3, <2>4
  <2>6. Step(before) = Good(Sofar(i), p + off[i])
    BY <2>1, <2>3, <2>5 DEF Good
  <2> QED BY <2>6 DEF before
<1>2. Sofar(0) = <<>>
  OBVIOUS
<1>3. Sofar(n) = vs
  BY <1>0
<1> HIDE DEF Sofar, Step
<1>4. All = [i \in 0..n |-> IF i = 0 THEN Good(<<>>, p) ELSE Step(All[i - 1])]
  <2>1. ASSUME NEW i \in 0..n
        PROVE  All[i] = IF i = 0 THEN Good(<<>>, p) ELSE Step(All[i - 1])
    <3>1. CASE i = 0
      <4>1. p + off[0] = p
        BY <1>0
      <4> QED BY <1>2, <3>1, <4>1
    <3>2. CASE i # 0
      <4>1. i \in 1..n /\ i - 1 \in 0..n
        BY <3>2
      <4> QED BY <1>1, <3>2, <4>1
    <3> QED BY <3>1, <3>2
  <2> QED BY <2>1
<1> HIDE DEF All
<1>5. Reads(All)
  BY <1>4
<1> DEFINE got == CHOOSE g : Reads(g)
<1>6. Reads(got)
  <2> HIDE DEF Reads
  <2> QED BY <1>5
<1>7. Children(read, f, p, n) = got[n]
  BY <1>0 DEF Children, Step, Good
<1> HIDE DEF got
<1>8. \A i \in 0..n : i \in {j \in 0..n : got[j] = All[j]}
  <2> DEFINE S == {j \in 0..n : got[j] = All[j]}
  <2>1. 0 \in S
    BY <1>4, <1>6
  <2>2. ASSUME NEW i \in 1..n, i - 1 \in S PROVE i \in S
    <3>1. i \in 0..n /\ i # 0
      OBVIOUS
    <3>2. got[i - 1] = All[i - 1]
      BY <2>2
    <3>3. got[i] = Step(got[i - 1]) /\ All[i] = Step(All[i - 1])
      BY <1>4, <1>6, <3>1
    <3> QED BY <3>1, <3>2, <3>3
  <2> HIDE DEF S
  <2>3. \A i \in 0..n : i \in S
    BY <2>1, <2>2, Induction
  <2> QED BY <2>3 DEF S
<1>9. got[n] = All[n]
  BY <1>8
<1> QED BY <1>0, <1>3, <1>7, <1>9 DEF All

\* Where each child is among all of them, and how many there can be.
LEMMA ChildrenFit ==
    ASSUME NEW ss \in Seq(File), \A i \in 1..Len(ss) : Len(ss[i]) >= 1,
           NEW off, Offsets(off, ss), Len(FlattenSeq(ss)) = off[Len(ss)],
           NEW f \in File, NEW p \in Nat, At(f, p, FlattenSeq(ss))
    PROVE  Len(ss) <= Len(f)
<1>1. PICK n \in Nat : n = Len(ss)
  OBVIOUS
<1>2. /\ off \in [0..n -> Nat] /\ off[0] = 0
      /\ \A i \in 1..n : off[i] = off[i - 1] + Len(ss[i]) /\ Len(ss[i]) \in Nat
  <2>1. \A i \in 1..n : ss[i] \in File
    BY <1>1
  <2>2. \A i \in 1..n : Len(ss[i]) \in Nat
    BY <2>1 DEF File
  <2> QED BY <1>1, <2>2 DEF Offsets
<1>3. off[n] >= n
  <2> DEFINE S == {i \in 0..n : off[i] >= i}
  <2>1. 0 \in S
    BY <1>2
  <2>2. ASSUME NEW i \in 1..n, i - 1 \in S PROVE i \in S
    <3>1. i - 1 \in 0..n /\ i \in 0..n
      OBVIOUS
    <3>2. off[i - 1] >= i - 1 /\ Len(ss[i]) >= 1 /\ off[i] = off[i - 1] + Len(ss[i])
          /\ off[i - 1] \in Nat /\ Len(ss[i]) \in Nat
      BY <1>1, <1>2, <2>2, <3>1
    <3>3. off[i] >= i
      BY <3>2
    <3> QED BY <3>1, <3>3
  <2> HIDE DEF S
  <2>3. \A i \in 0..n : i \in S
    BY <2>1, <2>2, Induction
  <2> QED BY <2>3 DEF S
<1>4. CASE n = 0
  <2>1. Len(f) \in Nat
    BY DEF File
  <2> QED BY <1>1, <1>4, <2>1
<1>5. CASE n # 0
  <2> DEFINE m == Len(FlattenSeq(ss))
  <2>1. m = off[n] /\ off[n] \in Nat
    BY <1>1, <1>2
  <2>2. \A k \in 1..m : p + k - 1 \in DOMAIN f
    BY DEF At
  <2>3. DOMAIN f = 1..Len(f) /\ Len(f) \in Nat
    BY DEF File
  <2> HIDE DEF m
  <2>4. 1 \in 1..m /\ m \in 1..m
    BY <1>3, <1>5, <2>1
  <2>5. p + 1 - 1 \in 1..Len(f) /\ p + m - 1 \in 1..Len(f)
    BY <2>2, <2>3, <2>4
  <2> QED BY <1>1, <1>3, <2>1, <2>3, <2>5
<1> QED BY <1>4, <1>5

\* Children written one after the other are read so, if each of them is read
\* where it is and the next one, or the end of all, is after it.
LEMMA EachRead ==
    ASSUME NEW V, NEW vs \in Seq(V), NEW ss \in Seq(File), Len(vs) = Len(ss),
           \A i \in 1..Len(ss) : Len(ss[i]) >= 1,
           NEW f \in File, NEW p \in Nat, At(f, p, FlattenSeq(ss)), NEW read,
           \A i \in 1..Len(ss), q \in Nat :
              /\ At(f, q, ss[i])
              /\ i # Len(ss) => At(f, q + Len(ss[i]), ss[i + 1])
              /\ i = Len(ss) => q + Len(ss[i]) = p + Len(FlattenSeq(ss))
              => read[q] = Good(vs[i], q + Len(ss[i]))
    PROVE  Children(read, f, p, Len(ss)) = Good(vs, p + Len(FlattenSeq(ss)))
<1>1. PICK n \in Nat : n = Len(ss) /\ \A i \in 1..n : ss[i] \in File
  OBVIOUS
<1>2. PICK off : /\ Offsets(off, ss)
                 /\ Len(FlattenSeq(ss)) = off[n]
                 /\ \A i \in 1..n : At(f, p + off[i - 1], ss[i])
  <2>1. \E off : /\ Offsets(off, ss)
                 /\ Len(FlattenSeq(ss)) = off[Len(ss)]
                 /\ \A g : \A q \in Nat : At(g, q, FlattenSeq(ss)) =>
                       \A i \in 1..Len(ss) : At(g, q + off[i - 1], ss[i])
    BY FlattenParts, Zenon
  <2> QED BY <1>1, <2>1
<1>3. n <= Len(f)
  BY <1>1, <1>2, ChildrenFit
<1>4. /\ off \in [0..n -> Nat] /\ off[0] = 0
      /\ \A i \in 1..n : off[i] = off[i - 1] + Len(ss[i])
  BY <1>1, <1>2 DEF Offsets
<1>5. ASSUME NEW i \in 1..n PROVE read[p + off[i - 1]] = Good(vs[i], p + off[i])
  <2>1. off[i - 1] \in Nat /\ off[i] \in Nat /\ Len(ss[i]) \in Nat
    <3>1. i - 1 \in 0..n /\ i \in 0..n
      OBVIOUS
    <3>2. Len(ss[i]) \in Nat
      BY <1>1 DEF File
    <3> QED BY <1>4, <3>1, <3>2
  <2> DEFINE q == p + off[i - 1]
  <2>2. q \in Nat /\ q + Len(ss[i]) = p + off[i]
    BY <1>4, <2>1
  <2>3. At(f, q, ss[i])
    BY <1>2
  <2>4. i # n => At(f, p + off[i], ss[i + 1])
    <3>1. i # n => i + 1 \in 1..n /\ i + 1 - 1 = i
      OBVIOUS
    <3> QED BY <1>2, <3>1
  <2> HIDE DEF q
  <2>5. read[q] = Good(vs[i], q + Len(ss[i]))
    BY <1>1, <1>2, <2>2, <2>3, <2>4
  <2> QED BY <2>2, <2>5 DEF q
<1> DEFINE q == p + Len(FlattenSeq(ss))
<1>6. ReadAlong(read, p, q, off, vs) /\ Len(vs) <= Len(f)
  <2>1. \E U : vs \in Seq(U)
    OBVIOUS
  <2> QED BY <1>1, <1>2, <1>3, <1>4, <1>5, <2>1 DEF ReadAlong
<1> HIDE DEF q
<1>7. Children(read, f, p, Len(vs)) = Good(vs, q)
  BY <1>6, ChildrenRead
<1> QED BY <1>7 DEF q

-----------------------------------------------------------------------------
(* The atoms, from the leaves up                                           *)

\* The cells s are those of an atom of this tag, and are read back as it.
Back(read(_, _), tag, s, atom) ==
    /\ s \in File /\ Len(s) \in Nat /\ Len(s) >= 1 /\ s[1] = tag
    /\ \A f \in File : \A p \in Nat : At(f, p, s) => read(f, p) = Good(atom, p + Len(s))

\* An mhod (ipod_atom_mhod.c).
LEMMA MhodBack ==
    ASSUME NEW a \in Mhods
    PROVE  Back(read_mhod, MHOD, write_mhod(a), copy_mhod(a))
<1> DEFINE data == IF Kind(a.type) = "string" THEN <<Len(a.cells)>> \o a.cells
                   ELSE IF Kind(a.type) = "index" THEN <<a.sort, Len(a.cells)>> \o a.cells
                   ELSE IF Kind(a.type) = "rest" THEN a.cells ELSE <<>>
           fields == <<a.type>>
           s == Atom(MHOD, 4, fields, data)
<1>1. a = [type |-> a.type, sort |-> a.sort, cells |-> a.cells]
      /\ a.type \in Int /\ a.sort \in Int /\ a.cells \in File /\ Len(a.cells) \in Nat
  BY DEF Mhods, File
<1>2. write_mhod(a) = s
  BY DEF write_mhod
<1>3. /\ <<>> \in File /\ <<Len(a.cells)>> \in File /\ <<a.sort, Len(a.cells)>> \in File
      /\ fields \in File /\ Len(fields) = 1 /\ fields[1] = a.type /\ MHOD \in Int
      /\ Len(<<Len(a.cells)>>) = 1 /\ Len(<<a.sort, Len(a.cells)>>) = 2
  BY <1>1 DEF File, MHOD
<1>4. data \in File /\ Len(data) \in Nat
  <2>1. <<Len(a.cells)>> \o a.cells \in File /\ <<a.sort, Len(a.cells)>> \o a.cells \in File
    BY <1>1, <1>3, Cat
  <2>2. data \in File
    BY <1>1, <1>3, <2>1
  <2> HIDE DEF data
  <2> QED BY <2>2 DEF File
<1> HIDE DEF fields
<1>5. /\ s \in File /\ Len(s) = 4 + Len(data) /\ s[1] = MHOD
      /\ \A f : \A p \in Nat : At(f, p, s) =>
            /\ Cell(f, p) = MHOD /\ Cell(f, p + 2) = 4 + Len(data)
            /\ \A k \in 1..1 : Cell(f, p + 2 + k) = fields[k]
            /\ At(f, p + 4, data)
  <2> HIDE DEF data, s
  <2>1. 3 + Len(fields) <= 4 /\ 4 \in Nat
    BY <1>3
  <2>2. IsAtom(s, MHOD, 4, fields, data)
    BY <1>3, <1>4, <2>1, AtomParts DEF s
  <2> QED BY <1>3, <2>2 DEF IsAtom
<1> HIDE DEF s
<1>6. ASSUME NEW f \in File, NEW p \in Nat, At(f, p, s)
      PROVE  read_mhod(f, p) = Good(copy_mhod(a), p + Len(s))
  <2>1. Cell(f, p) = MHOD /\ Cell(f, p + 3) = a.type /\ AtomEnd(f, p) = p + Len(s)
        /\ At(f, p + 4, data)
    <3> HIDE DEF data
    <3>1. Cell(f, p + 2 + 1) = fields[1] /\ p + 2 + 1 = p + 3
      BY <1>5, <1>6
    <3> QED BY <1>3, <1>4, <1>5, <1>6, <3>1 DEF AtomEnd
  <2>2. CASE Kind(a.type) = "string"
    <3>1. At(f, p + 4, <<Len(a.cells)>>) /\ At(f, p + 4 + 1, a.cells)
      <4> DEFINE first == <<Len(a.cells)>>
      <4>1. At(f, p + 4, first \o a.cells) /\ first \in File /\ Len(first) = 1
        BY <1>3, <2>1, <2>2
      <4> HIDE DEF first
      <4>2. a.cells \in File /\ p + 4 \in Nat
        BY <1>1
      <4>3. At(f, p + 4, first) /\ At(f, p + 4 + Len(first), a.cells)
        BY <4>1, <4>2, AtCat, Zenon
      <4> QED BY <4>1, <4>3 DEF first
    <3>2. Cell(f, p + 4) = Len(a.cells)
      <4>1. p + 4 \in Nat
        OBVIOUS
      <4> QED BY <3>1, <4>1, AtShort, Zenon
    <3>3. Cells(f, p + 5, Len(a.cells)) = a.cells
      <4>1. p + 4 + 1 = p + 5
        OBVIOUS
      <4> QED BY <1>1, <3>1, <4>1, AtCells
    <3>4. a.sort = 0 /\ a.type # 0
      BY <2>2 DEF Mhods, Kind
    <3> QED BY <1>1, <2>1, <2>2, <3>2, <3>3, <3>4 DEF read_mhod, copy_mhod, Good, Got
  <2>3. CASE Kind(a.type) = "index"
    <3>1. At(f, p + 4, <<a.sort, Len(a.cells)>>) /\ At(f, p + 4 + 2, a.cells)
      <4> DEFINE first == <<a.sort, Len(a.cells)>>
      <4>1. At(f, p + 4, first \o a.cells) /\ first \in File /\ Len(first) = 2
        BY <1>3, <2>1, <2>3
      <4> HIDE DEF first
      <4>2. a.cells \in File /\ p + 4 \in Nat
        BY <1>1
      <4>3. At(f, p + 4, first) /\ At(f, p + 4 + Len(first), a.cells)
        BY <4>1, <4>2, AtCat, Zenon
      <4> QED BY <4>1, <4>3 DEF first
    <3>2. Cell(f, p + 4) = a.sort /\ Cell(f, p + 5) = Len(a.cells)
      <4>1. p + 4 \in Nat /\ p + 4 + 1 = p + 5
        OBVIOUS
      <4>2. Cell(f, p + 4) = a.sort /\ Cell(f, p + 4 + 1) = Len(a.cells)
        BY <3>1, <4>1, AtShort, Zenon
      <4> QED BY <4>1, <4>2
    <3>3. Cells(f, p + 6, Len(a.cells)) = a.cells
      <4>1. p + 4 + 2 = p + 6
        OBVIOUS
      <4> QED BY <1>1, <3>1, <4>1, AtCells
    <3>4. a.type # 0
      BY <2>3 DEF Kind
    <3> QED BY <1>1, <2>1, <2>3, <3>2, <3>3, <3>4 DEF read_mhod, copy_mhod, Good, Got
  <2>4. CASE Kind(a.type) = "rest"
    <3>1. At(f, p + 4, a.cells) /\ RestLength(f, p) = Len(a.cells)
      BY <1>1, <1>5, <2>1, <2>4 DEF RestLength
    <3>2. Cells(f, p + 4, RestLength(f, p)) = a.cells
      BY <1>1, <3>1, AtCells
    <3>3. a.sort = 0 /\ a.type # 0
      BY <2>4 DEF Mhods, Kind
    <3> QED BY <1>1, <2>1, <2>4, <3>2, <3>3 DEF read_mhod, copy_mhod, Good, Got
  <2>5. CASE Kind(a.type) = "none"
    <3>1. a.cells = <<>> /\ a.type = 0
      BY <2>5 DEF Mhods, Kind
    <3>2. copy_mhod(a) = [type |-> a.type, sort |-> 0, cells |-> a.cells]
      BY <1>1, <3>1 DEF copy_mhod
    <3> QED BY <1>1, <2>1, <2>5, <3>1, <3>2 DEF read_mhod, Good, Got
  <2> QED BY <2>2, <2>3, <2>4, <2>5 DEF Kind
<1>7. Back(read_mhod, MHOD, s, copy_mhod(a))
  BY <1>4, <1>5, <1>6 DEF Back
<1> QED BY <1>2, <1>7

\* The same, of an atom that no mhod follows.
BackBefore(read(_, _), tag, s, atom) ==
    /\ s \in File /\ Len(s) \in Nat /\ Len(s) >= 1 /\ s[1] = tag
    /\ \A f \in File : \A p \in Nat :
          At(f, p, s) /\ Cell(f, p + Len(s)) # MHOD => read(f, p) = Good(atom, p + Len(s))

\* The cells of an item of a playlist, whose position is i.
ItemCells(a, v, i) == write_mhip(a, v) \o (IF v < VERSION4_9 THEN write_fake_mhod(i) ELSE <<>>)

\* The mhod that holds a position is one.
LEMMA FakeMhod ==
    ASSUME NEW i \in Int
    PROVE  /\ write_fake_mhod(i) \in File /\ Len(write_fake_mhod(i)) = 5
           /\ \A f : \A p \in Nat : At(f, p, write_fake_mhod(i)) =>
                 Cell(f, p) = MHOD /\ read_mhod(f, p).pos = p + 5
<1> DEFINE s == write_fake_mhod(i)
<1>1. s \in File /\ Len(s) = 5 /\ s[1] = MHOD /\ s[3] = 5
  BY DEF File, write_fake_mhod, MHOD, PLAYLIST_SETTINGS
<1> HIDE DEF s
<1>2. ASSUME NEW f, NEW p \in Nat, At(f, p, s)
      PROVE  Cell(f, p) = MHOD /\ read_mhod(f, p).pos = p + 5
  <2>1. Cell(f, p + 1 - 1) = s[1] /\ Cell(f, p + 3 - 1) = s[3]
    <3>1. 1 \in 1..Len(s) /\ 3 \in 1..Len(s)
      BY <1>1
    <3> QED BY <1>2, <3>1 DEF At, Cell
  <2>2. p + 1 - 1 = p /\ p + 3 - 1 = p + 2
    OBVIOUS
  <2>3. Cell(f, p) = MHOD /\ Cell(f, p + 2) = 5
    BY <1>1, <2>1, <2>2
  <2> QED BY <2>3 DEF read_mhod, Got, AtomEnd
<1> QED BY <1>1, <1>2 DEF s

\* An item of a playlist, with its position (ipod_atom_mhip.c, and the reading
\* and writing of them in ipod_atom_mhyp.c).
LEMMA ItemBack ==
    ASSUME NEW a \in Mhips, NEW v \in Int, NEW i \in Int
    PROVE  BackBefore(read_item, MHIP, ItemCells(a, v, i), a)
<1> DEFINE size == 6 + HeaderPad
           fields == <<a.childCount, a.groupID, a.trackID>>
           body == IF v >= VERSION4_9 THEN write_fake_mhod(a.groupID) ELSE <<>>
           mhip == write_mhip(a, v)
           after == IF v < VERSION4_9 THEN write_fake_mhod(i) ELSE <<>>
           s == mhip \o after
<1>1. /\ a = [childCount |-> a.childCount, groupID |-> a.groupID, trackID |-> a.trackID]
      /\ a.groupID \in Int /\ fields \in File /\ Len(fields) = 3
      /\ fields[1] = a.childCount /\ fields[2] = a.groupID /\ fields[3] = a.trackID
  BY DEF Mhips, File
<1>2. <<>> \in File /\ Len(<<>>) = 0
  BY DEF File
<1>3. body \in File /\ Len(body) \in Nat /\ after \in File /\ Len(after) \in Nat
  BY <1>1, <1>2, FakeMhod
<1>4. size \in Nat /\ 3 + Len(fields) <= size /\ MHIP \in Int
  BY <1>1, PadAssumption DEF MHIP
<1>5. mhip = Atom(MHIP, size, fields, body)
  BY DEF write_mhip
<1>6. IsAtom(mhip, MHIP, size, fields, body)
  <2> HIDE DEF size, fields, body, mhip
  <2> QED BY <1>1, <1>3, <1>4, <1>5, AtomParts
<1>7. Len(mhip) = size + Len(body) /\ mhip \in File /\ mhip[1] = MHIP /\ Len(mhip) >= 1
      /\ Len(mhip) \in Nat
  <2> HIDE DEF size, fields, body, mhip
  <2>1. Len(mhip) = size + Len(body) /\ mhip \in File /\ mhip[1] = MHIP
    BY <1>6 DEF IsAtom
  <2>2. Len(fields) = 3
    BY <1>1
  <2> QED BY <1>3, <1>4, <2>1, <2>2
<1>8. /\ s \in File /\ Len(s) = Len(mhip) + Len(after) /\ Len(s) \in Nat /\ Len(s) >= 1
      /\ s[1] = MHIP
  <2> HIDE DEF mhip, after
  <2>1. s \in File /\ Len(s) = Len(mhip) + Len(after) /\ \A k \in 1..Len(mhip) : s[k] = mhip[k]
    BY <1>3, <1>7, Cat
  <2> HIDE DEF s
  <2> QED BY <1>3, <1>7, <2>1
<1>9. ASSUME NEW f \in File, NEW p \in Nat, At(f, p, s), Cell(f, p + Len(s)) # MHOD
      PROVE  read_item(f, p) = Good(a, p + Len(s))
  <2> DEFINE q == p + Len(mhip)
             item == read_mhip(f, p)
  <2>1. At(f, p, mhip) /\ At(f, q, after)
    <3> HIDE DEF mhip, after
    <3> QED BY <1>3, <1>7, <1>9, AtCat
  <2>2. item = Good(a, q)
    <3> HIDE DEF size, fields, body, mhip
    <3>1. /\ Cell(f, p) = MHIP /\ Cell(f, p + 2) = size + Len(body)
          /\ \A k \in 1..3 : Cell(f, p + 2 + k) = fields[k]
      BY <1>1, <1>6, <2>1 DEF IsAtom
    <3>2. /\ Cell(f, p + 2 + 1) = fields[1] /\ Cell(f, p + 2 + 2) = fields[2]
          /\ Cell(f, p + 2 + 3) = fields[3]
          /\ p + 2 + 1 = p + 3 /\ p + 2 + 2 = p + 4 /\ p + 2 + 3 = p + 5
      BY <3>1
    <3>3. /\ Cell(f, p + 3) = a.childCount /\ Cell(f, p + 4) = a.groupID
          /\ Cell(f, p + 5) = a.trackID /\ AtomEnd(f, p) = q
      BY <1>1, <1>7, <3>1, <3>2 DEF AtomEnd
    <3> HIDE DEF q
    <3> QED BY <1>1, <3>1, <3>3 DEF read_mhip, Good, Got
  <2>3. q \in Nat
    BY <1>7
  <2> HIDE DEF item, mhip, q, s
  <2>4. item.pos = q /\ [item EXCEPT !.pos = q + 5] = Good(a, q + 5)
    <3>1. item.pos = q
      BY <2>2 DEF Good, Got
    <3>2. \A ok, r : [[atom |-> a, pos |-> q, ok |-> ok] EXCEPT !.pos = r]
                     = [atom |-> a, pos |-> r, ok |-> ok]
      OBVIOUS
    <3>3. [Good(a, q) EXCEPT !.pos = q + 5] = Good(a, q + 5)
      BY <3>2, Zenon DEF Good, Got
    <3> QED BY <2>2, <3>1, <3>3
  <2>5. CASE v < VERSION4_9
    <3>1. Cell(f, q) = MHOD /\ read_mhod(f, q).pos = q + 5 /\ Len(after) = 5
      BY <2>1, <2>3, <2>5, FakeMhod
    <3>2. q + 5 = p + Len(s)
      <4> HIDE DEF size, body, after
      <4> QED BY <1>7, <1>8, <3>1 DEF q
    <3>3. read_item(f, p) = [item EXCEPT !.pos = read_mhod(f, item.pos).pos]
      BY <2>4, <3>1 DEF read_item, item
    <3> QED BY <2>4, <3>1, <3>2, <3>3
  <2>6. CASE ~(v < VERSION4_9)
    <3>1. Len(after) = 0
      BY <1>2, <2>6
    <3>2. q = p + Len(s)
      BY <1>7, <1>8, <3>1 DEF q
    <3>3. read_item(f, p) = item
      BY <1>9, <2>4, <3>2 DEF read_item, item
    <3> QED BY <2>2, <3>2, <3>3
  <2> QED BY <2>5, <2>6
<1>10. ItemCells(a, v, i) = s
  BY DEF ItemCells
<1> HIDE DEF s
<1>11. BackBefore(read_item, MHIP, s, a)
  BY <1>8, <1>9 DEF BackBefore
<1> QED BY <1>10, <1>11

\* The pieces ss each begin with the tag.
Pieces(ss, tag) ==
    ss \in Seq(File) /\ \A i \in 1..Len(ss) : Len(ss[i]) >= 1 /\ ss[i][1] = tag

\* Where one of the pieces is, and no mhod after it, its value is read.
Readable(f, read, ss, vs) ==
    /\ Len(vs) = Len(ss) /\ \E V : vs \in Seq(V)
    /\ \A i \in 1..Len(ss), q \in Nat :
          At(f, q, ss[i]) /\ Cell(f, q + Len(ss[i])) # MHOD
             => read[q] = Good(vs[i], q + Len(ss[i]))

\* Children none of which is an mhod are read where they were written.
LEMMA PiecesRead ==
    ASSUME NEW f \in File, NEW p \in Nat, NEW read, NEW ss, NEW vs, NEW tag,
           Pieces(ss, tag), tag # MHOD, Readable(f, read, ss, vs),
           At(f, p, FlattenSeq(ss)), Cell(f, p + Len(FlattenSeq(ss))) # MHOD
    PROVE  Children(read, f, p, Len(ss)) = Good(vs, p + Len(FlattenSeq(ss)))
<1>1. PICK V : vs \in Seq(V)
  BY DEF Readable
<1>2. /\ ss \in Seq(File) /\ Len(vs) = Len(ss)
      /\ \A i \in 1..Len(ss) : Len(ss[i]) >= 1 /\ ss[i][1] = tag
  BY DEF Readable, Pieces
<1>3. ASSUME NEW i \in 1..Len(ss), NEW q \in Nat,
             /\ At(f, q, ss[i])
             /\ i # Len(ss) => At(f, q + Len(ss[i]), ss[i + 1])
             /\ i = Len(ss) => q + Len(ss[i]) = p + Len(FlattenSeq(ss))
      PROVE  read[q] = Good(vs[i], q + Len(ss[i]))
  <2>1. Cell(f, q + Len(ss[i])) # MHOD
    <3>1. CASE i = Len(ss)
      BY <1>3, <3>1
    <3>2. CASE i # Len(ss)
      <4>1. i + 1 \in 1..Len(ss) /\ Len(ss[i]) \in Nat
        <5>1. Len(ss) \in Nat /\ ss[i] \in File
          BY <1>2
        <5>2. Len(ss[i]) \in Nat
          BY <5>1 DEF File
        <5> QED BY <3>2, <5>1, <5>2
      <4> DEFINE t == ss[i + 1]
      <4>2. Len(t) >= 1 /\ t[1] = tag /\ At(f, q + Len(ss[i]), t) /\ t \in File
        BY <1>2, <1>3, <3>2, <4>1
      <4> HIDE DEF t
      <4>3. 1 \in 1..Len(t) /\ q + Len(ss[i]) + 1 - 1 = q + Len(ss[i])
        BY <4>1, <4>2 DEF File
      <4>4. Cell(f, q + Len(ss[i])) = tag
        BY <4>2, <4>3 DEF At, Cell
      <4> QED BY <4>4
    <3> QED BY <3>1, <3>2
  <2> QED BY <1>3, <2>1 DEF Readable
<1>4. \A i \in 1..Len(ss) : Len(ss[i]) >= 1
  BY <1>2
<1> QED BY <1>1, <1>2, <1>3, <1>4, EachRead

Copies(ms) == [i \in DOMAIN ms |-> copy_mhod(ms[i])]

\* The mhods of a track or playlist.
LEMMA MhodsBack ==
    ASSUME NEW ms \in Seq(Mhods)
    PROVE  /\ Each(write_mhod, ms) \in File
           /\ \A f \in File : \A p \in Nat : At(f, p, Each(write_mhod, ms)) =>
                 Children([q \in Nat |-> read_mhod(f, q)], f, p, Len(ms))
                    = Good(Copies(ms), p + Len(Each(write_mhod, ms)))
<1> DEFINE ss == [i \in DOMAIN ms |-> write_mhod(ms[i])]
           vs == Copies(ms)
<1>1. Each(write_mhod, ms) = FlattenSeq(ss)
  BY DEF Each
<1>2. \A i \in 1..Len(ms) : Back(read_mhod, MHOD, write_mhod(ms[i]), copy_mhod(ms[i]))
  BY MhodBack
<1>3. \A i \in 1..Len(ms) : ss[i] \in File /\ Len(ss[i]) >= 1
  BY <1>2 DEF Back
<1>4. ss \in Seq(File) /\ Len(ss) = Len(ms)
  <2>1. ss = [i \in 1..Len(ms) |-> ss[i]] /\ Len(ms) \in Nat
    OBVIOUS
  <2> HIDE DEF ss
  <2> QED BY <1>3, <2>1
<1> DEFINE V == {copy_mhod(a) : a \in Mhods}
<1>5. vs \in Seq(V) /\ Len(vs) = Len(ss)
  <2>1. vs = [i \in 1..Len(ms) |-> vs[i]] /\ Len(ms) \in Nat
    BY DEF Copies
  <2>2. \A i \in 1..Len(ms) : vs[i] \in V
    BY DEF Copies
  <2> HIDE DEF vs, ss, V
  <2> QED BY <1>4, <2>1, <2>2
<1>6. ASSUME NEW f \in File, NEW p \in Nat, At(f, p, FlattenSeq(ss))
      PROVE  Children([q \in Nat |-> read_mhod(f, q)], f, p, Len(ms))
                = Good(vs, p + Len(FlattenSeq(ss)))
  <2> DEFINE read == [q \in Nat |-> read_mhod(f, q)]
  <2>1. ASSUME NEW i \in 1..Len(ss), NEW q \in Nat, At(f, q, ss[i])
        PROVE  read[q] = Good(vs[i], q + Len(ss[i]))
    <3>1. i \in DOMAIN ms /\ i \in 1..Len(ms)
      BY <1>4
    <3>2. Back(read_mhod, MHOD, ss[i], vs[i])
      BY <1>2, <3>1 DEF Copies
    <3> HIDE DEF ss, vs
    <3>3. read_mhod(f, q) = Good(vs[i], q + Len(ss[i]))
      BY <2>1, <3>2 DEF Back
    <3> QED BY <3>3
  <2> HIDE DEF read, ss, vs, V
  <2>2. \A i \in 1..Len(ss) : Len(ss[i]) >= 1
    BY <1>3, <1>4
  <2>3. Children(read, f, p, Len(ss)) = Good(vs, p + Len(FlattenSeq(ss)))
    BY <1>4, <1>5, <1>6, <2>1, <2>2, EachRead
  <2> QED BY <1>4, <2>3 DEF read
<1>7. FlattenSeq(ss) \in File
  <2> HIDE DEF ss
  <2> QED BY <1>4, FlattenParts
<1> HIDE DEF ss
<1> QED BY <1>1, <1>6, <1>7

\* The items of a playlist.
LEMMA ItemsBack ==
    ASSUME NEW mhips \in Seq(Mhips), NEW v \in Int
    PROVE  LET ss == [i \in DOMAIN mhips |-> ItemCells(mhips[i], v, i - 1)]
           IN  /\ FlattenSeq(ss) \in File
               /\ \A f \in File : \A p \in Nat :
                     At(f, p, FlattenSeq(ss)) /\ Cell(f, p + Len(FlattenSeq(ss))) # MHOD =>
                        Children([q \in Nat |-> read_item(f, q)], f, p, Len(mhips))
                           = Good(mhips, p + Len(FlattenSeq(ss)))
<1> DEFINE ss == [i \in DOMAIN mhips |-> ItemCells(mhips[i], v, i - 1)]
<1>1. Len(mhips) \in Nat /\ DOMAIN mhips = 1..Len(mhips)
  OBVIOUS
<1>2. \A i \in 1..Len(mhips) : BackBefore(read_item, MHIP, ss[i], mhips[i])
  <2> TAKE i \in 1..Len(mhips)
  <2>1. mhips[i] \in Mhips /\ i - 1 \in Int /\ ss[i] = ItemCells(mhips[i], v, i - 1)
    OBVIOUS
  <2> HIDE DEF ss
  <2> QED BY <2>1, ItemBack
<1>3. ss = [i \in 1..Len(mhips) |-> ss[i]]
  BY <1>1
<1> HIDE DEF ss
<1>4. ss \in Seq(File) /\ Len(ss) = Len(mhips)
  <2>1. \A i \in 1..Len(mhips) : ss[i] \in File
    BY <1>2 DEF BackBefore
  <2> QED BY <1>1, <1>3, <2>1
<1>5. Pieces(ss, MHIP)
  BY <1>2, <1>4 DEF BackBefore, Pieces
<1>6. ASSUME NEW f \in File, NEW p \in Nat, At(f, p, FlattenSeq(ss)),
             Cell(f, p + Len(FlattenSeq(ss))) # MHOD
      PROVE  Children([q \in Nat |-> read_item(f, q)], f, p, Len(mhips))
                = Good(mhips, p + Len(FlattenSeq(ss)))
  <2> DEFINE read == [q \in Nat |-> read_item(f, q)]
  <2>1. ASSUME NEW i \in 1..Len(ss), NEW q \in Nat,
               At(f, q, ss[i]), Cell(f, q + Len(ss[i])) # MHOD
        PROVE  read[q] = Good(mhips[i], q + Len(ss[i]))
    <3>1. read_item(f, q) = Good(mhips[i], q + Len(ss[i]))
      BY <1>2, <1>4, <2>1 DEF BackBefore
    <3> QED BY <3>1
  <2> HIDE DEF read
  <2>2. \E V : mhips \in Seq(V)
    OBVIOUS
  <2>3. Readable(f, read, ss, mhips)
    BY <1>4, <2>1, <2>2 DEF Readable
  <2>4. MHIP # MHOD
    BY DEF MHIP, MHOD
  <2>5. Children(read, f, p, Len(ss)) = Good(mhips, p + Len(FlattenSeq(ss)))
    BY <1>5, <1>6, <2>3, <2>4, PiecesRead
  <2> QED BY <1>4, <2>5 DEF read
<1>7. FlattenSeq(ss) \in File
  BY <1>4, FlattenParts
<1> QED BY <1>6, <1>7 DEF ss

\* What there is to read of a track that was written.
ReadTrack(a, v) ==
    [trackID |-> a.trackID, rating |-> a.rating, playCount |-> a.playCount,
     playCount2 |-> a.playCount2, addedTime |-> a.addedTime, dbid |-> a.dbid,
     dbid2 |-> IF v >= VERSION4_8 THEN a.dbid2 ELSE 0,
     sampleCount |-> IF v >= VERSION4_8 THEN a.sampleCount ELSE 0, mhods |-> Copies(a.mhods)]

\* A track is read by the version it was written by (ipod_atom_mhit.c).
LEMMA MhitBack ==
    ASSUME NEW a \in Mhits, NEW v \in Int
    PROVE  /\ write_mhit(a, v) \in File /\ Len(write_mhit(a, v)) \in Nat
           /\ Len(write_mhit(a, v)) >= 1 /\ write_mhit(a, v)[1] = MHIT
           /\ \A f \in File : \A p \in Nat : At(f, p, write_mhit(a, v)) =>
                 read_mhit(f, p, v) = Good(ReadTrack(a, v), p + Len(write_mhit(a, v)))
<1> DEFINE early == <<Len(a.mhods), a.trackID, a.rating, a.playCount, a.playCount2,
                      a.addedTime, a.dbid>>
           late == IF v >= VERSION4_8 THEN <<a.dbid2, a.sampleCount>> ELSE <<>>
           size == (IF v >= VERSION4_8 THEN 12 ELSE 10) + HeaderPad
           fields == early \o late
           body == Each(write_mhod, a.mhods)
           s == write_mhit(a, v)
<1>1. /\ a.trackID \in Int /\ a.rating \in Int /\ a.playCount \in Int /\ a.playCount2 \in Int
      /\ a.addedTime \in Int /\ a.dbid \in Int /\ a.dbid2 \in Int /\ a.sampleCount \in Int
      /\ a.mhods \in Seq(Mhods) /\ Len(a.mhods) \in Nat
  <2>1. a.mhods \in Seq(Mhods)
    BY DEF Mhits
  <2> QED BY <2>1 DEF Mhits
<1>2. /\ early \in File /\ Len(early) = 7
      /\ early[1] = Len(a.mhods) /\ early[2] = a.trackID /\ early[3] = a.rating
      /\ early[4] = a.playCount /\ early[5] = a.playCount2 /\ early[6] = a.addedTime
      /\ early[7] = a.dbid
  BY <1>1 DEF File
<1>3. /\ late \in File
      /\ v >= VERSION4_8 => Len(late) = 2 /\ late[1] = a.dbid2 /\ late[2] = a.sampleCount
      /\ ~(v >= VERSION4_8) => Len(late) = 0
  BY <1>1 DEF File
<1> HIDE DEF early, late
<1>4. /\ fields \in File /\ Len(fields) = 7 + Len(late)
      /\ \A k \in 1..7 : fields[k] = early[k]
      /\ \A k \in 1..Len(late) : fields[7 + k] = late[k]
  <2>1. /\ fields \in File /\ Len(fields) = Len(early) + Len(late)
        /\ \A k \in 1..Len(early) : fields[k] = early[k]
        /\ \A k \in 1..Len(late) : fields[Len(early) + k] = late[k]
    BY <1>2, <1>3, Cat
  <2> HIDE DEF fields
  <2> QED BY <1>2, <2>1
<1>5. body \in File /\ Len(body) \in Nat
  <2>1. body \in File
    BY <1>1, MhodsBack
  <2> HIDE DEF body
  <2> QED BY <2>1 DEF File
<1> HIDE DEF fields, body
<1>6. size \in Nat /\ 3 + Len(fields) <= size /\ MHIT \in Int /\ size >= 10
  <2>1. CASE v >= VERSION4_8
    <3>1. Len(fields) = 9 /\ size = 12 + HeaderPad
      <4>1. Len(late) = 2
        BY <1>3, <2>1
      <4>2. Len(fields) = 9
        BY <1>4, <4>1
      <4>3. size = 12 + HeaderPad
        BY <2>1
      <4> QED BY <4>2, <4>3
    <3> HIDE DEF size
    <3> QED BY <3>1, PadAssumption DEF MHIT
  <2>2. CASE ~(v >= VERSION4_8)
    <3>1. Len(fields) = 7 /\ size = 10 + HeaderPad
      BY <1>3, <1>4, <2>2
    <3> HIDE DEF size
    <3> QED BY <3>1, PadAssumption DEF MHIT
  <2> QED BY <2>1, <2>2
<1> HIDE DEF size
<1>7. IsAtom(s, MHIT, size, fields, body)
  <2>1. s = Atom(MHIT, size, fields, body)
    BY DEF write_mhit, size, fields, early, late, body
  <2> HIDE DEF s
  <2> QED BY <1>4, <1>5, <1>6, <2>1, AtomParts
<1> HIDE DEF s
<1>8. s \in File /\ Len(s) = size + Len(body) /\ Len(s) \in Nat /\ Len(s) >= 1 /\ s[1] = MHIT
  BY <1>5, <1>6, <1>7 DEF IsAtom
<1>9. ASSUME NEW f \in File, NEW p \in Nat, At(f, p, s)
      PROVE  read_mhit(f, p, v) = Good(ReadTrack(a, v), p + Len(s))
  <2>1. /\ Cell(f, p) = MHIT /\ Cell(f, p + 1) = size /\ Cell(f, p + 2) = Len(s)
        /\ \A k \in 1..Len(fields) : Cell(f, p + 2 + k) = fields[k]
        /\ At(f, p + size, body)
    BY <1>7, <1>8, <1>9 DEF IsAtom
  <2>2. \A k \in 1..7 : Cell(f, p + (2 + k)) = early[k]
    <3> TAKE k \in 1..7
    <3>1. k \in 1..Len(fields) /\ p + 2 + k = p + (2 + k)
      BY <1>3, <1>4
    <3> QED BY <1>4, <2>1, <3>1
  <2>3. /\ Cell(f, p + 3) = Len(a.mhods) /\ Cell(f, p + 4) = a.trackID
        /\ Cell(f, p + 5) = a.rating /\ Cell(f, p + 6) = a.playCount
        /\ Cell(f, p + 7) = a.playCount2 /\ Cell(f, p + 8) = a.addedTime
        /\ Cell(f, p + 9) = a.dbid
    <3>1. /\ Cell(f, p + (2 + 1)) = early[1] /\ Cell(f, p + (2 + 2)) = early[2]
          /\ Cell(f, p + (2 + 3)) = early[3] /\ Cell(f, p + (2 + 4)) = early[4]
          /\ Cell(f, p + (2 + 5)) = early[5] /\ Cell(f, p + (2 + 6)) = early[6]
          /\ Cell(f, p + (2 + 7)) = early[7]
      BY <2>2
    <3> QED BY <1>2, <3>1
  <2>4. v >= VERSION4_8 => Cell(f, p + 10) = a.dbid2 /\ Cell(f, p + 11) = a.sampleCount
    <3> SUFFICES ASSUME v >= VERSION4_8
                 PROVE  Cell(f, p + 10) = a.dbid2 /\ Cell(f, p + 11) = a.sampleCount
      OBVIOUS
    <3>0. Len(late) = 2 /\ late[1] = a.dbid2 /\ late[2] = a.sampleCount
      BY <1>3
    <3>1. fields[7 + 1] = a.dbid2 /\ fields[7 + 2] = a.sampleCount /\ Len(fields) = 9
      <4>1. 1 \in 1..Len(late) /\ 2 \in 1..Len(late)
        BY <3>0
      <4> QED BY <1>4, <3>0, <4>1
    <3>2. Cell(f, p + 2 + 8) = fields[8] /\ Cell(f, p + 2 + 9) = fields[9]
          /\ p + 2 + 8 = p + 10 /\ p + 2 + 9 = p + 11
      BY <2>1, <3>1
    <3> QED BY <3>1, <3>2
  <2>5. HeaderEnd(f, p) = p + size /\ AtomEnd(f, p) = p + Len(s) /\ p + size \in Nat
    BY <1>6, <2>1 DEF HeaderEnd, AtomEnd
  <2> DEFINE mhods == read_mhods(f, p)
  <2>6. mhods = Good(Copies(a.mhods), p + size + Len(body))
    <3>1. mhods = Children([q \in Nat |-> read_mhod(f, q)], f, p + size, Len(a.mhods))
      BY <2>3, <2>5 DEF read_mhods
    <3> HIDE DEF mhods
    <3>2. At(f, p + size, Each(write_mhod, a.mhods))
      BY <2>1 DEF body
    <3> QED BY <1>1, <2>5, <3>1, <3>2, MhodsBack DEF body
  <2>7. mhods.ok = TRUE /\ mhods.atom = Copies(a.mhods)
    <3> HIDE DEF mhods
    <3> QED BY <2>6 DEF Good, Got
  <2> HIDE DEF mhods
  <2> DEFINE Late(q) == IF v >= VERSION4_8 THEN Cell(f, q) ELSE 0
             track == [trackID |-> Cell(f, p + 4), rating |-> Cell(f, p + 5),
                       playCount |-> Cell(f, p + 6), playCount2 |-> Cell(f, p + 7),
                       addedTime |-> Cell(f, p + 8), dbid |-> Cell(f, p + 9),
                       dbid2 |-> Late(p + 10), sampleCount |-> Late(p + 11),
                       mhods |-> mhods.atom]
  <2>8. read_mhit(f, p, v) = Got(track, AtomEnd(f, p), Cell(f, p) = MHIT /\ mhods.ok)
    BY DEF read_mhit, mhods
  <2>9. track = ReadTrack(a, v)
    BY <2>3, <2>4, <2>7 DEF ReadTrack
  <2>10. (Cell(f, p) = MHIT /\ mhods.ok) = TRUE
    BY <2>1, <2>7
  <2> HIDE DEF track
  <2> QED BY <2>5, <2>8, <2>9, <2>10 DEF Good
<1> QED BY <1>8, <1>9 DEF s

\* A playlist, which no mhod may follow (ipod_atom_mhyp.c).
LEMMA MhypBack ==
    ASSUME NEW a \in Mhyps, NEW v \in Int
    PROVE  BackBefore(read_mhyp, MHYP, write_mhyp(a, v), copy_mhyp(a))
<1> DEFINE ss == [i \in DOMAIN a.mhips |-> ItemCells(a.mhips[i], v, i - 1)]
           mhodCells == Each(write_mhod, a.mhods)
           itemCells == FlattenSeq(ss)
           size == 8 + HeaderPad
           fields == <<Len(a.mhods), Len(a.mhips), a.hidden, a.id, a.sortOrder>>
           body == mhodCells \o itemCells
           s == write_mhyp(a, v)
<1>1. /\ a = [hidden |-> a.hidden, id |-> a.id, sortOrder |-> a.sortOrder,
              mhods |-> a.mhods, mhips |-> a.mhips]
      /\ a.hidden \in Int /\ a.id \in Int /\ a.sortOrder \in Int
      /\ a.mhods \in Seq(Mhods) /\ a.mhips \in Seq(Mhips)
  BY DEF Mhyps
<1>2. Len(a.mhods) \in Nat /\ Len(a.mhips) \in Nat
  BY <1>1
<1>3. /\ fields \in File /\ Len(fields) = 5 /\ fields[1] = Len(a.mhods)
      /\ fields[2] = Len(a.mhips) /\ fields[3] = a.hidden /\ fields[4] = a.id
      /\ fields[5] = a.sortOrder
  BY <1>1, <1>2 DEF File
<1>4. s = Atom(MHYP, size, fields, body)
  BY DEF write_mhyp, ItemCells
<1> HIDE DEF fields
<1>5. mhodCells \in File /\ Len(mhodCells) \in Nat
  <2>1. mhodCells \in File
    BY <1>1, MhodsBack
  <2> HIDE DEF mhodCells
  <2> QED BY <2>1 DEF File
<1>6. itemCells \in File /\ Len(itemCells) \in Nat
  <2>1. itemCells \in File
    BY <1>1, ItemsBack
  <2> HIDE DEF itemCells
  <2> QED BY <2>1 DEF File
<1>7. ASSUME NEW f \in File, NEW p \in Nat, At(f, p, mhodCells)
      PROVE  Children([q \in Nat |-> read_mhod(f, q)], f, p, Len(a.mhods))
                = Good(Copies(a.mhods), p + Len(mhodCells))
  BY <1>1, <1>7, MhodsBack
<1>8. ASSUME NEW f \in File, NEW p \in Nat, At(f, p, itemCells),
             Cell(f, p + Len(itemCells)) # MHOD
      PROVE  Children([q \in Nat |-> read_item(f, q)], f, p, Len(a.mhips))
                = Good(a.mhips, p + Len(itemCells))
  BY <1>1, <1>8, ItemsBack
<1> HIDE DEF mhodCells, itemCells
<1>9. body \in File /\ Len(body) = Len(mhodCells) + Len(itemCells) /\ Len(body) \in Nat
  <2>1. body \in File /\ Len(body) = Len(mhodCells) + Len(itemCells)
    BY <1>5, <1>6, Cat
  <2> HIDE DEF body
  <2> QED BY <1>5, <1>6, <2>1
<1>10. size \in Nat /\ 3 + Len(fields) <= size /\ MHYP \in Int /\ size >= 8
  BY <1>3, PadAssumption DEF MHYP
<1> HIDE DEF size
<1>11. IsAtom(s, MHYP, size, fields, body)
  <2> HIDE DEF s, body
  <2> QED BY <1>3, <1>4, <1>9, <1>10, AtomParts
<1> HIDE DEF s
<1>12. s \in File /\ Len(s) = size + Len(body) /\ Len(s) \in Nat /\ Len(s) >= 1 /\ s[1] = MHYP
  <2> HIDE DEF body
  <2> QED BY <1>9, <1>10, <1>11 DEF IsAtom
<1>13. ASSUME NEW f \in File, NEW p \in Nat, At(f, p, s), Cell(f, p + Len(s)) # MHOD
       PROVE  read_mhyp(f, p) = Good(copy_mhyp(a), p + Len(s))
  <2>1. /\ Cell(f, p) = MHYP /\ Cell(f, p + 1) = size /\ Cell(f, p + 2) = Len(s)
        /\ \A k \in 1..5 : Cell(f, p + 2 + k) = fields[k]
        /\ At(f, p + size, body)
    <3> HIDE DEF body
    <3> QED BY <1>3, <1>11, <1>12, <1>13 DEF IsAtom
  <2>2. /\ Cell(f, p + 3) = Len(a.mhods) /\ Cell(f, p + 4) = Len(a.mhips)
        /\ Cell(f, p + 5) = a.hidden /\ Cell(f, p + 6) = a.id /\ Cell(f, p + 7) = a.sortOrder
    <3>1. /\ Cell(f, p + 2 + 1) = fields[1] /\ Cell(f, p + 2 + 2) = fields[2]
          /\ Cell(f, p + 2 + 3) = fields[3] /\ Cell(f, p + 2 + 4) = fields[4]
          /\ Cell(f, p + 2 + 5) = fields[5]
          /\ p + 2 + 1 = p + 3 /\ p + 2 + 2 = p + 4 /\ p + 2 + 3 = p + 5
          /\ p + 2 + 4 = p + 6 /\ p + 2 + 5 = p + 7
      BY <2>1
    <3> QED BY <1>3, <3>1
  <2>3. HeaderEnd(f, p) = p + size /\ AtomEnd(f, p) = p + Len(s) /\ p + size \in Nat
    <3>1. Cell(f, p + 1) = size /\ Cell(f, p + 2) = Len(s)
      BY <2>1
    <3>2. p + size \in Nat
      BY <1>10
    <3> QED BY <3>1, <3>2 DEF HeaderEnd, AtomEnd
  <2> DEFINE h == p + size
             m == h + Len(mhodCells)
  <2>4. At(f, h, mhodCells) /\ At(f, m, itemCells)
    BY <1>5, <1>6, <2>1, <2>3, AtCat
  <2>5. m \in Nat /\ m + Len(itemCells) = p + Len(s)
    <3> HIDE DEF body
    <3> QED BY <1>5, <1>6, <1>9, <1>10, <1>12
  <2> HIDE DEF h, m
  <2> DEFINE mhods == read_mhods(f, p)
             mhips == Children([q \in Nat |-> read_item(f, q)], f, m, Len(a.mhips))
  <2>6. mhods = Good(Copies(a.mhods), m)
    <3>1. mhods = Children([q \in Nat |-> read_mhod(f, q)], f, h, Len(a.mhods))
      BY <2>2, <2>3 DEF read_mhods, h
    <3>2. h \in Nat
      BY <2>3 DEF h
    <3> HIDE DEF mhods
    <3> QED BY <1>7, <2>4, <3>1, <3>2 DEF m
  <2>7. mhips = Good(a.mhips, p + Len(s))
    <3>1. Cell(f, m + Len(itemCells)) # MHOD
      BY <1>13, <2>5
    <3> QED BY <1>8, <2>4, <2>5, <3>1
  <2> HIDE DEF mhods, mhips
  <2>8. /\ mhods.ok = TRUE /\ mhods.atom = Copies(a.mhods) /\ mhods.pos = m
        /\ mhips.ok = TRUE /\ mhips.atom = a.mhips
    BY <2>6, <2>7 DEF Good, Got
  <2> DEFINE playlist == [hidden |-> Cell(f, p + 5), id |-> Cell(f, p + 6),
                          sortOrder |-> Cell(f, p + 7), mhods |-> mhods.atom,
                          mhips |-> mhips.atom]
  <2>9. read_mhyp(f, p) = Got(playlist, AtomEnd(f, p),
                              Cell(f, p) = MHYP /\ mhods.ok /\ mhips.ok)
    BY <2>2, <2>8 DEF read_mhyp, mhods, mhips
  <2>10. playlist = copy_mhyp(a)
    <3>1. playlist = [hidden |-> a.hidden, id |-> a.id, sortOrder |-> a.sortOrder,
                      mhods |-> Copies(a.mhods), mhips |-> a.mhips]
      BY <2>2, <2>8
    <3>2. copy_mhyp(a) = [a EXCEPT !.mhods = Copies(a.mhods)]
      BY DEF copy_mhyp, Copies
    <3> QED BY <1>1, <3>1, <3>2
  <2>11. (Cell(f, p) = MHYP /\ mhods.ok /\ mhips.ok) = TRUE
    BY <2>1, <2>8
  <2> HIDE DEF playlist
  <2> QED BY <2>3, <2>9, <2>10, <2>11 DEF Good
<1>14. BackBefore(read_mhyp, MHYP, s, copy_mhyp(a))
  BY <1>12, <1>13 DEF BackBefore
<1> QED BY <1>14 DEF s

\* What there is to read of a list that was written.
ReadList(a, v) ==
    [tag |-> a.tag,
     children |-> [i \in DOMAIN a.children |->
        IF a.tag = MHLT THEN ReadTrack(a.children[i], v) ELSE copy_mhyp(a.children[i])]]

\* A list of tracks or of playlists (ipod_atom_mhlt.c, ipod_atom_mhlp.c).
LEMMA ListBack ==
    ASSUME NEW a \in Mhls, NEW v \in Int
    PROVE  /\ write_list(a, v) \in File /\ Len(write_list(a, v)) \in Nat
           /\ \A f \in File : \A p \in Nat :
                 At(f, p, write_list(a, v)) /\ Cell(f, p + Len(write_list(a, v))) # MHOD =>
                    read_list(f, p, v) = Good(ReadList(a, v), p + Len(write_list(a, v)))
<1> DEFINE n == Len(a.children)
           Write(b) == IF a.tag = MHLT THEN write_mhit(b, v) ELSE write_mhyp(b, v)
           ss == [i \in DOMAIN a.children |-> Write(a.children[i])]
           vs == ReadList(a, v).children
           childTag == IF a.tag = MHLT THEN MHIT ELSE MHYP
           size == 3 + HeaderPad
           fields == <<n>>
           body == FlattenSeq(ss)
           s == write_list(a, v)
<1>1. /\ a.tag \in {MHLT, MHLP} /\ n \in Nat /\ DOMAIN a.children = 1..n
      /\ a.tag = MHLT => \A i \in 1..n : a.children[i] \in Mhits
      /\ a.tag # MHLT => \A i \in 1..n : a.children[i] \in Mhyps
  <2>1. CASE a \in [tag : {MHLT}, children : Seq(Mhits)]
    <3>1. a.tag = MHLT /\ a.children \in Seq(Mhits)
      BY <2>1
    <3> QED BY <3>1
  <2>2. CASE a \in [tag : {MHLP}, children : Seq(Mhyps)]
    <3>1. a.tag = MHLP /\ a.children \in Seq(Mhyps) /\ MHLP # MHLT
      BY <2>2 DEF MHLT, MHLP
    <3> QED BY <3>1
  <2> QED BY <2>1, <2>2 DEF Mhls
<1> HIDE DEF n
<1>2. ss = [i \in 1..n |-> ss[i]] /\ vs = [i \in 1..n |-> vs[i]]
  BY <1>1 DEF ReadList
<1>3. ASSUME NEW i \in 1..n
      PROVE  /\ ss[i] \in File /\ Len(ss[i]) \in Nat /\ Len(ss[i]) >= 1 /\ ss[i][1] = childTag
             /\ \A f \in File : \A q \in Nat :
                   At(f, q, ss[i]) /\ Cell(f, q + Len(ss[i])) # MHOD =>
                      (IF a.tag = MHLT THEN read_mhit(f, q, v) ELSE read_mhyp(f, q))
                         = Good(vs[i], q + Len(ss[i]))
  <2> DEFINE b == a.children[i]
  <2>1. CASE a.tag = MHLT
    <3>1. b \in Mhits /\ ss[i] = write_mhit(b, v) /\ vs[i] = ReadTrack(b, v) /\ childTag = MHIT
      BY <1>1, <2>1 DEF ReadList
    <3> HIDE DEF b, ss, vs, childTag
    <3> QED BY <2>1, <3>1, MhitBack
  <2>2. CASE a.tag # MHLT
    <3>1. b \in Mhyps /\ ss[i] = write_mhyp(b, v) /\ vs[i] = copy_mhyp(b) /\ childTag = MHYP
      BY <1>1, <2>2 DEF ReadList
    <3> HIDE DEF b, ss, vs, childTag
    <3>2. BackBefore(read_mhyp, MHYP, ss[i], vs[i])
      BY <3>1, MhypBack
    <3> QED BY <2>2, <3>1, <3>2 DEF BackBefore
  <2> QED BY <2>1, <2>2
<1>4. s = ListAtom(a.tag, size, fields, body)
  BY DEF write_list, Each, n
<1>5. childTag # MHOD
  BY DEF MHIT, MHYP, MHOD
<1>6. vs \in Seq({vs[i] : i \in 1..n}) /\ Len(vs) = n
  <2> HIDE DEF vs
  <2> QED BY <1>1, <1>2
<1>7. ss \in Seq(File) /\ Len(ss) = n
  <2> HIDE DEF ss
  <2> QED BY <1>1, <1>2, <1>3
<1> HIDE DEF ss, childTag
<1>8. Pieces(ss, childTag)
  BY <1>3, <1>7 DEF Pieces
<1>9. body \in File /\ Len(body) \in Nat
  <2>1. body \in File
    BY <1>7, FlattenParts
  <2> HIDE DEF body
  <2> QED BY <2>1 DEF File
<1>10. size \in Nat /\ fields \in File /\ Len(fields) = 1 /\ fields[1] = n /\ 2 + Len(fields) <= size
       /\ a.tag \in Int
  BY <1>1, PadAssumption DEF File, MHLT, MHLP
<1> HIDE DEF s, vs, fields, size
<1>11. IsList(s, a.tag, size, fields, body)
  <2> HIDE DEF body
  <2> QED BY <1>4, <1>9, <1>10, ListParts
<1>12. s \in File /\ Len(s) = size + Len(body) /\ Len(s) \in Nat
  <2> HIDE DEF body
  <2> QED BY <1>9, <1>10, <1>11 DEF IsList
<1>13. ASSUME NEW f \in File, NEW p \in Nat, At(f, p, s), Cell(f, p + Len(s)) # MHOD
       PROVE  read_list(f, p, v) = Good(ReadList(a, v), p + Len(s))
  <2>1. /\ Cell(f, p) = a.tag /\ Cell(f, p + 1) = size /\ Cell(f, p + 1 + 1) = fields[1]
        /\ At(f, p + size, body)
    <3>1. 1 \in 1..Len(fields)
      BY <1>10
    <3> HIDE DEF body
    <3> QED BY <1>11, <1>13, <3>1 DEF IsList
  <2>2. Cell(f, p + 2) = n /\ HeaderEnd(f, p) = p + size /\ p + size \in Nat
    <3>1. p + 1 + 1 = p + 2
      OBVIOUS
    <3> HIDE DEF body
    <3> QED BY <1>10, <2>1, <3>1 DEF HeaderEnd
  <2> DEFINE h == p + size
             ReadChild(q) == IF a.tag = MHLT THEN read_mhit(f, q, v) ELSE read_mhyp(f, q)
             read == [q \in Nat |-> ReadChild(q)]
             children == Children(read, f, h, n)
  <2>3. h \in Nat /\ h + Len(body) = p + Len(s)
    <3> HIDE DEF body
    <3> QED BY <1>9, <1>10, <1>12
  <2>4. ASSUME NEW i \in 1..Len(ss), NEW q \in Nat,
               At(f, q, ss[i]), Cell(f, q + Len(ss[i])) # MHOD
        PROVE  read[q] = Good(vs[i], q + Len(ss[i]))
    <3>1. ReadChild(q) = Good(vs[i], q + Len(ss[i]))
      BY <1>3, <1>7, <2>4
    <3>2. read[q] = ReadChild(q)
      OBVIOUS
    <3> QED BY <3>1, <3>2
  <2>5. read_list(f, p, v) = Got([tag |-> a.tag, children |-> children.atom], children.pos,
                                 a.tag \in {MHLT, MHLP} /\ children.ok)
    BY <2>1, <2>2 DEF read_list
  <2> HIDE DEF h, read
  <2>6. Readable(f, read, ss, vs)
    <3>1. \E V : vs \in Seq(V)
      BY <1>6
    <3> QED BY <1>6, <1>7, <2>4, <3>1 DEF Readable
  <2>7. children = Good(vs, h + Len(body))
    <3>1. At(f, h, FlattenSeq(ss)) /\ Cell(f, h + Len(FlattenSeq(ss))) # MHOD
      BY <1>13, <2>1, <2>3 DEF h
    <3>2. Children(read, f, h, Len(ss)) = Good(vs, h + Len(FlattenSeq(ss)))
      BY <1>5, <1>8, <2>3, <2>6, <3>1, PiecesRead
    <3> QED BY <1>7, <3>2
  <2> HIDE DEF children, body
  <2>8. children.ok = TRUE /\ children.atom = vs /\ children.pos = p + Len(s)
    BY <2>3, <2>7 DEF Good, Got
  <2>9. (a.tag \in {MHLT, MHLP} /\ children.ok) = TRUE
    BY <1>1, <2>8
  <2>10. [tag |-> a.tag, children |-> children.atom] = ReadList(a, v)
    BY <2>8 DEF ReadList, vs
  <2> QED BY <2>5, <2>8, <2>9, <2>10 DEF Good
<1> QED BY <1>12, <1>13 DEF s

\* What there is to read of a store, and of a database, that was written.
ReadStore(a, v) == [index |-> a.index, child |-> ReadList(a.child, v)]
ReadDatabase(a) ==
    [version |-> a.version,
     children |-> [i \in DOMAIN a.children |-> ReadStore(a.children[i], a.version)]]

\* A store of tracks, playlists or podcasts (ipod_atom_mhsd.c).
LEMMA MhsdBack ==
    ASSUME NEW a \in Mhsds, NEW v \in Int
    PROVE  /\ write_mhsd(a, v) \in File /\ Len(write_mhsd(a, v)) \in Nat
           /\ Len(write_mhsd(a, v)) >= 1 /\ write_mhsd(a, v)[1] = MHSD
           /\ \A f \in File : \A p \in Nat :
                 At(f, p, write_mhsd(a, v)) /\ Cell(f, p + Len(write_mhsd(a, v))) # MHOD =>
                    read_mhsd(f, p, v) = Good(ReadStore(a, v), p + Len(write_mhsd(a, v)))
<1> DEFINE size == 4 + HeaderPad
           fields == <<a.index>>
           body == write_list(a.child, v)
           s == write_mhsd(a, v)
<1>1. a.index \in Int /\ a.child \in Mhls
  BY DEF Mhsds
<1>2. s = Atom(MHSD, size, fields, body)
  BY DEF write_mhsd
<1>3. fields \in File /\ Len(fields) = 1 /\ fields[1] = a.index
  BY <1>1 DEF File
<1>4. size \in Nat /\ 3 + Len(fields) <= size /\ MHSD \in Int /\ size >= 4
  BY <1>3, PadAssumption DEF MHSD
<1>5. body \in File /\ Len(body) \in Nat
  BY <1>1, ListBack
<1>6. ASSUME NEW f \in File, NEW p \in Nat, At(f, p, body), Cell(f, p + Len(body)) # MHOD
      PROVE  read_list(f, p, v) = Good(ReadList(a.child, v), p + Len(body))
  BY <1>1, <1>6, ListBack
<1> HIDE DEF fields, size, body, s
<1>7. IsAtom(s, MHSD, size, fields, body)
  BY <1>2, <1>3, <1>4, <1>5, AtomParts
<1>8. s \in File /\ Len(s) = size + Len(body) /\ Len(s) \in Nat /\ Len(s) >= 1 /\ s[1] = MHSD
  BY <1>4, <1>5, <1>7 DEF IsAtom
<1>9. ASSUME NEW f \in File, NEW p \in Nat, At(f, p, s), Cell(f, p + Len(s)) # MHOD
      PROVE  read_mhsd(f, p, v) = Good(ReadStore(a, v), p + Len(s))
  <2>1. /\ Cell(f, p) = MHSD /\ Cell(f, p + 1) = size /\ Cell(f, p + 2) = Len(s)
        /\ Cell(f, p + 2 + 1) = fields[1] /\ At(f, p + size, body)
    <3>1. 1 \in 1..Len(fields)
      BY <1>3
    <3> QED BY <1>7, <1>8, <1>9, <3>1 DEF IsAtom
  <2>2. /\ HeaderEnd(f, p) = p + size /\ p + size \in Nat /\ AtomEnd(f, p) = p + Len(s)
        /\ Cell(f, p + 3) = a.index /\ p + size + Len(body) = p + Len(s)
    <3>1. p + 2 + 1 = p + 3 /\ p + size \in Nat /\ p + size + Len(body) = p + Len(s)
      BY <1>4, <1>5, <1>8
    <3> QED BY <1>3, <2>1, <3>1 DEF HeaderEnd, AtomEnd
  <2> DEFINE child == read_list(f, p + size, v)
  <2>3. child = Good(ReadList(a.child, v), p + Len(s))
    <3>1. Cell(f, p + size + Len(body)) # MHOD
      BY <1>9, <2>2
    <3> QED BY <1>6, <2>1, <2>2, <3>1
  <2>4. read_mhsd(f, p, v) = Got([index |-> Cell(f, p + 3), child |-> child.atom],
                                 AtomEnd(f, p), Cell(f, p) = MHSD /\ child.ok)
    BY <2>2 DEF read_mhsd
  <2> HIDE DEF child
  <2>5. child.ok = TRUE /\ child.atom = ReadList(a.child, v)
    BY <2>3 DEF Good, Got
  <2>6. (Cell(f, p) = MHSD /\ child.ok) = TRUE
    BY <2>1, <2>5
  <2> QED BY <2>2, <2>4, <2>5, <2>6 DEF Good, ReadStore
<1> QED BY <1>8, <1>9 DEF s

\* Whatever database is written, of any version, with any tracks, playlists,
\* texts and data: what is read of it is the same tree, but for what an mhod of
\* type 0 and a track before 4.8 cannot keep.  Each size, count and position
\* that one atom writes is where the reader of another looks (ipod_atom_*.c: the
\* write and the read of each atom, written apart).
THEOREM RoundTrip ==
    ASSUME NEW a \in Mhbds
    PROVE  /\ write_mhbd(a) \in File /\ Len(write_mhbd(a)) >= 1
           /\ read_mhbd(write_mhbd(a)) = Good(ReadDatabase(a), 1 + Len(write_mhbd(a)))
<1> DEFINE n == Len(a.children)
           v == a.version
           ss == [i \in DOMAIN a.children |-> write_mhsd(a.children[i], v)]
           vs == ReadDatabase(a).children
           size == 5 + HeaderPad
           fields == <<v, n>>
           body == FlattenSeq(ss)
           s == write_mhbd(a)
<1>1. /\ v \in Int /\ n \in Nat /\ DOMAIN a.children = 1..n
      /\ \A i \in 1..n : a.children[i] \in Mhsds
  <2>1. a.version \in Int /\ a.children \in Seq(Mhsds)
    BY DEF Mhbds
  <2> QED BY <2>1
<1>2. s = Atom(MHBD, size, fields, body)
  BY DEF write_mhbd, Each
<1> HIDE DEF n
<1>3. ss = [i \in 1..n |-> ss[i]] /\ vs = [i \in 1..n |-> vs[i]]
  BY <1>1 DEF ReadDatabase
<1>4. ASSUME NEW i \in 1..n
      PROVE  /\ ss[i] \in File /\ Len(ss[i]) \in Nat /\ Len(ss[i]) >= 1 /\ ss[i][1] = MHSD
             /\ \A f \in File : \A q \in Nat :
                   At(f, q, ss[i]) /\ Cell(f, q + Len(ss[i])) # MHOD =>
                      read_mhsd(f, q, v) = Good(vs[i], q + Len(ss[i]))
  <2> DEFINE b == a.children[i]
  <2>1. b \in Mhsds /\ ss[i] = write_mhsd(b, v) /\ vs[i] = ReadStore(b, v)
    BY <1>1 DEF ReadDatabase
  <2> HIDE DEF b, ss, vs, v
  <2> QED BY <1>1, <2>1, MhsdBack
<1>5. vs \in Seq({vs[i] : i \in 1..n}) /\ Len(vs) = n
  <2> HIDE DEF vs
  <2> QED BY <1>1, <1>3
<1>6. ss \in Seq(File) /\ Len(ss) = n
  <2> HIDE DEF ss
  <2> QED BY <1>1, <1>3, <1>4
<1> HIDE DEF ss, v
<1>7. Pieces(ss, MHSD)
  BY <1>4, <1>6 DEF Pieces
<1>8. body \in File /\ Len(body) \in Nat
  <2>1. body \in File
    BY <1>6, FlattenParts
  <2> HIDE DEF body
  <2> QED BY <2>1 DEF File
<1>9. /\ size \in Nat /\ fields \in File /\ Len(fields) = 2 /\ fields[1] = v /\ fields[2] = n
      /\ 3 + Len(fields) <= size /\ MHBD \in Int /\ size >= 5
  BY <1>1, PadAssumption DEF File, MHBD
<1> HIDE DEF s, vs, fields, size
<1>10. IsAtom(s, MHBD, size, fields, body)
  <2> HIDE DEF body
  <2> QED BY <1>2, <1>8, <1>9, AtomParts
<1>11. s \in File /\ Len(s) = size + Len(body) /\ Len(s) \in Nat /\ Len(s) >= 1
  <2> HIDE DEF body
  <2> QED BY <1>8, <1>9, <1>10 DEF IsAtom
<1>12. At(s, 1, s)
  <2>1. \A k \in 1..Len(s) : 1 + k - 1 = k /\ k \in DOMAIN s
    BY <1>11 DEF File
  <2> QED BY <2>1 DEF At
<1>13. /\ Cell(s, 1) = MHBD /\ Cell(s, 1 + 1) = size /\ Cell(s, 1 + 2) = Len(s)
       /\ Cell(s, 4) = v /\ Cell(s, 5) = n /\ At(s, 1 + size, body)
  <2>1. 1 \in 1..Len(fields) /\ 2 \in 1..Len(fields) /\ 1 + 2 + 1 = 4 /\ 1 + 2 + 2 = 5
    BY <1>9
  <2> HIDE DEF body
  <2> QED BY <1>9, <1>10, <1>11, <1>12, <2>1 DEF IsAtom
<1>14. HeaderEnd(s, 1) = 1 + size /\ AtomEnd(s, 1) = 1 + Len(s)
  BY <1>13 DEF HeaderEnd, AtomEnd
<1>15. Cell(s, 1 + Len(s)) # MHOD
  <2>1. 1 + Len(s) \notin DOMAIN s
    BY <1>11 DEF File
  <2> QED BY <2>1 DEF Cell, NoCell, MHOD
<1> DEFINE h == 1 + size
           read == [q \in Nat |-> read_mhsd(s, q, v)]
           children == Children(read, s, h, n)
<1>16. h \in Nat /\ h + Len(body) = 1 + Len(s)
  <2> HIDE DEF body
  <2> QED BY <1>8, <1>9, <1>11
<1>17. ASSUME NEW i \in 1..Len(ss), NEW q \in Nat, At(s, q, ss[i]), Cell(s, q + Len(ss[i])) # MHOD
       PROVE  read[q] = Good(vs[i], q + Len(ss[i]))
  <2>1. read_mhsd(s, q, v) = Good(vs[i], q + Len(ss[i]))
    BY <1>4, <1>6, <1>11, <1>17
  <2> QED BY <2>1
<1>18. read_mhbd(s) = Got([version |-> v, children |-> children.atom], 1 + Len(s),
                          Cell(s, 1) = MHBD /\ children.ok)
  BY <1>13, <1>14 DEF read_mhbd
<1> HIDE DEF h, read
<1>19. Readable(s, read, ss, vs)
  <2>1. \E V : vs \in Seq(V)
    BY <1>5
  <2> QED BY <1>5, <1>6, <1>17, <2>1 DEF Readable
<1>20. children = Good(vs, h + Len(body))
  <2>1. At(s, h, FlattenSeq(ss)) /\ Cell(s, h + Len(FlattenSeq(ss))) # MHOD
    BY <1>13, <1>15, <1>16 DEF h
  <2>2. MHSD # MHOD
    BY DEF MHSD, MHOD
  <2>3. Children(read, s, h, Len(ss)) = Good(vs, h + Len(FlattenSeq(ss)))
    BY <1>7, <1>11, <1>16, <1>19, <2>1, <2>2, PiecesRead
  <2> QED BY <1>6, <2>3
<1> HIDE DEF children, body
<1>21. children.ok = TRUE /\ children.atom = vs
  BY <1>20 DEF Good, Got
<1>22. (Cell(s, 1) = MHBD /\ children.ok) = TRUE
  BY <1>13, <1>21
<1>23. [version |-> v, children |-> children.atom] = ReadDatabase(a)
  BY <1>21 DEF ReadDatabase, vs, v
<1>24. read_mhbd(s) = Good(ReadDatabase(a), 1 + Len(s))
  BY <1>18, <1>22, <1>23 DEF Good
<1> QED BY <1>11, <1>24 DEF s
-----------------------------------------------------------------------------
(* Searching                                                               *)

\* What a search returns: the first index of a set, or 0.
LEMMA First ==
    ASSUME NEW n \in Nat, NEW I \in SUBSET (1..n),
           NEW k, k = IF I # {} THEN Min(I) ELSE 0
    PROVE  /\ k \in 0..n /\ (k = 0 <=> I = {})
           /\ k # 0 => k \in I /\ \A j \in I : k <= j
<1>1. CASE I = {}
  BY <1>1
<1>2. CASE I # {}
  <2>1. \E x \in I : \A y \in I : x <= y
    <3>1. I \subseteq Nat
      OBVIOUS
    <3> QED BY <1>2, <3>1, LeastNat
  <2>2. k \in I /\ \A y \in I : k <= y
    BY <1>2, <2>1 DEF Min
  <2> QED BY <1>2, <2>2
<1> QED BY <1>1, <1>2

\* A store is found by its number.
LEMMA StoreAtIs ==
    ASSUME NEW tree, NEW n \in Nat, DOMAIN tree.children = 1..n, Len(tree.children) = n, NEW index
    PROVE  LET k == StoreAt(tree, index)
           IN  /\ k \in 0..n
               /\ k # 0 => tree.children[k].index = index
               /\ k = 0 => \A j \in 1..n : tree.children[j].index # index
<1> DEFINE I == {i \in 1..Len(tree.children) : tree.children[i].index = index}
           k == StoreAt(tree, index)
<1>1. k = IF I # {} THEN Min(I) ELSE 0
  BY DEF StoreAt, SelectInSeq
<1>2. I \in SUBSET (1..n)
  OBVIOUS
<1> HIDE DEF k
<1>3. /\ k \in 0..n /\ (k = 0 <=> I = {}) /\ (k # 0 => k \in I)
  <2> HIDE DEF I
  <2> QED BY <1>1, <1>2, First
<1> QED BY <1>3 DEF k

\* Only the numbers of the stores say where one is.
LEMMA StoreAtSame ==
    ASSUME NEW tree, NEW other, Len(tree.children) = Len(other.children),
           \A i \in 1..Len(tree.children) : tree.children[i].index = other.children[i].index,
           NEW index
    PROVE  StoreAt(tree, index) = StoreAt(other, index)
<1> DEFINE I == {i \in 1..Len(tree.children) : tree.children[i].index = index}
           J == {i \in 1..Len(other.children) : other.children[i].index = index}
<1>1. I = J
  OBVIOUS
<1>2. StoreAt(tree, index) = IF I # {} THEN Min(I) ELSE 0
  BY DEF StoreAt, SelectInSeq
<1>3. StoreAt(other, index) = IF J # {} THEN Min(J) ELSE 0
  BY DEF StoreAt, SelectInSeq
<1> HIDE DEF I, J
<1> QED BY <1>1, <1>2, <1>3

\* A text is found by its type.
LEMMA TextAtIs ==
    ASSUME NEW mhods \in Seq(Mhods), NEW type
    PROVE  LET k == TextAt(mhods, type)
           IN  /\ k \in 0..Len(mhods)
               /\ k # 0 => k \in DOMAIN mhods /\ mhods[k].type = type
<1> DEFINE I == {i \in 1..Len(mhods) : mhods[i].type = type}
           k == TextAt(mhods, type)
<1>1. k = IF I # {} THEN Min(I) ELSE 0
  BY DEF TextAt, SelectInSeq
<1>2. I \in SUBSET (1..Len(mhods)) /\ Len(mhods) \in Nat /\ DOMAIN mhods = 1..Len(mhods)
  OBVIOUS
<1> HIDE DEF k
<1>3. /\ k \in 0..Len(mhods) /\ (k # 0 => k \in I)
  <2> HIDE DEF I
  <2> QED BY <1>1, <1>2, First
<1> QED BY <1>2, <1>3 DEF k

-----------------------------------------------------------------------------
(* Walks over a list                                                       *)

\* One list behind the other.
LEMMA Joined ==
    ASSUME NEW S, NEW s \in Seq(S), NEW t \in Seq(S)
    PROVE  /\ s \o t \in Seq(S) /\ Len(s \o t) = Len(s) + Len(t)
           /\ \A k \in 1..Len(s) + Len(t) :
                 (s \o t)[k] = IF k <= Len(s) THEN s[k] ELSE t[k - Len(s)]
  OBVIOUS

\* Lists are equal when their elements are.
LEMMA ListsEqual ==
    ASSUME NEW S, NEW s \in Seq(S), NEW t \in Seq(S), Len(s) = Len(t),
           \A k \in 1..Len(s) : s[k] = t[k]
    PROVE  s = t
  OBVIOUS

\* What step[n] makes of the value before it, from "base" on.
Walk(g, N, base, step) == g[0] = base /\ \A n \in 1..N : g[n] = step[n][g[n - 1]]

\* Such a walk exists.
LEMMA WalkExists ==
    ASSUME NEW N \in Nat, NEW V, NEW base \in V, NEW step \in [1..N -> [V -> V]]
    PROVE  \E g \in [0..N -> V] : Walk(g, N, base, step)
<1> DEFINE M == {m \in 0..N : \E g \in [0..m -> V] : Walk(g, m, base, step)}
<1>1. 0 \in M
  <2>1. [k \in 0..0 |-> base] \in [0..0 -> V] /\ Walk([k \in 0..0 |-> base], 0, base, step)
    BY DEF Walk
  <2> QED BY <2>1
<1>2. ASSUME NEW m \in 1..N, m - 1 \in M PROVE m \in M
  <2>1. PICK g \in [0..(m - 1) -> V] : Walk(g, m - 1, base, step)
    BY <1>2
  <2> DEFINE new == [k \in 0..m |-> IF k = m THEN step[m][g[m - 1]] ELSE g[k]]
  <2>2. m \in 0..N /\ m - 1 \in 0..(m - 1)
    OBVIOUS
  <2>3. step[m][g[m - 1]] \in V
    BY <2>2
  <2>4. ASSUME NEW k \in 0..m, k # m PROVE k \in 0..(m - 1)
    BY <2>4
  <2>5. new \in [0..m -> V]
    BY <2>3, <2>4
  <2>6. Walk(new, m, base, step)
    <3>1. new[0] = base
      BY <2>1 DEF Walk
    <3>2. ASSUME NEW k \in 1..m PROVE new[k] = step[k][new[k - 1]]
      <4>1. k - 1 \in 0..m /\ k - 1 # m /\ k \in 0..m
        OBVIOUS
      <4>2. new[k - 1] = g[k - 1]
        BY <4>1
      <4>3. CASE k = m
        BY <4>1, <4>2, <4>3
      <4>4. CASE k # m
        <5>1. k \in 1..(m - 1)
          BY <4>4
        <5> QED BY <2>1, <4>1, <4>2, <4>4, <5>1 DEF Walk
      <4> QED BY <4>3, <4>4
    <3> HIDE DEF new
    <3> QED BY <3>1, <3>2 DEF Walk
  <2> HIDE DEF new
  <2> QED BY <2>2, <2>5, <2>6
<1>3. N \in M
  <2>1. N \in 0..N
    OBVIOUS
  <2> HIDE DEF M
  <2>2. \A i \in 1..N : i - 1 \in M => i \in M
    BY <1>2
  <2>3. \A i \in 0..N : i \in M
    BY <1>1, <2>2, Induction
  <2> QED BY <2>1, <2>3
<1> QED BY <1>3

\* What Only() makes of a list, element by element.
OnlySteps(g, s, S) ==
    /\ g[0] = <<>>
    /\ \A n \in 1..Len(s) : g[n] = IF s[n] \in S THEN Append(g[n - 1], s[n]) ELSE g[n - 1]
    /\ Only(s, S) = g[Len(s)]

\* Only() walks over the list.
LEMMA OnlyWalks ==
    ASSUME NEW A, NEW s \in Seq(A), NEW S
    PROVE  \E g \in [0..Len(s) -> Seq(A)] : OnlySteps(g, s, S)
<1> DEFINE N == Len(s)
           V == Seq(A)
           step == [n \in 1..N |-> [x \in V |-> IF s[n] \in S THEN Append(x, s[n]) ELSE x]]
           Body(g) == [n \in 0..N |-> IF n = 0 THEN <<>>
                                      ELSE IF s[n] \in S THEN Append(g[n - 1], s[n]) ELSE g[n - 1]]
           Rec(g) == g = Body(g)
<1>1. N \in Nat /\ \A n \in 1..N : s[n] \in A
  OBVIOUS
<1> HIDE DEF N
<1>2. step \in [1..N -> [V -> V]] /\ <<>> \in V
  BY <1>1
<1>3. PICK g \in [0..N -> V] : Walk(g, N, <<>>, step)
  <2> HIDE DEF V, step
  <2> QED BY <1>1, <1>2, WalkExists
<1>4. ASSUME NEW n \in 1..N
      PROVE  g[n] = IF s[n] \in S THEN Append(g[n - 1], s[n]) ELSE g[n - 1]
  <2>1. n - 1 \in 0..N
    BY <1>1
  <2>2. g[n - 1] \in V
    BY <2>1
  <2>3. g[n] = step[n][g[n - 1]]
    BY <1>3 DEF Walk
  <2> HIDE DEF V
  <2> QED BY <2>2, <2>3
<1>5. g[0] = <<>>
  BY <1>3 DEF Walk
<1> HIDE DEF step, V
<1>6. Rec(g)
  <2>1. ASSUME NEW n \in 0..N PROVE g[n] = Body(g)[n]
    <3>1. CASE n = 0
      BY <1>5, <3>1
    <3>2. CASE n # 0
      <4>1. n \in 1..N
        BY <3>2
      <4> QED BY <1>4, <3>2, <4>1
    <3> QED BY <3>1, <3>2
  <2>2. g = [n \in 0..N |-> g[n]]
    OBVIOUS
  <2> QED BY <2>1, <2>2
<1> DEFINE only == CHOOSE h : Rec(h)
<1>7. Rec(only)
  <2> HIDE DEF Rec
  <2> QED BY <1>6
<1>8. Only(s, S) = only[N]
  BY DEF Only, N
<1> HIDE DEF only
<1> DEFINE M == {m \in 0..N : only[m] = g[m]}
<1>9. 0 \in M
  BY <1>1, <1>5, <1>7
<1>10. ASSUME NEW m \in 1..N, m - 1 \in M PROVE m \in M
  <2>1. m \in 0..N /\ m # 0
    OBVIOUS
  <2>2. only[m] = Body(only)[m]
    BY <1>7
  <2>3. only[m - 1] = g[m - 1]
    BY <1>10
  <2> QED BY <1>4, <2>1, <2>2, <2>3
<1>11. N \in M
  <2>1. N \in 0..N
    BY <1>1
  <2> HIDE DEF M
  <2>2. \A i \in 1..N : i - 1 \in M => i \in M
    BY <1>10
  <2>3. \A i \in 0..N : i \in M
    BY <1>1, <1>9, <2>2, Induction
  <2> QED BY <2>1, <2>3
<1>12. OnlySteps(g, s, S)
  BY <1>4, <1>5, <1>8, <1>11 DEF OnlySteps, N
<1> QED BY <1>12 DEF N, V

\* A list out of a list.
LEMMA OnlyTyped ==
    ASSUME NEW A, NEW s \in Seq(A), NEW S
    PROVE  Only(s, S) \in Seq(A)
<1>1. PICK g \in [0..Len(s) -> Seq(A)] : OnlySteps(g, s, S)
  BY OnlyWalks
<1>2. Len(s) \in 0..Len(s)
  OBVIOUS
<1> QED BY <1>1, <1>2 DEF OnlySteps

-----------------------------------------------------------------------------
(* The sort                                                                *)

\* Where a position is placed.
PlaceOf(s, i, key) == SelectInSeq(s, LAMBDA j : compare_utf16(key[i], key[j]) < 0)

\* The place is the first before which it belongs, or none.
LEMMA PlaceIs ==
    ASSUME NEW s \in File, NEW i, NEW key
    PROVE  LET k == PlaceOf(s, i, key)
               Later(j) == compare_utf16(key[i], key[s[j]]) < 0
           IN  /\ k \in 0..Len(s)
               /\ k = 0 => \A j \in 1..Len(s) : ~Later(j)
               /\ k # 0 => k \in 1..Len(s) /\ Later(k) /\ \A j \in 1..k - 1 : ~Later(j)
<1> DEFINE Later(j) == compare_utf16(key[i], key[s[j]]) < 0
           I == {j \in 1..Len(s) : Later(j)}
           k == PlaceOf(s, i, key)
<1>1. k = IF I # {} THEN Min(I) ELSE 0
  BY DEF PlaceOf, SelectInSeq
<1>2. I \in SUBSET (1..Len(s)) /\ Len(s) \in Nat
  BY DEF File
<1> HIDE DEF k
<1>3. k \in 0..Len(s) /\ (k = 0 <=> I = {}) /\ (k # 0 => k \in I /\ \A j \in I : k <= j)
  <2> HIDE DEF I
  <2> QED BY <1>1, <1>2, First
<1> HIDE DEF Later
<1>4. k = 0 => \A j \in 1..Len(s) : ~Later(j)
  BY <1>3
<1>5. ASSUME k # 0 PROVE k \in 1..Len(s) /\ Later(k) /\ \A j \in 1..k - 1 : ~Later(j)
  <2>1. k \in 1..Len(s) /\ Later(k)
    BY <1>3, <1>5
  <2>2. ASSUME NEW j \in 1..k - 1 PROVE j \in 1..Len(s) /\ j < k
    BY <1>2, <2>1
  <2>3. ASSUME NEW j \in 1..k - 1, Later(j) PROVE FALSE
    <3>1. j \in I /\ j < k
      BY <2>2, <2>3
    <3>2. k <= j
      BY <1>3, <1>5, <3>1
    <3> QED BY <2>1, <3>1, <3>2
  <2> QED BY <2>1, <2>3
<1> QED BY <1>3, <1>4, <1>5 DEF k, Later

Position(s, i, key) == IF PlaceOf(s, i, key) = 0 THEN Len(s) + 1 ELSE PlaceOf(s, i, key)

\* "new" is s with i at k.
PutIn(new, s, i, k) ==
    /\ new \in File /\ Len(new) = Len(s) + 1 /\ k \in 1..Len(s) + 1
    /\ \A j \in 1..Len(s) + 1 : new[j] = IF j < k THEN s[j] ELSE IF j = k THEN i ELSE s[j - 1]

\* It is put there, and what is behind moves on.
LEMMA PlacedIs ==
    ASSUME NEW s \in File, NEW i \in Int, NEW key
    PROVE  PutIn(Placed(s, i, key), s, i, Position(s, i, key))
<1> DEFINE place == PlaceOf(s, i, key)
           k == Position(s, i, key)
           new == Placed(s, i, key)
<1>0. k = IF place = 0 THEN Len(s) + 1 ELSE place
  BY DEF Position
<1>1. Len(s) \in Nat /\ s \in Seq(Int)
  BY DEF File
<1>2. place \in 0..Len(s)
  BY PlaceIs
<1>3. new = IF place = 0 THEN Append(s, i) ELSE InsertAt(s, place, i)
  BY DEF Placed, PlaceOf
<1> HIDE DEF place, k
<1>4. CASE place = 0
  <2>1. new = Append(s, i)
    BY <1>3, <1>4
  <2> HIDE DEF new
  <2>2. PutIn(new, s, i, k)
    BY <1>0, <1>1, <1>4, <2>1 DEF File, PutIn
  <2> QED BY <2>2 DEF new, k
<1>5. CASE place # 0
  <2> DEFINE a == SubSeq(s, 1, place - 1)
             b == SubSeq(s, place, Len(s))
             ai == a \o <<i>>
  <2>1. place \in 1..Len(s) /\ k = place
    BY <1>0, <1>2, <1>5
  <2>2. a \in Seq(Int) /\ Len(a) = place - 1 /\ \A j \in 1..place - 1 : a[j] = s[j]
    BY <1>1, <2>1
  <2>3. /\ b \in Seq(Int) /\ Len(b) = Len(s) - place + 1
        /\ \A j \in 1..Len(s) - place + 1 : b[j] = s[place + j - 1]
    BY <1>1, <2>1
  <2>4. new = ai \o b
    BY <1>3, <1>5 DEF InsertAt
  <2> HIDE DEF a, b, new
  <2>5. <<i>> \in Seq(Int) /\ Len(<<i>>) = 1 /\ <<i>>[1] = i
    OBVIOUS
  <2>6. /\ ai \in Seq(Int) /\ Len(ai) = place
        /\ \A j \in 1..place : ai[j] = IF j < place THEN s[j] ELSE i
    <3>1. /\ ai \in Seq(Int) /\ Len(ai) = Len(a) + 1
          /\ \A j \in 1..Len(a) + 1 : ai[j] = IF j <= Len(a) THEN a[j] ELSE <<i>>[j - Len(a)]
      BY <2>2, <2>5, Joined
    <3> HIDE DEF ai
    <3>2. Len(a) + 1 = place
      BY <2>1, <2>2
    <3>3. ASSUME NEW j \in 1..place PROVE ai[j] = IF j < place THEN s[j] ELSE i
      <4>1. CASE j < place
        <5>1. j \in 1..place - 1 /\ j <= Len(a) /\ j \in 1..Len(a) + 1
          BY <2>1, <2>2, <4>1
        <5> QED BY <2>2, <3>1, <4>1, <5>1
      <4>2. CASE ~(j < place)
        <5>1. j = place /\ ~(j <= Len(a)) /\ j \in 1..Len(a) + 1 /\ j - Len(a) = 1
          BY <2>1, <2>2, <4>2
        <5> QED BY <2>5, <3>1, <4>2, <5>1
      <4> QED BY <4>1, <4>2
    <3> QED BY <3>1, <3>2, <3>3
  <2> HIDE DEF ai
  <2>7. /\ new \in Seq(Int) /\ Len(new) = Len(ai) + Len(b)
        /\ \A j \in 1..Len(ai) + Len(b) : new[j] = IF j <= Len(ai) THEN ai[j] ELSE b[j - Len(ai)]
    BY <2>3, <2>4, <2>6, Joined
  <2>8. Len(ai) + Len(b) = Len(s) + 1
    BY <1>1, <2>1, <2>3, <2>6
  <2>9. ASSUME NEW j \in 1..Len(s) + 1
        PROVE  new[j] = IF j < place THEN s[j] ELSE IF j = place THEN i ELSE s[j - 1]
    <3>1. CASE j <= place
      <4>1. j \in 1..place /\ j <= Len(ai)
        BY <2>1, <2>6, <3>1
      <4>2. new[j] = ai[j]
        BY <2>7, <2>8, <4>1
      <4> QED BY <2>1, <2>6, <4>1, <4>2
    <3>2. CASE ~(j <= place)
      <4>1. /\ j - place \in 1..Len(s) - place + 1 /\ place + (j - place) - 1 = j - 1
            /\ ~(j < place) /\ j # place
        BY <1>1, <2>1, <3>2
      <4>2. new[j] = b[j - place]
        BY <2>6, <2>7, <2>8, <3>2
      <4> QED BY <2>3, <4>1, <4>2
    <3> QED BY <3>1, <3>2
  <2>10. k \in 1..Len(s) + 1
    BY <1>1, <2>1
  <2>11. PutIn(new, s, i, k)
    BY <2>1, <2>7, <2>8, <2>9, <2>10 DEF File, PutIn
  <2> QED BY <2>11 DEF new, k
<1> QED BY <1>4, <1>5

\* Texts are ordered by their first characters, those by their lengths.
LEMMA CompareOrders ==
    ASSUME NEW a \in File, NEW b \in File
    PROVE  /\ compare_utf16(a, b) \in Int /\ compare_utf16(b, a) = 0 - compare_utf16(a, b)
           /\ \A c \in File : compare_utf16(a, b) <= 0 /\ compare_utf16(b, c) <= 0 =>
                                 compare_utf16(a, c) <= 0
<1>1. ASSUME NEW x \in File
      PROVE  Len(x) \in Nat /\ (x # <<>> => x[1] \in Int /\ Len(x) >= 1)
             /\ (x = <<>> => Len(x) = 0)
  BY DEF File
<1>2. compare_utf16(a, b) \in Int /\ compare_utf16(b, a) = 0 - compare_utf16(a, b)
  BY <1>1 DEF compare_utf16
<1>3. ASSUME NEW c \in File, compare_utf16(a, b) <= 0, compare_utf16(b, c) <= 0
      PROVE  compare_utf16(a, c) <= 0
  <2>1. /\ Len(a) \in Nat /\ Len(b) \in Nat /\ Len(c) \in Nat
        /\ (a # <<>> => a[1] \in Int /\ Len(a) >= 1) /\ (a = <<>> => Len(a) = 0)
        /\ (b # <<>> => b[1] \in Int /\ Len(b) >= 1) /\ (b = <<>> => Len(b) = 0)
        /\ (c # <<>> => c[1] \in Int /\ Len(c) >= 1) /\ (c = <<>> => Len(c) = 0)
    BY <1>1
  <2> QED BY <1>3, <2>1 DEF compare_utf16
<1> QED BY <1>2, <1>3

\* The texts that a sort compares, and the order.
Keys(tracks, sort) == [i \in 0..Len(tracks) - 1 |-> SortKey(tracks[i + 1], sort)]
NotAfter(key, i, j) == compare_utf16(key[i], key[j]) <= 0

\* The positions below n, in order.
InOrderUpTo(s, n, key) ==
    /\ s \in File /\ Len(s) = n
    /\ \A j \in 1..n : s[j] \in 0..n - 1
    /\ \A v \in 0..n - 1 : \E j \in 1..n : s[j] = v
    /\ \A i, j \in 1..n : i < j => NotAfter(key, s[i], s[j])

\* Placing the next position keeps the order.
LEMMA PlacedInOrder ==
    ASSUME NEW N \in Nat, NEW n \in 1..N, NEW key \in [0..N - 1 -> File],
           NEW s, InOrderUpTo(s, n - 1, key)
    PROVE  InOrderUpTo(Placed(s, n - 1, key), n, key)
<1> DEFINE i == n - 1
           place == PlaceOf(s, i, key)
           k == Position(s, i, key)
           new == Placed(s, i, key)
           Later(j) == compare_utf16(key[i], key[s[j]]) < 0
<1>1. /\ s \in File /\ Len(s) = i /\ i \in Int /\ i \in 0..N - 1
      /\ \A j \in 1..i : s[j] \in 0..i - 1 /\ s[j] \in 0..N - 1
      /\ \A v \in 0..i - 1 : \E j \in 1..i : s[j] = v
      /\ \A h, j \in 1..i : h < j => NotAfter(key, s[h], s[j])
  BY DEF InOrderUpTo
<1>2. /\ place \in 0..i
      /\ place = 0 => \A j \in 1..i : ~Later(j)
      /\ place # 0 => place \in 1..i /\ Later(place) /\ \A j \in 1..place - 1 : ~Later(j)
  <2> HIDE DEF i
  <2> QED BY <1>1, PlaceIs
<1>3. /\ new \in File /\ Len(new) = i + 1 /\ k \in 1..i + 1
      /\ \A j \in 1..i + 1 :
            new[j] = IF j < k THEN s[j] ELSE IF j = k THEN i ELSE s[j - 1]
  <2> HIDE DEF i
  <2>1. PutIn(new, s, i, k)
    BY <1>1, PlacedIs
  <2> HIDE DEF new, k
  <2> QED BY <1>1, <2>1 DEF PutIn
<1>position. k = IF place = 0 THEN Len(s) + 1 ELSE place
  BY DEF Position
<1> HIDE DEF new, place, k
<1>4. ASSUME NEW j \in 1..i, j < k PROVE NotAfter(key, s[j], i)
  <2>1. ~Later(j)
    BY <1>1, <1>2, <1>4, <1>position
  <2>2. key[i] \in File /\ key[s[j]] \in File
    BY <1>1
  <2>3. /\ compare_utf16(key[i], key[s[j]]) \in Int
        /\ compare_utf16(key[s[j]], key[i]) = 0 - compare_utf16(key[i], key[s[j]])
    BY <2>2, CompareOrders
  <2> QED BY <2>1, <2>3 DEF NotAfter
<1>5. ASSUME NEW j \in 1..i, k <= j PROVE NotAfter(key, i, s[j])
  <2>1. place # 0 /\ k = place /\ place \in 1..i
    BY <1>1, <1>2, <1>5, <1>position
  <2>2. Later(place)
    BY <1>2, <2>1
  <2>3. key[i] \in File /\ key[s[j]] \in File /\ key[s[place]] \in File
    BY <1>1, <2>1
  <2>4. compare_utf16(key[i], key[s[place]]) <= 0
    <3>1. compare_utf16(key[i], key[s[place]]) \in Int
      BY <2>3, CompareOrders
    <3> QED BY <2>2, <3>1
  <2>5. CASE j = place
    BY <2>4, <2>5 DEF NotAfter
  <2>6. CASE j # place
    <3>1. place < j
      BY <1>1, <1>5, <2>1, <2>6
    <3>2. compare_utf16(key[s[place]], key[s[j]]) <= 0
      BY <1>1, <2>1, <3>1 DEF NotAfter
    <3>3. compare_utf16(key[i], key[s[j]]) <= 0
      BY <2>3, <2>4, <3>2, CompareOrders
    <3> QED BY <3>3 DEF NotAfter
  <2> QED BY <2>5, <2>6
<1> HIDE DEF Later
<1>6. n = i + 1 /\ i \in Nat /\ i = n - 1
  OBVIOUS
<1> HIDE DEF i
<1>7. ASSUME NEW j \in 1..i + 1
      PROVE  \/ j < k /\ j \in 1..i /\ new[j] = s[j]
             \/ j = k /\ new[j] = i
             \/ k < j /\ j - 1 \in 1..i /\ k <= j - 1 /\ new[j] = s[j - 1]
  BY <1>3, <1>6
<1>8. \A j \in 1..i + 1 : new[j] \in 0..i
  BY <1>1, <1>6, <1>7
<1>9. ASSUME NEW v \in 0..i PROVE \E j \in 1..i + 1 : new[j] = v
  <2>1. CASE v = i
    <3>1. new[k] = i
      BY <1>3, <1>6
    <3> QED BY <1>3, <2>1, <3>1
  <2>2. CASE v # i
    <3>1. PICK j \in 1..i : s[j] = v
      <4>1. v \in 0..i - 1
        BY <1>6, <2>2
      <4> QED BY <1>1, <4>1
    <3>2. CASE j < k
      <4>1. j \in 1..i + 1
        BY <1>6
      <4> QED BY <1>3, <3>1, <3>2, <4>1
    <3>3. CASE ~(j < k)
      <4>1. j + 1 \in 1..i + 1 /\ ~(j + 1 < k) /\ j + 1 # k /\ (j + 1) - 1 = j
        BY <1>3, <1>6, <3>3
      <4>2. new[j + 1] = s[j]
        BY <1>3, <4>1
      <4> QED BY <3>1, <4>1, <4>2
    <3> QED BY <3>2, <3>3
  <2> QED BY <2>1, <2>2
<1>10. ASSUME NEW h \in 1..i + 1, NEW j \in 1..i + 1, h < j PROVE NotAfter(key, new[h], new[j])
  <2>1. CASE h < k /\ h \in 1..i /\ new[h] = s[h]
    <3>1. CASE j < k /\ j \in 1..i /\ new[j] = s[j]
      BY <1>1, <1>10, <2>1, <3>1
    <3>2. CASE j = k /\ new[j] = i
      BY <1>4, <2>1, <3>2
    <3>3. CASE k < j /\ j - 1 \in 1..i /\ k <= j - 1 /\ new[j] = s[j - 1]
      <4>1. h < j - 1
        BY <1>3, <1>6, <2>1, <3>3
      <4> QED BY <1>1, <2>1, <3>3, <4>1
    <3> QED BY <1>7, <3>1, <3>2, <3>3
  <2>2. CASE h = k /\ new[h] = i
    <3>1. k < j /\ j - 1 \in 1..i /\ k <= j - 1 /\ new[j] = s[j - 1]
      BY <1>3, <1>6, <1>7, <1>10, <2>2
    <3> QED BY <1>5, <2>2, <3>1
  <2>3. CASE k < h /\ h - 1 \in 1..i /\ k <= h - 1 /\ new[h] = s[h - 1]
    <3>1. k < j /\ j - 1 \in 1..i /\ k <= j - 1 /\ new[j] = s[j - 1]
      BY <1>3, <1>6, <1>7, <1>10, <2>3
    <3>2. h - 1 < j - 1
      BY <1>10
    <3> QED BY <1>1, <2>3, <3>1, <3>2
  <2> QED BY <1>7, <2>1, <2>2, <2>3
<1> QED BY <1>3, <1>6, <1>8, <1>9, <1>10 DEF InOrderUpTo, new

\* What a track is sorted by is a text.
LEMMA SortKeyTyped ==
    ASSUME NEW t \in Mhits, NEW sort
    PROVE  SortKey(t, sort) \in File
<1> DEFINE type == SortText[sort]
           at == TextAt(t.mhods, type)
<1>1. t.mhods \in Seq(Mhods)
  BY DEF Mhits
<1> HIDE DEF type
<1>2. at # 0 => at \in DOMAIN t.mhods
  BY <1>1, TextAtIs
<1>3. SortKey(t, sort) = IF at # 0 THEN t.mhods[at].cells ELSE nullString
  BY DEF SortKey, has_text, type
<1> HIDE DEF at
<1>4. CASE at # 0
  <2>1. t.mhods[at] \in Mhods
    BY <1>1, <1>2, <1>4
  <2>2. t.mhods[at].cells \in File
    BY <2>1 DEF Mhods
  <2> QED BY <1>3, <1>4, <2>2
<1>5. CASE at = 0
  BY <1>3, <1>5 DEF nullString, File
<1> QED BY <1>4, <1>5

\* A sort places the positions one after the other.
SortSteps(g, tracks, sort) ==
    /\ g[0] = <<>>
    /\ \A n \in 1..Len(tracks) : g[n] = Placed(g[n - 1], n - 1, Keys(tracks, sort))
    /\ Sorted(tracks, sort) = g[Len(tracks)]

\* It does, for any tracks and any order.
LEMMA SortWalks ==
    ASSUME NEW tracks \in Seq(Mhits), NEW sort
    PROVE  \E g \in [0..Len(tracks) -> File] : SortSteps(g, tracks, sort)
<1> DEFINE N == Len(tracks)
           key == Keys(tracks, sort)
           step == [n \in 1..N |-> [x \in File |-> Placed(x, n - 1, key)]]
           Body(g) == [n \in 0..N |-> IF n = 0 THEN <<>> ELSE Placed(g[n - 1], n - 1, key)]
           Rec(g) == g = Body(g)
<1>1. N \in Nat
  OBVIOUS
<1> HIDE DEF N, key
<1>2. step \in [1..N -> [File -> File]] /\ <<>> \in File
  <2>1. ASSUME NEW n \in 1..N, NEW x \in File PROVE Placed(x, n - 1, key) \in File
    <3>1. n - 1 \in Int
      BY <1>1
    <3>2. PutIn(Placed(x, n - 1, key), x, n - 1, Position(x, n - 1, key))
      BY <3>1, PlacedIs
    <3> QED BY <3>2 DEF PutIn
  <2>2. <<>> \in File
    BY DEF File
  <2> QED BY <2>1, <2>2
<1>3. PICK g \in [0..N -> File] : Walk(g, N, <<>>, step)
  <2> HIDE DEF step
  <2> QED BY <1>1, <1>2, WalkExists
<1>4. ASSUME NEW n \in 1..N PROVE g[n] = Placed(g[n - 1], n - 1, key)
  <2>1. n - 1 \in 0..N
    BY <1>1
  <2>2. g[n - 1] \in File
    BY <2>1
  <2>3. g[n] = step[n][g[n - 1]]
    BY <1>3 DEF Walk
  <2> QED BY <2>2, <2>3
<1>5. g[0] = <<>>
  BY <1>3 DEF Walk
<1> HIDE DEF step
<1>6. Rec(g)
  <2>1. ASSUME NEW n \in 0..N PROVE g[n] = Body(g)[n]
    <3>1. CASE n = 0
      BY <1>5, <3>1
    <3>2. CASE n # 0
      <4>1. n \in 1..N
        BY <3>2
      <4> QED BY <1>4, <3>2, <4>1
    <3> QED BY <3>1, <3>2
  <2>2. g = [n \in 0..N |-> g[n]]
    OBVIOUS
  <2> QED BY <2>1, <2>2
<1> DEFINE sorted == CHOOSE h : Rec(h)
<1>7. Rec(sorted)
  <2> HIDE DEF Rec
  <2> QED BY <1>6
<1>8. Sorted(tracks, sort) = sorted[N]
  BY DEF Sorted, N, key, Keys
<1> HIDE DEF sorted
<1> DEFINE M == {m \in 0..N : sorted[m] = g[m]}
<1>9. 0 \in M
  BY <1>1, <1>5, <1>7
<1>10. ASSUME NEW m \in 1..N, m - 1 \in M PROVE m \in M
  <2>1. m \in 0..N /\ m # 0
    OBVIOUS
  <2>2. sorted[m] = Body(sorted)[m]
    BY <1>7
  <2>3. sorted[m - 1] = g[m - 1]
    BY <1>10
  <2> QED BY <1>4, <2>1, <2>2, <2>3
<1>11. N \in M
  <2>1. N \in 0..N
    BY <1>1
  <2> HIDE DEF M
  <2>2. \A i \in 1..N : i - 1 \in M => i \in M
    BY <1>10
  <2>3. \A i \in 0..N : i \in M
    BY <1>1, <1>9, <2>2, Induction
  <2> QED BY <2>1, <2>3
<1>12. SortSteps(g, tracks, sort)
  BY <1>4, <1>5, <1>8, <1>11 DEF SortSteps, N, key
<1> QED BY <1>12 DEF N

\* A sort yields every position once, in order.
LEMMA SortedIs ==
    ASSUME NEW tracks \in Seq(Mhits), NEW sort
    PROVE  InOrderUpTo(Sorted(tracks, sort), Len(tracks), Keys(tracks, sort))
<1> DEFINE N == Len(tracks)
           key == Keys(tracks, sort)
<1>1. N \in Nat /\ \A i \in 0..N - 1 : tracks[i + 1] \in Mhits
  <2>1. ASSUME NEW i \in 0..N - 1 PROVE tracks[i + 1] \in Mhits
    <3>1. i + 1 \in 1..N
      OBVIOUS
    <3> QED BY <3>1
  <2> QED BY <2>1
<1>2. key \in [0..N - 1 -> File]
  BY <1>1, SortKeyTyped DEF Keys
<1>3. PICK g \in [0..N -> File] : SortSteps(g, tracks, sort)
  BY SortWalks
<1>4. /\ g[0] = <<>> /\ Sorted(tracks, sort) = g[N]
      /\ \A n \in 1..N : g[n] = Placed(g[n - 1], n - 1, key)
  BY <1>3 DEF SortSteps
<1> HIDE DEF N, key
<1> DEFINE M == {m \in 0..N : InOrderUpTo(g[m], m, key)}
<1>5. 0 \in M
  <2>1. InOrderUpTo(<<>>, 0, key)
    BY DEF InOrderUpTo, File
  <2> QED BY <1>1, <1>4, <2>1
<1>6. ASSUME NEW m \in 1..N, m - 1 \in M PROVE m \in M
  <2>1. InOrderUpTo(g[m - 1], m - 1, key)
    BY <1>6
  <2>2. InOrderUpTo(Placed(g[m - 1], m - 1, key), m, key)
    BY <1>1, <1>2, <2>1, PlacedInOrder
  <2>3. InOrderUpTo(g[m], m, key)
    BY <1>4, <2>2
  <2>4. m \in 0..N
    OBVIOUS
  <2> QED BY <2>3, <2>4
<1>7. N \in M
  <2>1. N \in 0..N
    BY <1>1
  <2> HIDE DEF M
  <2>2. \A i \in 1..N : i - 1 \in M => i \in M
    BY <1>6
  <2>3. \A i \in 0..N : i \in M
    BY <1>1, <1>5, <2>2, Induction
  <2> QED BY <2>1, <2>3
<1> QED BY <1>4, <1>7 DEF N, key

-----------------------------------------------------------------------------
(* Parts of lists                                                          *)

\* h leads along s and t: what is passed in s alone is not in S, and where both
\* are passed, s has an element of S where t has it as one of T.
Along(h, s, S, t, T) ==
    /\ h \in [0..Len(s) -> 0..Len(t)] /\ h[0] = 0 /\ h[Len(s)] = Len(t)
    /\ \A n \in 1..Len(s) :
          \/ h[n] = h[n - 1] /\ s[n] \notin S
          \/ /\ h[n] = h[n - 1] + 1
             /\ s[n] \in S <=> t[h[n]] \in T
             /\ s[n] \in S => s[n] = t[h[n]]

\* Then the two parts are the same.
LEMMA OnlyAlong ==
    ASSUME NEW A, NEW s \in Seq(A), NEW B, NEW t \in Seq(B), NEW S, NEW T, NEW h,
           Along(h, s, S, t, T)
    PROVE  Only(s, S) = Only(t, T)
<1> DEFINE N == Len(s)
           M == Len(t)
<1>1. PICK g \in [0..N -> Seq(A)] : OnlySteps(g, s, S)
  BY OnlyWalks
<1>2. PICK k \in [0..M -> Seq(B)] : OnlySteps(k, t, T)
  BY OnlyWalks
<1>3. N \in Nat /\ M \in Nat
  OBVIOUS
<1>4. /\ g[0] = <<>> /\ Only(s, S) = g[N]
      /\ \A n \in 1..N : g[n] = IF s[n] \in S THEN Append(g[n - 1], s[n]) ELSE g[n - 1]
  BY <1>1 DEF OnlySteps
<1>5. /\ k[0] = <<>> /\ Only(t, T) = k[M]
      /\ \A n \in 1..M : k[n] = IF t[n] \in T THEN Append(k[n - 1], t[n]) ELSE k[n - 1]
  BY <1>2 DEF OnlySteps
<1>6. /\ h \in [0..N -> 0..M] /\ h[0] = 0 /\ h[N] = M
      /\ \A n \in 1..N :
          \/ h[n] = h[n - 1] /\ s[n] \notin S
          \/ /\ h[n] = h[n - 1] + 1
             /\ s[n] \in S <=> t[h[n]] \in T
             /\ s[n] \in S => s[n] = t[h[n]]
  BY DEF Along
<1> HIDE DEF N, M
<1> DEFINE I == {n \in 0..N : g[n] = k[h[n]]}
<1>7. 0 \in I
  BY <1>3, <1>4, <1>5, <1>6
<1>8. ASSUME NEW n \in 1..N, n - 1 \in I PROVE n \in I
  <2>1. n \in 0..N /\ n - 1 \in 0..N
    BY <1>3
  <2>2. h[n] \in 0..M /\ h[n - 1] \in 0..M
    BY <1>6, <2>1
  <2>3. g[n - 1] = k[h[n - 1]]
    BY <1>8
  <2>4. CASE h[n] = h[n - 1] /\ s[n] \notin S
    BY <1>4, <2>1, <2>3, <2>4
  <2>5. CASE /\ h[n] = h[n - 1] + 1 /\ (s[n] \in S <=> t[h[n]] \in T)
             /\ s[n] \in S => s[n] = t[h[n]]
    <3>1. h[n] \in 1..M /\ h[n] - 1 = h[n - 1]
      <4>1. \A a, b \in 0..M : a = b + 1 => a \in 1..M /\ a - 1 = b
        BY <1>3
      <4> QED BY <2>2, <2>5, <4>1
    <3>2. k[h[n]] = IF t[h[n]] \in T THEN Append(k[h[n - 1]], t[h[n]]) ELSE k[h[n - 1]]
      BY <1>5, <3>1
    <3> QED BY <1>4, <2>1, <2>3, <2>5, <3>2
  <2> QED BY <1>6, <2>4, <2>5
<1>9. N \in I
  <2>1. N \in 0..N
    BY <1>3
  <2> HIDE DEF I
  <2>2. \A i \in 1..N : i - 1 \in I => i \in I
    BY <1>8
  <2>3. \A i \in 0..N : i \in I
    BY <1>3, <1>7, <2>2, Induction
  <2> QED BY <2>1, <2>3
<1> QED BY <1>4, <1>5, <1>6, <1>9

\* Elements in place of others.
LEMMA OnlySame ==
    ASSUME NEW A, NEW s \in Seq(A), NEW B, NEW t \in Seq(B), NEW S, NEW T, Len(s) = Len(t),
           \A n \in 1..Len(s) : (s[n] \in S <=> t[n] \in T) /\ (s[n] \in S => s[n] = t[n])
    PROVE  Only(s, S) = Only(t, T)
<1> DEFINE h == [n \in 0..Len(s) |-> n]
<1>1. Len(s) \in Nat
  OBVIOUS
<1>2. Along(h, s, S, t, T)
  BY <1>1 DEF Along
<1> HIDE DEF h
<1> QED BY <1>2, OnlyAlong

\* One element more, which is not in S.
LEMMA OnlyWithout ==
    ASSUME NEW A, NEW s \in Seq(A), NEW B, NEW t \in Seq(B), NEW S, NEW T,
           NEW i \in 1..Len(s), Len(t) = Len(s) - 1, s[i] \notin S,
           \A n \in 1..Len(t) : LET m == IF n < i THEN n ELSE n + 1
                                IN  t[n] = s[m] /\ (s[m] \in S <=> t[n] \in T)
    PROVE  Only(s, S) = Only(t, T)
<1> DEFINE N == Len(s)
           h == [n \in 0..N |-> IF n < i THEN n ELSE n - 1]
<1>1. N \in Nat /\ i \in Nat /\ i >= 1 /\ i <= N /\ Len(t) = N - 1
  OBVIOUS
<1>2. ASSUME NEW n \in 1..Len(t), NEW m, m = IF n < i THEN n ELSE n + 1
      PROVE  t[n] = s[m] /\ (s[m] \in S <=> t[n] \in T)
  BY <1>2
<1> HIDE DEF N
<1>3. h \in [0..N -> 0..N - 1] /\ h[0] = 0 /\ h[N] = N - 1
  BY <1>1
<1>4. ASSUME NEW n \in 1..N
      PROVE  \/ h[n] = h[n - 1] /\ s[n] \notin S
             \/ /\ h[n] = h[n - 1] + 1
                /\ s[n] \in S <=> t[h[n]] \in T
                /\ s[n] \in S => s[n] = t[h[n]]
  <2>1. n - 1 \in 0..N /\ n \in 0..N
    BY <1>1
  <2>2. CASE n < i
    <3>1. h[n] = n /\ h[n - 1] = n - 1 /\ n \in 1..Len(t)
      BY <1>1, <2>1, <2>2
    <3>2. t[n] = s[n] /\ (s[n] \in S <=> t[n] \in T)
      BY <1>2, <2>2, <3>1
    <3> QED BY <3>1, <3>2
  <2>3. CASE n = i
    <3>1. h[n] = n - 1 /\ h[n - 1] = n - 1
      BY <1>1, <2>1, <2>3
    <3> QED BY <2>3, <3>1
  <2>4. CASE n > i
    <3>1. h[n] = n - 1 /\ h[n - 1] = n - 2 /\ n - 1 \in 1..Len(t) /\ (n - 1) + 1 = n /\ ~(n - 1 < i)
      BY <1>1, <2>1, <2>4
    <3>2. t[n - 1] = s[n] /\ (s[n] \in S <=> t[n - 1] \in T)
      BY <1>2, <3>1
    <3> QED BY <3>1, <3>2
  <2> QED BY <1>1, <2>2, <2>3, <2>4
<1>5. Along(h, s, S, t, T)
  <2> HIDE DEF h
  <2> QED BY <1>1, <1>3, <1>4 DEF Along, N
<1> HIDE DEF h
<1> QED BY <1>5, OnlyAlong

=============================================================================
