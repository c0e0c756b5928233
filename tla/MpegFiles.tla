----------------------------- MODULE MpegFiles -----------------------------
(***************************************************************************)
(* What an mp3 file of sound is made of: frames, tags and other bytes, one *)
(* behind the other.  This is said of the file alone; that the scan of     *)
(* Mp3, which knows only the byte before it, finds the same is proved in   *)
(* TrackFromProofs.                                                        *)
(***************************************************************************)
EXTENDS TrackFrom, FiniteSets

-----------------------------------------------------------------------------
(* A frame of sound                                                        *)

FrameBegins(s, p) == p + 2 <= Len(s) /\ s[p + 1] = 255 /\ s[p + 2] >= 224

Version(s, p) == (s[p + 2] \div 8) % 4
Layer(s, p) == (s[p + 2] \div 2) % 4
HasNoCrc(s, p) == s[p + 2] % 2 = 1
RateIndex(s, p) == s[p + 3] \div 16
SampleRate(s, p) == sample_rates[Version(s, p) + 1][((s[p + 3] \div 4) % 4) + 1]
Padding(s, p) == (s[p + 3] \div 2) % 2
BitRate(s, p) == bit_rate(Version(s, p), Layer(s, p), RateIndex(s, p), 0)

\* A frame from p to e.
IsFrame(s, p, e) ==
    /\ FrameBegins(s, p) /\ HasNoCrc(s, p)
    /\ SampleRate(s, p) > 0
    /\ p + 4 <= e
    /\ e = p + frame_length(Layer(s, p), BitRate(s, p), SampleRate(s, p), Padding(s, p))

\* ID3v2 tags of any version and with anything in them.
IsTags(s, p, e) ==
    /\ p + 10 <= Len(s) /\ s[p + 1] = 73 /\ s[p + 2] = 68 /\ s[p + 3] = 51
    /\ e = p + 10 + number(SubSeq(s, p + 7, p + 10), 128)

\* A byte of neither: a 255 or an I (73) is told from the beginning of a frame
\* or of tags by what follows, and an I is not right before a frame.
IsOther(s, p, e) ==
    /\ e = p + 1
    /\ \/ s[p + 1] \notin {73, 255}
       \/ s[p + 1] = 255 /\ p + 2 <= Len(s) /\ s[p + 2] < 224
       \/ /\ s[p + 1] = 73 /\ p + 2 <= Len(s) /\ s[p + 2] # 255
          /\ s[p + 2] = 68 => p + 3 <= Len(s) /\ s[p + 3] # 51

-----------------------------------------------------------------------------
(* A file                                                                  *)

\* The parts of a file: "cut" says where each ends and the next begins.  All
\* frames have the version, the layer and the sample rate of the first.
IsLayout(s, cut, n) ==
    /\ n \in Nat /\ cut \in [0 .. n -> Nat] /\ cut[0] = 0 /\ cut[n] = Len(s)
    /\ \A j, k \in 0 .. n : j < k => cut[j] < cut[k]
    /\ \A k \in 0 .. n - 1 : \/ IsFrame(s, cut[k], cut[k + 1])
                             \/ IsTags(s, cut[k], cut[k + 1])
                             \/ IsOther(s, cut[k], cut[k + 1])

\* The frames among the first m parts.
Frames(s, cut, m) == {k \in 0 .. m - 1 : FrameBegins(s, cut[k])}

Alike(s, cut, n, version, layer, hz) ==
    \A k \in Frames(s, cut, n) :
        Version(s, cut[k]) = version /\ Layer(s, cut[k]) = layer /\ SampleRate(s, cut[k]) = hz

\* The bit rate of each part; what is no frame has 0.
Rates(s, cut, n) ==
    [k \in 0 .. n - 1 |-> IF FrameBegins(s, cut[k]) THEN BitRate(s, cut[k]) ELSE 0]

Samples(layer) == IF layer = LAYER_1 THEN 384 ELSE 1152

\* Size, rates, duration and whether the bit rate varies.
FrameCounts(s, cut, n, layer, hz) ==
    LET frames == Frames(s, cut, n)
    IN  [size |-> Len(s), sample_rate |-> hz,
         bit_rate |-> sum_of(Rates(s, cut, n), n) \div Cardinality(frames),
         duration |-> ((Cardinality(frames) * Samples(layer)) \div hz) * 1000,
         vbr |-> IF \A j, k \in frames : RateIndex(s, cut[j]) = RateIndex(s, cut[k])
                 THEN 256 ELSE 257]

\* An mp3 file whose "counts" are those of the frames it is made of.  The reserved
\* version and layer are none, nor are frames of 576 samples.
IsMpeg(f, cut, n, version, layer, hz) ==
    /\ IsLayout(f.bytes, cut, n)
    /\ Alike(f.bytes, cut, n, version, layer, hz)
    /\ version \in {0, 2, 3} /\ layer \in 1 .. 3 /\ (layer = 1 => version = 3)
    /\ f.counts = FrameCounts(f.bytes, cut, n, layer, hz)

IsMpegFile(f) == \E cut, n, version, layer, hz : IsMpeg(f, cut, n, version, layer, hz)

-----------------------------------------------------------------------------
(* What tags say                                                           *)

\* The contents s of a frame of ID3v2: an encoding, and text in it up to a zero, as
\* units or, in UTF-8, as bytes.
HasText(s) ==
    /\ s # <<>> /\ s[1] \in 0 .. 3
    /\ s[1] = 1 => Len(s) >= 3 /\ SubSeq(s, 2, 3) \in {<<254, 255>>, <<255, 254>>}
Written(s) ==
    CASE s[1] = 1 -> pairs(SubSeq(s, 4, Len(s)), s[2] = 254)
      [] s[1] = 2 -> pairs(Tail(s), TRUE)
      [] OTHER -> Tail(s)
Letters(s) == c_string(Written(s))
Encodes(s, units) ==
    IF s[1] = 3 THEN units \in Seq(Unit \ {0}) /\ Letters(s) = utf16_to_utf8[units]
                ELSE units = Letters(s)

\* The letters i to j of t, and no more, are a number, which fits into an int.
Value(t, i, j) == number([k \in 1 .. j - i + 1 |-> t[i + k - 1] - 48], 10)
IsNumber(t, i, j) ==
    /\ j \in DOMAIN t /\ i <= j /\ \A k \in i .. j : t[k] \in 48 .. 57
    /\ j < Len(t) => t[j + 1] \notin 48 .. 57
    /\ Value(t, i, j) < Word \div 2
NumberIn(t, i, j, v) == IsNumber(t, i, j) /\ v = Value(t, i, j)

\* "1999", "(17)" with anything behind it, "3" or "3/12".
IsYear(t, v) == Len(t) = 4 /\ NumberIn(t, 1, 4, v)
IsGenre(t, v) == t # <<>> /\ t[1] = 40 /\ \E j \in 2 .. Len(t) : NumberIn(t, 2, j, v)
IsFirst(t, v) == \E j \in DOMAIN t : NumberIn(t, 1, j, v)
IsSecond(t, v) ==
    \E j \in 2 .. Len(t) - 1 : /\ IsNumber(t, 1, j - 1) /\ t[j] = 47
                             /\ \E i \in DOMAIN t : NumberIn(t, j + 1, i, v)

\* A frame about something, with the contents s, tells the value v of name.
Tells(about, s, name, v) ==
    LET t == Letters(s)
    IN  \/ about \in TextKinds /\ name = about /\ Encodes(s, v)
        \/ /\ \A i \in DOMAIN t : t[i] < 128
           /\ \/ about = "year" /\ name = "year" /\ IsYear(t, v)
              \/ /\ about = "genre" /\ name = "genre"
                 /\ \E j \in Genres : IsGenre(t, j) /\ v = genre_name(j)
              \/ about = "track" /\ name = "track_number" /\ IsFirst(t, v)
              \/ about = "track" /\ name = "track_count" /\ IsSecond(t, v)
              \/ about = "disc" /\ name = "disc_number" /\ IsFirst(t, v)
              \/ about = "disc" /\ name = "disc_count" /\ IsSecond(t, v)

\* The names it is about.
Names(about) ==
    CASE about = "track" -> {"track_number", "track_count"}
      [] about = "disc" -> {"disc_number", "disc_count"}
      [] about = "unknown" -> {}
      [] OTHER -> {about}

\* Frames that the program does not know may have anything in them.
IsReadable(about, s) ==
    about # "unknown" =>
        /\ HasText(s)
        /\ about = "genre" => /\ \A i \in DOMAIN Letters(s) : Letters(s)[i] < 128
                             /\ \E j \in Genres : IsGenre(Letters(s), j)

\* ID3v1, at the end of the file, tells the value v of name.  Its track number and its
\* genre are not read where they are.
HasId3v1(s) == Len(s) >= 128 /\ SubSeq(s, Len(s) - 127, Len(s) - 125) = TAG
Field(s, from, size) == SubSeq(s, Len(s) - 127 + from, Len(s) - 128 + from + size)
TellsAtEnd(s, name, v) ==
    \/ name = "title" /\ v = c_string(Field(s, 3, 30))
    \/ name = "artist" /\ v = c_string(Field(s, 33, 30))
    \/ name = "album" /\ v = c_string(Field(s, 63, 30))
    \/ name = "comment" /\ v = c_string(Field(s, 97, 28)) /\ s[Len(s) - 2] = 0
    \/ name = "year" /\ IsYear(Field(s, 93, 4), v)

-----------------------------------------------------------------------------
(* Where the tags are                                                      *)

\* A frame at q in tags of a version.
About(s, version, q) == frame_kind(SubSeq(s, q + 1, q + id_length(version)))
TextFrom(version, q) == q + header_length(version)
FrameEnd(s, version, q) ==
    TextFrom(version, q) + CASE version = 2 -> number(SubSeq(s, q + 4, q + 6), 256)
                             [] version = 3 -> number(SubSeq(s, q + 5, q + 8), 256)
                             [] OTHER -> number(SubSeq(s, q + 5, q + 8), 128)
Contents(s, version, q) == SubSeq(s, TextFrom(version, q) + 1, FrameEnd(s, version, q))
IsPadding(s, version, q) ==
    q + id_length(version) <= Len(s) /\ \A i \in 1 .. id_length(version) : s[q + i] = 0

\* Where the frames of the tags at p begin, behind the header and an extended one, whose
\* size, seven bits a byte, counts from its own beginning: so it is from version 4 on.
HasExtended(s, p) == (s[p + 6] \div 64) % 2 = 1
FramesFrom(s, p) ==
    IF HasExtended(s, p) THEN p + 10 + number(SubSeq(s, p + 11, p + 14), 128) ELSE p + 10

\* From p to e, tags have frames at the places that are in "places", one behind the
\* other, until they end or have padding.  What the program does not read is not in them:
\* the extended header of version 3, which has its size in another form, and
\* unsynchronisation, compression or encryption, of all the tags or of a frame.
FramesAt(s, p, e, places) ==
    LET version == s[p + 4]
        here == {q \in places : p < q /\ q <= e}
    IN  version \in 2 .. 4 =>
            /\ s[p + 6] < 128 /\ (HasExtended(s, p) => version = 4 /\ p + 14 <= Len(s))
            /\ FramesFrom(s, p) \in here
            /\ \A q \in here :
                  /\ FramesFrom(s, p) <= q
                  /\ IF q = e \/ IsPadding(s, version, q) THEN \A r \in here : r <= q
                     ELSE /\ TextFrom(version, q) <= e /\ FrameEnd(s, version, q) \in here
                          /\ \A r \in here : q < r => FrameEnd(s, version, q) <= r
                          /\ IsReadable(About(s, version, q), Contents(s, version, q))
                          /\ version > 2 /\ About(s, version, q) # "unknown" => s[q + 10] = 0

\* Part k is tags with a frame at q.
IsTagFrame(s, cut, k, q) ==
    LET version == s[cut[k] + 4]
    IN  /\ IsTags(s, cut[k], cut[k + 1]) /\ version \in 2 .. 4
        /\ cut[k] < q /\ q < cut[k + 1] /\ ~IsPadding(s, version, q)

\* The last to tell something of name is the frame at "last", or ID3v1 for 0.
IsLast(s, cut, n, places, last, name, v) ==
    /\ IF last = 0 THEN HasId3v1(s) /\ TellsAtEnd(s, name, v)
       ELSE \E k \in 0 .. n - 1 :
               LET version == s[cut[k] + 4]
               IN  /\ IsTagFrame(s, cut, k, last)
                   /\ Tells(About(s, version, last), Contents(s, version, last), name, v)
    /\ \A k \in 0 .. n - 1, q \in places :
          q > last /\ IsTagFrame(s, cut, k, q) => name \notin Names(About(s, s[cut[k] + 4], q))

SoundNames == {"size", "bit_rate", "sample_rate", "duration", "vbr", "filetype"}

\* An mp3 file with sound whose "tags" are what its tags tell.  The byte before the
\* genre in ID3v1 must be one of a genre.
IsTagged(f, cut, n, places) ==
    /\ Len(f.bytes) >= 128 /\ Frames(f.bytes, cut, n) # {}
    /\ HasId3v1(f.bytes) => f.bytes[Len(f.bytes) - 1] \in Genres
    /\ places \subseteq Nat
    /\ \A k \in 0 .. n - 1 : IsTags(f.bytes, cut[k], cut[k + 1]) =>
                                FramesAt(f.bytes, cut[k], cut[k + 1], places)
    /\ \A name \in DOMAIN f.tags :
          /\ name \notin SoundNames
          /\ \E last \in places \cup {0} : IsLast(f.bytes, cut, n, places, last, name, f.tags[name])

IsTaggedFile(f) ==
    \E cut, n, version, layer, hz, places :
        IsMpeg(f, cut, n, version, layer, hz) /\ IsTagged(f, cut, n, places)
=============================================================================
