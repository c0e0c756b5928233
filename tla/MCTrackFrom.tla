---------------------------- MODULE MCTrackFrom ----------------------------
(***************************************************************************)
(* Files put together from what their formats say, and what they should    *)
(* give.                                                                   *)
(***************************************************************************)
EXTENDS MpegFiles

Fill(n, b) == [i \in 1 .. n |-> b]
Padded(s, n) == s \o Fill(n - Len(s), 0)
Short(n) == <<n \div 256, n % 256>>
Long(n) == <<n \div 16777216, (n \div 65536) % 256, (n \div 256) % 256, n % 256>>
SyncSafe(n) == <<n \div 2097152, (n \div 16384) % 128, (n \div 128) % 128, n % 128>>
Swapped(s) == [i \in DOMAIN s |-> IF i % 2 = 1 THEN s[i + 1] ELSE s[i - 1]]

\* Texts: with a letter of each length in UTF-8, one that is 255 in ISO 8859, and
\* one with the letters ID3.
Song == <<83, 233, 8364>>
Latin == <<255, 73>>
Tricky == <<73, 68, 73, 68, 51>>
OldTitle == <<73, 68, 120>>
Utf16(units) == FlattenSeq([i \in DOMAIN units |-> Short(units[i])])
Utf8(units) == FlattenSeq([i \in DOMAIN units |->
    LET u == units[i]
    IN  IF u < 128 THEN <<u>>
        ELSE IF u < 2048 THEN <<192 + u \div 64, 128 + (u % 64)>>
        ELSE <<224 + u \div 4096, 128 + ((u \div 64) % 64), 128 + (u % 64)>>])

-----------------------------------------------------------------------------
\* A frame is [version, layer, index, kbps, rate, hz, padding].
SamplesOf(x) == IF x.layer = 3 THEN 384 ELSE IF x.layer = 1 /\ x.version # 3 THEN 576 ELSE 1152
Size(x) == IF x.layer = 3 THEN ((12000 * x.kbps) \div x.hz + x.padding) * 4
                          ELSE ((SamplesOf(x) \div 8) * 1000 * x.kbps) \div x.hz + x.padding
Frame(x) == <<255, 224 + 8 * x.version + 2 * x.layer + 1, 16 * x.index + 4 * x.rate + 2 * x.padding, 0>>
                \o Fill(Size(x) - 4, 255)

\* Sound is a sequence of runs, each of n equal frames.
Run(x, n) == [frame |-> x, n |-> n]
Repeat(s, n) == [i \in 1 .. n * Len(s) |-> s[((i - 1) % Len(s)) + 1]]
Sound(runs) == FlattenSeq([i \in DOMAIN runs |-> Repeat(Frame(runs[i].frame), runs[i].n)])
Total(op(_), runs) == FoldLeft(LAMBDA sum, run : sum + run.n * op(run.frame), 0, runs)
Counts(runs, size) ==
    LET hz == runs[1].frame.hz
    IN  [size |-> size, sample_rate |-> hz,
         bit_rate |-> Total(LAMBDA x : x.kbps, runs) \div Total(LAMBDA x : 1, runs),
         duration |-> (Total(SamplesOf, runs) \div hz) * 1000,
         vbr |-> IF \A i \in DOMAIN runs : runs[i].frame.kbps = runs[1].frame.kbps THEN 256 ELSE 257]

Mpeg1(index, kbps) == [version |-> 3, layer |-> 1, index |-> index, kbps |-> kbps, rate |-> 1, hz |-> 48000, padding |-> 0]
Mpeg2(padding) == [version |-> 2, layer |-> 2, index |-> 1, kbps |-> 8, rate |-> 1, hz |-> 24000, padding |-> padding]
Mpeg25 == [version |-> 0, layer |-> 1, index |-> 1, kbps |-> 8, rate |-> 2, hz |-> 8000, padding |-> 0]
LayerI == [version |-> 3, layer |-> 3, index |-> 1, kbps |-> 32, rate |-> 1, hz |-> 48000, padding |-> 0]

\* Tags.
Text2(id, encoding, data) == id \o (CASE Len(id) = 3 -> Tail(Long(Len(data) + 1)) [] OTHER -> Long(Len(data) + 1) \o <<0, 0>>)
                                \o <<encoding>> \o data
Tags2(version, flags, contents) == <<73, 68, 51, version, 0, flags>> \o SyncSafe(Len(contents)) \o contents
Tags1(title, track_number, genre) ==
    TAG \o Padded(title, 30) \o Padded(Latin, 30) \o Padded(<<65>>, 30) \o <<49, 57, 57, 56>>
        \o Padded(<<67>>, 28) \o <<0, track_number, genre>>

Mp3File(name, data, runs, tags) ==
    [path |-> <<"music", "/", name, ".mp3">>, bytes |-> data, sound |-> TRUE, tags |-> tags,
     counts |-> Counts(runs, Len(data))]

Id3v2_3 ==
    Tags2(3, 0, Text2(<<84, 73, 84, 50>>, 1, <<255, 254>> \o Swapped(Utf16(Song)))
             \o Text2(<<84, 80, 69, 49>>, 0, Latin)
             \o Text2(<<88, 88, 88, 88>>, 255, <<255, 251>>)
             \o Text2(<<84, 67, 79, 78>>, 0, <<40, 49, 55, 41>>)
             \o Text2(<<84, 82, 67, 75>>, 0, <<51, 47, 49, 50>>)
             \o Text2(<<84, 89, 69, 82>>, 0, <<49, 57, 57, 57>>) \o Fill(200, 0))
VariableFrames == <<Run(Mpeg1(1, 32), 6), Run(Mpeg1(2, 40), 2), Run(Mpeg1(1, 32), 34)>>
Variable ==
    Mp3File("variable", Id3v2_3 \o <<73, 73, 68, 73, 0>> \o Sound(VariableFrames) \o Tags1(OldTitle, 0, 17),
            VariableFrames,
            [title |-> Song, artist |-> Latin, album |-> <<65>>, comment |-> <<67>>, year |-> 1999,
             genre |-> genre_name(17), track_number |-> 3, track_count |-> 12])

PaddedFrames == <<Run(Mpeg2(0), 10), Run(Mpeg2(1), 11)>>
Id3v2_2 ==
    Tags2(2, 0, Text2(<<84, 84, 50>>, 1, <<254, 255>> \o Utf16(Song)) \o Text2(<<84, 65, 76>>, 0, Tricky))
WithPadding ==
    Mp3File("padding", Id3v2_2 \o Sound(PaddedFrames), PaddedFrames, [title |-> Song, album |-> Tricky])

Halves == <<Run(Mpeg25, 14)>>
Id3v2_4 ==
    Tags2(4, 64, SyncSafe(6) \o <<1, 0>> \o Text2(<<84, 67, 79, 77>>, 2, Utf16(Song))
                   \o Text2(<<84, 65, 76, 66>>, 3, Utf8(Song)) \o Text2(<<84, 80, 79, 83>>, 3, <<50>>))
\* Its ID3v1 has the genre 17, for which the program takes the byte before it, 0; its
\* "tags" leave the genre out.  Every other frame is skipped and the rest count double.
HalfFrames ==
    Mp3File("half", Id3v2_4 \o Sound(Halves) \o Tags1(OldTitle, 0, 17), Halves,
            [title |-> OldTitle, artist |-> Latin, composer |-> Song, album |-> Song, disc_number |-> 2, year |-> 1998])

OldFrames == <<Run(LayerI, 126)>>
Untagged == Mp3File("old", Sound(OldFrames), OldFrames, <<>>)

\* Two files that are not in the run, as they have bytes for what others there show:
\* frames with tags of version 2.3 before them and of 2.4, the first ones with an
\* extended header, between and behind them, of which the later ones count; and frames
\* of layer I between tags of version 2.2 and ID3v1, that tell different titles.
MoreFrames == <<Run(Mpeg1(2, 40), 2)>>
Latest ==
    Mp3File("latest", Id3v2_3 \o <<73, 73, 68, 73, 0>> \o Sound(VariableFrames) \o Id3v2_4 \o Sound(MoreFrames)
                         \o Tags2(4, 0, Text2(<<84, 73, 84, 50>>, 3, Utf8(Tricky)) \o Text2(<<84, 80, 79, 83>>, 0, <<51, 47, 57>>)),
            VariableFrames \o MoreFrames,
            [title |-> Tricky, artist |-> Latin, composer |-> Song, album |-> Song, year |-> 1999,
             genre |-> genre_name(17), track_number |-> 3, track_count |-> 12, disc_number |-> 3, disc_count |-> 9])
FewFrames == <<Run(LayerI, 2)>>
Both ==
    Mp3File("both", Tags2(2, 0, Text2(<<84, 84, 50>>, 0, Tricky)) \o Sound(FewFrames) \o Tags1(OldTitle, 0, 17),
            FewFrames, [title |-> Tricky, artist |-> Latin, album |-> <<65>>, comment |-> <<67>>, year |-> 1998])

\* Files like these are what the theorems about mp3 files are about: their counts, of the
\* frames they were put together from, are those of the frames found in them, and their
\* tags what the frames of tags found in them tell.
Cuts(s) ==
    LET next(p) == IF FrameBegins(s, p)
                   THEN p + frame_length(Layer(s, p), BitRate(s, p), SampleRate(s, p), Padding(s, p))
                   ELSE IF p + 10 <= Len(s) /\ SubSeq(s, p + 1, p + 3) = <<73, 68, 51>>
                   THEN p + 10 + number(SubSeq(s, p + 7, p + 10), 128)
                   ELSE p + 1
        \* As many as 2^k more, in halves, so that hundreds of them nest nine deep.
        more[k \in 0 .. 9, cuts \in Seq(Nat)] ==
            IF Last(cuts) = Len(s) THEN cuts
            ELSE IF k = 0 THEN Append(cuts, next(Last(cuts)))
            ELSE more[k - 1, more[k - 1, cuts]]
    IN  more[9, <<0>>]
PlacesOf(s, p, e) ==
    LET version == s[p + 4]
        places[q \in p .. e] ==
            {q} \cup IF q = e \/ IsPadding(s, version, q) THEN {} ELSE places[FrameEnd(s, version, q)]
    IN  places[FramesFrom(s, p)]
IsMpegOf(f, frame) ==
    LET cuts == Cuts(f.bytes)
        n == Len(cuts) - 1
        cut == [k \in 0 .. n |-> cuts[k + 1]]
        places == UNION {PlacesOf(f.bytes, cut[k], cut[k + 1]) :
                            k \in {i \in 0 .. n - 1 : IsTags(f.bytes, cut[i], cut[i + 1])}}
    IN  IsMpeg(f, cut, n, frame.version, frame.layer, frame.hz) /\ IsTagged(f, cut, n, places)

ASSUME MpegAssumption ==
    IsMpegOf(WithPadding, Mpeg2(0)) /\ IsMpegOf(Latest, Mpeg1(1, 32)) /\ IsMpegOf(Both, LayerI)

-----------------------------------------------------------------------------
Atom(tag, contents) == Long(Len(contents) + 8) \o tag \o contents
Other == <<102, 114, 101, 101>>
TagOf(name) == CHOOSE tag \in DOMAIN Tags : Tags[tag] = name
Node(name, contents) == Atom(TagOf(name), contents)
TextItem(name, units) ==
    Atom(CHOOSE tag \in DOMAIN TextTags : TextTags[tag] = name, Atom(DATA, Long(1) \o Long(0) \o Utf8(units)))
NumberItem(name, data) ==
    Atom(CHOOSE tag \in DOMAIN NumberTags : NumberTags[tag] = name, Atom(DATA, Long(0) \o Long(0) \o data))

Mvhd(scale, units) == Node("mvhd", Long(0) \o Long(11) \o Long(12) \o Long(scale) \o Long(units) \o Fill(80, 0))
Stsd(hz) == Node("stsd", Long(0) \o Long(1) \o Long(36) \o <<109, 112, 52, 97>> \o Fill(16, 0)
                            \o Short(2) \o Short(16) \o Short(0) \o Short(0) \o Short(hz) \o Short(0))
Trak(hz) == Node("trak", Atom(Other, Fill(9, 1)) \o Node("mdia", Atom(Other, <<>>) \o
                Node("minf", Node("stbl", Stsd(hz) \o Atom(Other, <<1, 2>>)) \o Atom(Other, <<>>))))
Udta(items) == Node("udta", Node("meta", Long(0) \o Atom(Other, <<7>>) \o Node("ilst", items) \o Atom(Other, <<>>)))
Items == TextItem("title", Song) \o Atom(Other, Atom(Other, <<5>>)) \o TextItem("artist", Latin)
            \o NumberItem("trkn", Short(0) \o Short(3) \o Short(12) \o Short(0))
            \o NumberItem("cpil", <<1>>) \o TextItem("genre", Tricky)

M4aFile(name, data, duration, size) ==
    [path |-> <<"/", name, ".m4a">>, bytes |-> data, sound |-> TRUE,
     tags |-> [title |-> Song, artist |-> Latin, genre |-> Tricky, track_number |-> 3, track_count |-> 12,
               compilation |-> TRUE],
     counts |-> [size |-> Len(data), duration |-> duration, sample_rate |-> 44100,
                 bit_rate |-> (size * 1000) \div (duration * 128)]]
MoovFirst ==
    M4aFile("first", Atom(Other, <<1>>) \o Node("moov", Mvhd(600, 990) \o Trak(44100) \o Udta(Items) \o Atom(Other, <<>>))
                       \o Node("mdat", Fill(2000, 255)) \o Atom(Other, <<>>), 1650, 2000)
MoovLast ==
    M4aFile("last", Node("mdat", Fill(1000, 73)) \o Node("mdat", Fill(1100, 73))
                       \o Node("moov", Mvhd(600, 990) \o Udta(Items) \o Trak(44100)), 1650, 2100)

-----------------------------------------------------------------------------
Rough(file_path, data) ==
    [path |-> file_path, bytes |-> data, sound |-> FALSE, tags |-> <<>>, counts |-> <<>>]
MP3 == <<"a", ".mp3">>

SomeFiles ==
    <<Variable, WithPadding, HalfFrames, Untagged, MoovFirst, MoovLast,
      Rough(MP3, <<73, 68>>),                                   \* no frame, and ends within ID3
      Rough(<<"a.b", "/", "a">>, Tags1(<<>>, 200, 0)),            \* no frame, no such genre
      Rough(<<"a", ".b", "/", "a">>, <<>>),                       \* no known extension
      Rough(<<"a", ".wav">>, <<>>),
      Rough(MP3, Tags2(5, 0, <<1>>) \o Frame(Mpeg2(0)) \o <<73, 68, 51, 3>>),
      Rough(MP3, Tags2(3, 0, Text2(<<84, 73, 84, 50>>, 9, <<65>>)) \o Frame(Mpeg2(0))),
      Rough(MP3, Tags2(3, 0, Text2(<<84, 67, 79, 78>>, 0, <<40, 49, 52, 56, 41>>)) \o Frame(Mpeg2(0)) \o <<255>>),
      Rough(MP3, Tags2(3, 0, Text2(<<84, 89, 69, 82>>, 0, <<57, 200>>)
                                 \o Text2(<<84, 82, 67, 75>>, 0, <<9, 45, 51, 47, 43, 52>>))
                     \o Frame(Mpeg2(0)) \o <<255, 224, 16, 0, 7>>),
      Rough(MP3, Frame(Mpeg2(0)) \o <<255, 232, 16, 0>>),         \* the reserved version
      Rough(<<"a", ".m4a">>, Node("moov", Mvhd(0, 5))),
      Rough(<<"a", ".m4a">>, Node("moov", Udta(NumberItem("gnre", Short(148)) \o NumberItem("day", Short(9))
                                            \o NumberItem("disk", Long(1) \o Short(2)) \o NumberItem("rtng", <<1>>)))),
      Rough(<<"a", ".m4a">>, <<0, 0, 0>>)>>
=============================================================================
