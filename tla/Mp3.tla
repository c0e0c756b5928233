-------------------------------- MODULE Mp3 --------------------------------
(***************************************************************************)
(* ipod_track_from_mp3.c: the tags at the end of the file, then a scan of  *)
(* all its bytes for frames of sound and for tags.                         *)
(***************************************************************************)
EXTENDS AudioFile

byte(k, junk) == getub(bytes, at + k, junk)
read(n) == tell(bytes, at, n)

-----------------------------------------------------------------------------
(* ID3v1                                                                   *)

TAG == <<84, 65, 71>>

\* An attribute is a uint32_t, also if an int below 0 is set.
uint32(n) == IF n < 0 THEN n + Word ELSE n

digits(s) == uint32(number([i \in 1 .. 4 |-> s[i] - 48], 10))

\* ipod_mp3_scan_id3v1_text(): a byte is a unit.
id3v1_text(from, n, junk) == text(utf8_from_utf16[bytes_at(bytes, from, n, junk)], junk)

id3v1_values(from, genre, junk) ==
    LET year == bytes_at(bytes, from + 93, 4, junk)
    IN  over([title |-> id3v1_text(from + 3, 30, junk),
              artist |-> id3v1_text(from + 33, 30, junk),
              album |-> id3v1_text(from + 63, 30, junk),
              comment |-> id3v1_text(from + 97, 28, junk),
              track_number |-> getub(bytes, from + 125, junk),
              genre |-> genre],
             IF year = <<0, 0, 0, 0>> THEN <<>> ELSE [year |-> digits(year)])

ipod_mp3_scan_id3v1 ==
    /\ pc = "id3v1"
    /\ \E junk \in Junk :
          LET from == seek(at, Len(bytes) - 128)
              genre == getub(bytes, from + 126, junk)
          IN  IF bytes_at(bytes, from, 3, junk) # TAG
              THEN at' = 0 /\ pc' = "sync" /\ UNCHANGED <<file, track, mp3, m4a>>
              ELSE \/ genre \notin Genres /\ fault
                   \/ /\ \E name \in music_genres(genre) : set(id3v1_values(from, name, junk))
                      /\ at' = 0 /\ pc' = "sync"
                      /\ UNCHANGED <<file, mp3, m4a>>

-----------------------------------------------------------------------------
(* ID3v2                                                                   *)

\* What a frame is about, by the identification of version 2 or of later ones: a
\* number, so a zero before it makes no difference.
frame_kind(id) ==
    LET letters == IF id[1] = 0 THEN Tail(id) ELSE id
    IN  CASE letters \in {<<84, 84, 50>>, <<84, 73, 84, 50>>} -> "title"
          [] letters \in {<<84, 80, 49>>, <<84, 80, 69, 49>>} -> "artist"
          [] letters \in {<<84, 65, 76>>, <<84, 65, 76, 66>>} -> "album"
          [] letters \in {<<84, 67, 77>>, <<84, 67, 79, 77>>} -> "composer"
          [] letters \in {<<84, 89, 69>>, <<84, 89, 69, 82>>} -> "year"
          [] letters \in {<<84, 67, 79>>, <<84, 67, 79, 78>>} -> "genre"
          [] letters \in {<<84, 82, 75>>, <<84, 82, 67, 75>>} -> "track"
          [] letters \in {<<84, 80, 65>>, <<84, 80, 79, 83>>} -> "disc"
          [] OTHER -> "unknown"
TextKinds == {"title", "artist", "album", "composer"}

\* The two bytes of each unit, the first one the higher or the lower.
pairs(s, high_first) ==
    [i \in 1 .. Len(s) \div 2 |->
        IF high_first THEN 256 * s[2 * i - 1] + s[2 * i] ELSE 256 * s[2 * i] + s[2 * i - 1]]

\* Is there a text?  No pointer comes of an unknown encoding, and none of a size that
\* does not hold what it must.
has_text(from, size, junk) ==
    LET encoding == getub(bytes, from, junk)
    IN  size > 0 /\ encoding \in 0 .. 3 /\ (encoding = 1 => size > 2)

\* Mutant: the byte order mark is not looked at.
id3v2_text_no_bom(from, size, junk) ==
    LET s == bytes_at(bytes, from, size, junk)
    IN  CASE s[1] = 0 -> utf8_from_utf16[Tail(s)]
          [] s[1] = 1 -> utf8_from_utf16[pairs(SubSeq(s, 4, size), TRUE)]
          [] s[1] = 2 -> utf8_from_utf16[pairs(Tail(s), TRUE)]
          [] s[1] = 3 -> c_string(Tail(s))

\* ipod_mp3_scan_id3v2_text(): the text in UTF-8.
id3v2_text(from, size, junk) ==
    LET s == bytes_at(bytes, from, size, junk)
    IN  CASE s[1] = 0 -> utf8_from_utf16[Tail(s)]
          [] s[1] = 1 -> utf8_from_utf16[pairs(SubSeq(s, 4, size), s[2] = 254)]
          [] s[1] = 2 -> utf8_from_utf16[pairs(Tail(s), TRUE)]
          [] s[1] = 3 -> c_string(Tail(s))

\* The end of what stands at position i of some letters.
past(s, i, some) ==
    CHOOSE j \in i .. Len(s) + 1 :
        /\ \A k \in i .. j - 1 : s[k] \in some
        /\ j \in DOMAIN s => s[j] \notin some

\* sscanf() with "%d", "(%d)" and "%d/%d": from position i on, blanks, a sign, and
\* digits.  A number that does not fit into an int, which is undefined, is left out.
digits_from(s, i) ==
    LET sign == past(s, i, {32} \cup 9 .. 13)
    IN  IF sign \in DOMAIN s /\ s[sign] \in {43, 45} THEN sign + 1 ELSE sign
digits_at(s, i) ==
    LET from == digits_from(s, i)
    IN  [k \in 1 .. past(s, from, 48 .. 57) - from |-> s[from + k - 1] - 48]
number_at(s, i) ==
    LET from == digits_from(s, i)
        value == number(digits_at(s, i), 10)
    IN  IF from > i /\ s[from - 1] = 45 THEN -value ELSE value
number_in_parentheses(s) == IF s # <<>> /\ s[1] = 40 THEN number_at(s, 2) ELSE 0
number_after_slash(s) ==
    LET length == Len(digits_at(s, 1))
        slash == digits_from(s, 1) + length
    IN  IF length > 0 /\ slash \in DOMAIN s /\ s[slash] = 47 THEN number_at(s, slash + 1) ELSE 0

\* Four letters, of type char, which is signed, are taken for the year; what is behind
\* a shorter text is junk.
year_of(s, junk) ==
    LET letter(i) == IF i \in DOMAIN s THEN s[i] ELSE IF i = Len(s) + 1 THEN 0 ELSE junk
    IN  digits([i \in 1 .. 4 |-> IF letter(i) < 128 THEN letter(i) ELSE letter(i) - 256])

\* What a frame with the text s sets.
frame_values(kind, s, junk) ==
    CASE kind \in TextKinds -> {[name \in {kind} |-> text(s, junk)]}
      [] kind = "year" -> {[year |-> year_of(s, junk)]}
      [] kind = "genre" -> {[genre |-> name] : name \in music_genres(number_in_parentheses(s))}
      [] kind = "track" -> {[track_number |-> uint32(number_at(s, 1)),
                             track_count |-> uint32(number_after_slash(s))]}
      [] kind = "disc" -> {[disc_number |-> uint32(number_at(s, 1)),
                            disc_count |-> uint32(number_after_slash(s))]}

\* The header of the tags, and the extended header, which is skipped.
ipod_mp3_scan_id3v2 ==
    /\ pc = "id3v2"
    /\ \E junk \in Junk :
          LET version == byte(0, junk)
              extended == (byte(2, junk) \div 64) % 2 = 1
              mark == read(7)
              end == mark + getul_ss(bytes, at + 3, junk)
          IN  IF version \in 2 .. 4
              THEN /\ mp3' = [mp3 EXCEPT !.id3 = version, !.end = end]
                   /\ at' = IF extended THEN mark + getul_ss(bytes, mark, junk) ELSE mark
                   /\ pc' = "tags"
              ELSE /\ at' = end /\ pc' = "sync" /\ UNCHANGED mp3
    /\ UNCHANGED <<file, track, m4a>>

\* A frame is its identification, its size, in three versions of bytes, two bytes of
\* flags from version 3 on, and its text.
id_length(version) == IF version = 2 THEN 3 ELSE 4
header_length(version) == IF version = 2 THEN 6 ELSE 10
frame_size(junk) ==
    CASE mp3.id3 = 2 -> getul3(bytes, at + 3, junk)
      [] mp3.id3 = 3 -> getul_be(bytes, at + 4, junk)
      [] mp3.id3 = 4 -> getul_ss(bytes, at + 4, junk)

\* A frame, or the end of them.
id3v2_frame ==
    /\ pc = "tags"
    /\ \E junk \in Junk :
          LET id == bytes_at(bytes, at, id_length(mp3.id3), junk)
              kind == frame_kind(id)
              size == frame_size(junk)
              frame_mark == read(header_length(mp3.id3))
              s == id3v2_text(frame_mark, size, junk)
          IN  IF at >= mp3.end \/ \A i \in DOMAIN id : id[i] = 0
              THEN at' = mp3.end /\ pc' = "sync" /\ UNCHANGED <<file, track, mp3, m4a>>
              ELSE IF kind = "unknown"
              THEN at' = frame_mark + size /\ UNCHANGED <<file, pc, track, mp3, m4a>>
              ELSE IF ~has_text(frame_mark, size, junk) THEN fault
              ELSE \/ kind = "genre" /\ number_in_parentheses(s) \notin Genres /\ fault
                   \/ /\ \E values \in frame_values(kind, s, junk) : set(values)
                      /\ at' = frame_mark + size
                      /\ UNCHANGED <<file, pc, mp3, m4a>>

-----------------------------------------------------------------------------
(* Frames of sound                                                         *)

LAYER_1 == 3  \* and 2 is layer II, 1 is layer III, 0 is reserved

\* By version: MPEG 2.5, reserved, MPEG 2, MPEG 1.
sample_rates == <<<<11025, 12000, 8000, 50000>>, <<0, 0, 0, 0>>,
                  <<22050, 24000, 16000, 50000>>, <<44100, 48000, 32000, 50000>>>>

\* By version and layer: ipod_mp3_bit_rates as it lies in memory.
bit_rate_rows ==
    LET reserved == [i \in 1 .. 16 |-> 0]
        low1 == <<0, 32, 48, 56, 64, 80, 96, 112, 128, 144, 160, 176, 192, 224, 256, 0>>
        low == <<0, 8, 16, 24, 32, 40, 48, 56, 64, 80, 96, 112, 128, 144, 160, 0>>
    IN  <<low1, low, low, reserved, reserved, reserved, low1, low, low,
          <<0, 32, 64, 96, 128, 160, 192, 224, 256, 288, 320, 352, 384, 416, 448, 0>>,
          <<0, 32, 48, 56, 64, 80, 96, 112, 128, 160, 192, 224, 256, 320, 384, 0>>,
          <<0, 32, 40, 48, 56, 64, 80, 96, 112, 128, 160, 192, 224, 256, 320, 0>>>>

\* The reserved layer is one row behind those of its version.
bit_rate(version, layer, index, junk) ==
    LET row == 3 * version + (3 - layer) + 1
    IN  IF row \in DOMAIN bit_rate_rows THEN bit_rate_rows[row][index + 1] ELSE junk

frame_length(layer, rate, sample_rate, padding) ==
    IF layer = LAYER_1 THEN ((12 * 1000 * rate) \div sample_rate + padding) * 4
                       ELSE (144 * 1000 * rate) \div sample_rate + padding

\* Behind the byte b the scan goes on at p.
scan_on(b, p) == at' = seek(at, p) /\ pc' = IF b = 255 THEN "frame" ELSE "sync"

\* Mutant: an I is backed up over as well.
scan_byte_back_to_I ==
    /\ pc = "sync" /\ at < Len(bytes)
    /\ \E junk \in Junk :
          IF byte(0, junk) # 73 THEN scan_on(byte(0, junk), read(1))
          ELSE IF byte(1, junk) # 68 THEN scan_on(byte(1, junk), read(2) - 2)
          ELSE IF byte(2, junk) # 51 THEN scan_on(byte(2, junk), read(3) - 3)
          ELSE at' = read(3) /\ pc' = "id3v2"
    /\ UNCHANGED <<file, track, mp3, m4a>>

\* The search for the next frame sync looks at a byte, and at the two behind it
\* if it is an I (73): ID3 begins tags.  After ID and I it backs up.
scan_byte ==
    /\ pc = "sync" /\ at < Len(bytes)
    /\ \E junk \in Junk :
          IF byte(0, junk) # 73 THEN scan_on(byte(0, junk), read(1))
          ELSE IF byte(1, junk) # 68 THEN scan_on(byte(1, junk), read(2) - 1)
          ELSE IF byte(2, junk) # 51 THEN scan_on(byte(2, junk), read(3) - 2)
          ELSE at' = read(3) /\ pc' = "id3v2"
    /\ UNCHANGED <<file, track, mp3, m4a>>

\* Behind a byte 255: the header of a frame, or back by one.
scan_frame ==
    /\ pc = "frame"
    /\ \E junk \in Junk :
          LET version == (byte(0, junk) \div 8) % 4
              layer == (byte(0, junk) \div 2) % 4
              skipcrc == byte(0, junk) % 2 = 1
              index == byte(1, junk) \div 16
              sample_rate == sample_rates[version + 1][((byte(1, junk) \div 4) % 4) + 1]
              length == frame_length(layer, bit_rate(version, layer, index, junk), sample_rate,
                                     (byte(1, junk) \div 2) % 2)
          IN  IF byte(0, junk) < 224
              THEN at' = seek(at, read(1) - 1) /\ pc' = "sync" /\ UNCHANGED <<file, track, mp3, m4a>>
              ELSE IF sample_rate = 0 THEN fault
              ELSE /\ at' = LET end == seek(read(3), read(3) + length - 4)
                            IN  IF skipcrc THEN end ELSE end + 2
                   /\ mp3' = [mp3 EXCEPT !.types[index] = @ + 1, !.version = version,
                                         !.layer = layer, !.sample_rate = sample_rate]
                   /\ pc' = "sync"
                   /\ UNCHANGED <<file, track, m4a>>

\* f[0] to f[n - 1] added up, one after the other.
sum_of(f, n) ==
    LET total[k \in 0 .. n] == IF k = 0 THEN 0 ELSE total[k - 1] + f[k - 1]
    IN  total[n]

frame_count == sum_of(mp3.types, 16)

\* Mutant: a rate counts once however many frames have it.
scan_end_by_kind ==
    /\ pc = "sync" /\ at >= Len(bytes)
    /\ LET found == {i \in 0 .. 15 : mp3.types[i] > 0}
           rates == sum_of([i \in 0 .. 15 |-> IF i \in found THEN bit_rate(mp3.version, mp3.layer, i, 0)
                                                         ELSE 0], 16)
       IN  IF found = {} THEN fault
           ELSE /\ set([size |-> Len(bytes), bit_rate |-> rates \div Cardinality(found),
                        sample_rate |-> mp3.sample_rate,
                        duration |-> ((1152 * frame_count) \div mp3.sample_rate) * 1000,
                        vbr |-> IF Cardinality(found) > 1 THEN 257 ELSE 256])
                /\ pc' = "title"
                /\ UNCHANGED <<file, at, mp3, m4a>>

\* The whole file was scanned: the histogram of the bit rates is added up, with
\* the version, the layer and the sample rate of the last frame for all of them.
scan_end ==
    /\ pc = "sync" /\ at >= Len(bytes)
    /\ \E junk \in Junk :
          LET found == {i \in 0 .. 15 : mp3.types[i] > 0}
              total_rate == sum_of([i \in 0 .. 15 |->
                  mp3.types[i] * bit_rate(mp3.version, mp3.layer, i, junk)], 16)
              samples == frame_count * (IF mp3.layer = LAYER_1 THEN 384 ELSE 1152)
          IN  IF found = {} THEN fault
              ELSE /\ set([size |-> Len(bytes),
                           bit_rate |-> total_rate \div frame_count,
                           sample_rate |-> mp3.sample_rate,
                           duration |-> (samples \div mp3.sample_rate) * 1000,
                           vbr |-> IF Cardinality(found) > 1 THEN 257 ELSE 256,
                           filetype |-> "MPEG audio file"])
                   /\ pc' = "title"
                   /\ UNCHANGED <<file, at, mp3, m4a>>

mp3_start ==
    [types |-> [i \in 0 .. 15 |-> 0], version |-> 0, layer |-> 0, sample_rate |-> 0,
     id3 |-> 0, end |-> 0]

ipod_track_from_mp3 ==
    \/ ipod_mp3_scan_id3v1
    \/ scan_byte
    \/ ipod_mp3_scan_id3v2
    \/ id3v2_frame
    \/ scan_frame
    \/ scan_end
=============================================================================
