-------------------------------- MODULE M4a --------------------------------
(***************************************************************************)
(* ipod_track_from_m4a.c: the file is a tree of atoms.  A loop for each    *)
(* level reads the atoms of one parent and calls that of the next level;   *)
(* the loops that are running are the "levels", the innermost last.        *)
(***************************************************************************)
EXTENDS AudioFile

Tags ==
    <<109, 111, 111, 118>> :> "moov" @@ <<109, 100, 97, 116>> :> "mdat"
    @@ <<109, 118, 104, 100>> :> "mvhd" @@ <<117, 100, 116, 97>> :> "udta"
    @@ <<116, 114, 97, 107>> :> "trak" @@ <<109, 101, 116, 97>> :> "meta"
    @@ <<105, 108, 115, 116>> :> "ilst" @@ <<109, 100, 105, 97>> :> "mdia"
    @@ <<109, 105, 110, 102>> :> "minf" @@ <<115, 116, 98, 108>> :> "stbl"
    @@ <<115, 116, 115, 100>> :> "stsd"
DATA == <<100, 97, 116, 97>>
SampleTags == {<<109, 112, 52, 97>>, <<100, 114, 109, 115>>, <<115, 97, 109, 114>>}
TextTags ==
    <<169, 110, 97, 109>> :> "title" @@ <<169, 103, 101, 110>> :> "genre"
    @@ <<169, 65, 82, 84>> :> "artist" @@ <<169, 97, 108, 98>> :> "album"
    @@ <<169, 119, 114, 116>> :> "composer" @@ <<169, 99, 109, 116>> :> "comment"
    @@ <<169, 103, 114, 112>> :> "grouping"
NumberTags ==
    <<116, 114, 107, 110>> :> "trkn" @@ <<100, 105, 115, 107>> :> "disk"
    @@ <<99, 112, 105, 108>> :> "cpil" @@ <<103, 110, 114, 101>> :> "gnre"
    @@ <<114, 116, 110, 103>> :> "rtng" @@ <<169, 100, 97, 121>> :> "day"

\* Which loops run inside which.
Inner == {<<"file", "moov">>, <<"moov", "udta">>, <<"moov", "trak">>, <<"udta", "meta">>,
          <<"meta", "ilst">>, <<"trak", "mdia">>, <<"mdia", "minf">>, <<"minf", "stbl">>}

word(p, junk) == getul_be(bytes, p, junk)
half(p, junk) == getuw_be(bytes, p, junk)

parent == Last(m4a.levels)

\* ipod_m4a_atom(): the atom at p, where it ends and where its contents begin.
ipod_m4a_atom(p, junk) ==
    LET body == tell(bytes, p, 8)
    IN  [tag |-> bytes_at(bytes, p + 4, 4, junk), ends |-> word(p, junk) + body - 8, body |-> body]
kind(atom) == IF atom.tag \in DOMAIN Tags THEN Tags[atom.tag] ELSE "other"

\* What an atom with no loop of its own sets; NULL if it faults.
mvhd_values(body, junk) ==
    LET timeScale == word(body + 12, junk)
    IN  IF timeScale = 0 THEN NULL
        ELSE [modification_time |-> word(body + 8, junk),
              duration |-> ((word(body + 16, junk) * 1000) % Word) \div timeScale]

stsd_values(body, junk) ==
    IF bytes_at(bytes, body + 12, 4, junk) \in SampleTags
    THEN [sample_rate |-> half(body + 40, junk), vbr |-> 0] ELSE <<>>

\* ipod_m4a_scan_data(): the contents at p, "size" bytes of them.
data_values(tag, p, size, junk) ==
    IF tag \in DOMAIN TextTags
    THEN {IF size < 0 THEN NULL ELSE TextTags[tag] :> text(bytes_at(bytes, p, size, junk), junk)}
    ELSE IF tag \notin DOMAIN NumberTags THEN {<<>>}
    ELSE CASE NumberTags[tag] = "trkn" -> {[track_number |-> word(p, junk), track_count |-> half(p + 4, junk)]}
           [] NumberTags[tag] = "disk" -> {[disc_number |-> word(p, junk), disc_count |-> half(p + 4, junk)]}
           [] NumberTags[tag] = "cpil" -> {[compilation |-> getub(bytes, p, junk) # 0]}
           [] NumberTags[tag] = "rtng" -> {[rating |-> half(p, junk)]}
           [] NumberTags[tag] = "day" -> {[year |-> half(p, junk)]}
           [] NumberTags[tag] = "gnre" -> {[genre |-> name] : name \in music_genres(half(p, junk))}
                                          \cup IF half(p, junk) \in Genres THEN {} ELSE {NULL}

\* An item of the list: an atom with an atom in it.
item_values(atom, junk) ==
    LET payload == ipod_m4a_atom(atom.body, junk)
    IN  IF payload.tag # DATA THEN {<<>>}
        ELSE data_values(atom.tag, payload.body + 8, atom.ends - payload.body - 8, junk)

values_of(atom, junk) ==
    CASE parent.kind = "ilst" -> item_values(atom, junk)
      [] parent.kind = "moov" /\ kind(atom) = "mvhd" -> {mvhd_values(atom.body, junk)}
      [] parent.kind = "stbl" /\ kind(atom) = "stsd" -> {stsd_values(atom.body, junk)}
      [] OTHER -> {<<>>}

\* A loop reads an atom: the loop of the next level starts, ...
enter_atom ==
    /\ pc = "atom"
    /\ \E junk \in Junk :
          LET atom == ipod_m4a_atom(at, junk)
          IN  /\ <<parent.kind, kind(atom)>> \in Inner
              /\ m4a' = [m4a EXCEPT !.levels = Append(@, [kind |-> kind(atom), ends |-> atom.ends])]
              /\ at' = IF kind(atom) = "meta" THEN tell(bytes, atom.body, 4) ELSE atom.body
    /\ UNCHANGED <<file, pc, track, mp3>>

\* ... or the atom is read here, or passed over.
read_atom ==
    /\ pc = "atom"
    /\ \E junk \in Junk :
          LET atom == ipod_m4a_atom(at, junk)
              is_mdat == parent.kind = "file" /\ kind(atom) = "mdat"
          IN  /\ <<parent.kind, kind(atom)>> \notin Inner
              /\ \E values \in values_of(atom, junk) :
                    IF values = NULL THEN fault
                    ELSE /\ set(values)
                         /\ m4a' = [m4a EXCEPT !.ends = atom.ends,
                                               !.size = IF is_mdat THEN @ + atom.ends - atom.body ELSE @]
                         /\ pc' = "next"
                         /\ UNCHANGED <<file, at, mp3>>

\* Behind an atom its loop goes on, or ends with its parent; so that one is read.
next_atom ==
    /\ pc = "next"
    /\ at' = seek(at, m4a.ends)
    /\ IF m4a.ends < parent.ends
       THEN pc' = "atom" /\ UNCHANGED m4a
       ELSE /\ m4a' = [m4a EXCEPT !.levels = Front(@), !.ends = parent.ends]
            /\ pc' = IF Len(m4a.levels) = 1 THEN "rate" ELSE "next"
    /\ UNCHANGED <<file, track, mp3>>

\* The bit rate is the size of the sound by the duration, in units of 1024 bits
\* in a second; no duration gives any number.
set_bit_rate ==
    /\ pc = "rate"
    /\ \E junk \in Junk :
          LET duration == IF "duration" \in DOMAIN track THEN track.duration ELSE 0
          IN  set([size |-> Len(bytes),
                   bit_rate |-> IF duration = 0 THEN junk ELSE (m4a.size * 1000) \div (duration * 128),
                   filetype |-> "AAC audio file"])
    /\ pc' = "title"
    /\ UNCHANGED <<file, at, mp3, m4a>>

m4a_start == [levels |-> <<[kind |-> "file", ends |-> Len(bytes)]>>, ends |-> 0, size |-> 0]

ipod_track_from_m4a == enter_atom \/ read_atom \/ next_atom \/ set_bit_rate
=============================================================================
