------------------------------ MODULE Streams ------------------------------
(***************************************************************************)
(* Reading a file through an ipod_io (ipod_io.c, ipod_io_file.c).  Nobody  *)
(* looks at how much was read: at the end of the file a byte is whatever   *)
(* was in its variable ("junk"), and the position does not move.           *)
(***************************************************************************)
EXTENDS Integers, Sequences, SequencesExt

getub(file, at, junk) == IF at < Len(file) THEN file[at + 1] ELSE junk

\* ipod_io_read() of n bytes.
bytes_at(file, at, n, junk) ==
    LET read == SubSeq(file, at + 1, IF at + n <= Len(file) THEN at + n ELSE Len(file))
    IN  read \o [k \in 1 .. n - Len(read) |-> junk]

\* ipod_io_tell() when n bytes have been read.
tell(file, at, n) ==
    CASE at >= Len(file) -> at
      [] at < Len(file) /\ at + n <= Len(file) -> at + n
      [] OTHER -> Len(file)

\* ipod_io_seek(): behind the end is a position, before the beginning is none.
seek(at, offset) == IF offset < 0 THEN at ELSE offset

number(digits, base) == FoldLeft(LAMBDA high, low : base * high + low, 0, digits)

getuw_be(file, at, junk) == number(bytes_at(file, at, 2, junk), 256)
getul3(file, at, junk) == number(bytes_at(file, at, 3, junk), 256)
getul_be(file, at, junk) == number(bytes_at(file, at, 4, junk), 256)

\* Seven bits a byte.
getul_ss(file, at, junk) == number(bytes_at(file, at, 4, junk), 128)
=============================================================================
