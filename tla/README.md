# podtopod, in TLA+

podtopod is a podzilla module: it runs on an iPod (or on a desktop) and copies
music between it, the *local* iPod, and another iPod on the Firewire bus, the
*remote* iPod ("RIP" in the source). It contains libipod, a C library that reads
and writes an iPod's music database. This directory models the program in TLA+,
checks the models with TLC and proves the properties that matter most with TLAPS.

## The system

Everything in the program runs on podzilla's event loop: timers, buttons, menu
items and drawing are calls from one thread, so *a handler is one step*. What is
concurrent is the machine around it: the cable, the kernel's mount table, and
the `mount`, `umount`, `eject`, `rmmod` and `modprobe` processes that the program
starts and never waits for. Inside the loop, two long-lived activities interleave
handler by handler: the poll of the remote iPod (every 500 ms) and the transfer
(one chunk a tick). They share two variables, `rip_status` and `remote_ipod`.

| component | source | state | operations | what makes it correct |
|---|---|---|---|---|
| status machine | `podtopod.c` | `rip_status`, `remote_ipod`, installed menu items, two settings | the poll handler, five `ipod_status_*` transitions, settings, the debug item | menus and open database follow the status; an ejected iPod stays ejected; unplugging and mounting are noticed |
| device access | `connect.c` | none of its own; child processes | `poll_connection`, `poll_mount`, `do_mount`, `do_unmount`, `do_eject` | what the polls return is understood by their callers; children may finish at any time |
| transfer engine | `transfer.c` | the transfer list, current item, counters, two streams, buffer, the widget's timer | start, one chunk per tick, abort, close | only complete files enter the database; what is added is saved; streams, buffer, counters and status end with the transfer |
| Transfer menu, removal | `podtopod.c` | the selected tracks and the database they are from; mpd's dirty flag | open the menu, transfer, remove | the database is still open when the selection is used; mpd hears of every change |
| music menus | `artist.c`, `album.c`, `song.c`, `list_utils.c` | the open lists and their shared parameters | open a list, select, hold | a list's tracks are those its title promises |
| mpd client | `patches/mpdc.patch` | podzilla's | takes the dirty flag | as above |
| iPod database | `libipod/src/ipod.c` | tracks, playlists, dirty flag, root atom | open, flush, close, add and remove tracks and playlists, ids, locations | ids are unique; playlists name existing tracks; a client's calls do one thing each |
| atoms | `libipod/src/ipod_atom*.c` | the tree of records of an iTunesDB | read, write, lists, indices | what is written is read back, in every version of the format; what is derived agrees with its source; data of iTunes survive |
| streams and strings | `libipod/src/ipod_io*.c`, `ipod_string.c` | position and contents | integers, UTF-8/UTF-16 | texts are converted without loss and fit their buffers |
| tags of audio files | `ipod_track_from_*.c`, `ipod_track_add.c` | position, what was counted | scan an mp3 file, read the atoms of an m4a file | a track gets the tags and the numbers of its file; the scan ends |
| property lists, bindings, examples, build | rest of `libipod/` | none, or not used by podtopod | | |

Interactions: the polls call the transitions, which open and close the remote
database and add or remove menus. The music menus and the Transfer menu hold the
address of the database and track ids; the transfer engine holds both through a
whole transfer. `transfer_finished()` writes the destination's database, sets
`rip_status` and sets the flag that makes mpd update.

What is hard here: a database closed by a poll under a transfer, a menu or a
dialog that still uses it; the end of a transfer that overwrites the status; the
modal dialogs, in which timers run on; failures in the middle of a list of files;
sizes in the database that disagree with the files; children that finish at any
time; search parameters shared by menus that come and go; a tree of records whose
sizes, counts and copies must agree after any sequence of calls; scans of files that
back up over bytes they have seen. `PROJECT.json` lists each at its line, with the properties that watch it.

## The modules

* **RemoteIpod** - `podtopod.c`'s status machine and `connect.c`, with the cable,
  the mount table and the children as environment.
* **Transfer** - `transfer.c`, the Transfer menu and the removal of tracks.
* **Batch** - what a transfer promises, in one page: tracks are added in order,
  and all of them are saved when it ends, however it ends. Transfer implements it.
* **PodToPod** - RemoteIpod and Transfer composed: each part's actions conjoined
  with what they do to the other part.
* **IpodDb** - libipod's database of one iPod, in memory and on disk, and the songs.
* **Lists** - two walks over a list: the part of it that is in a set, for Atoms, Itdb and
  Library, and the id of a new element, for IpodDb and Itdb.
* **Atoms** - the iTunesDB as a tree of records and as a sequence of cells: writing,
  reading, preparing, searching and editing it.
* **Itdb** - all calls of `ipod.h` that change an iPod, over Atoms.
* **Library** - what those calls promise: a library that is opened, edited, saved and
  closed. Itdb implements it.
* **MusicMenu** - the menus of artists, albums and songs and the search below them.
* **Strings**, **Streams** - UTF-8, UTF-16 and the reading of numbers, as functions.
* **AudioFile**, **Mp3**, **M4a**, **TrackFrom** - reading the tags of an audio file:
  what the readers share, the two readers, and `ipod_track_add_from()` around them.
* **MpegFiles** - what an mp3 file and its tags are made of, said of the file alone and
  not by a scan of it: what the theorems about reading them compare the reader with.
* **RemoteIpodProofs**, **TransferProofs**, **PodToPodProofs**, **IpodDbProofs**,
  **AtomsProofs**, **ItdbProofs**, **MusicMenuProofs**, **TrackFromProofs** - theorems.
* **MC...** (RemoteIpod, Transfer, PodToPod, IpodDb, Itdb, MusicMenu, TrackFrom) -
  constants for TLC.
  Definitions marked "Mutant" in a comment are a plausible bug in the definition
  that follows them; they occur in no specification and show that a property would
  notice the bug.

### RemoteIpod

`rip_status` and `remote_ipod` are the variables of the same names; `remote_ipod`
is `NULL` or an address, because two databases opened one after the other may or
may not get the same address. `menus` holds the two groups of items that
the transitions install ("remote": /Remote iPod and five items under it; "music":
its Music submenu). Each `ipod_status_*` operator is the C function of that name
with every call it makes: `ipod_status_connected` includes the automount, the
second poll and the `ipod_status_mounted` that may follow, `LeaveBus` is
`ipod_status_disconnected()` with the unmounting it begins with. The poll handler
is split by branch (`PollDisconnected`, `PollLostConnection`, `PollMount`,
`PollUnmount`); the switch is on the status, so at most one of its branches runs.

The polls are sets of results: the iPod build's `poll_connection()` returns -1 on
an error, `poll_mount()` -1 on an error and 2 for a mount at the wrong place, and
the callers test for truth. `do_eject()` of the iPod build is two actions,
`new_eject_window_ipod` up to its modal dialog and `do_eject_resume` after it,
since polls run in between. A child is a count per program; when it exits it has
done its work or failed.

### Transfer

A file is its length in bytes, a track of the list a record: whether
`start_next_file()` has chosen its destination name (`named`), how many bytes are
in the destination file (`written`), and whether the destination's database knows
it (`entry`: none, added in memory, saved on disk). `cur_file` is an index, 0 for
`NULL`. `Size` (what the source's database states) and `Length` (of the file) are
separate constants, because the code ends a file by comparing the bytes copied
with the former. A tick of the timer runs `start_next_file`, `do_copy`,
`finish_file` and `transfer_finished` in one step, so these operators take
the list the handler has built so far.

Undefined behaviour is explicit: `fault` names it, the program stops, and where
the build may also get away with it (memory freed and not yet reused) the model
has that outcome too. `fault` covers dereferenced null pointers, closed databases
and streams, divisions by zero, and the second `free` of the buffer.
Allocation failures other than that of the copy buffer are not modelled.

podzilla's dialogs are modal. Whether the widget's timer ticks on below a dialog
is a constant (`ModalTimers`), since that depends on podzilla; both values are used.

### PodToPod

The two modules are instantiated over shared variables. A transition that closes
the database drops the unsaved changes to it (`CloseDatabase`), and a Transfer menu
over it becomes "unsure": its ids may not be found in a database opened later at
the same address. The items of /Remote iPod are reached from the main menu only,
the header's poll runs under every window, and a file system with open files is
not unmounted - though pulling the cable needs nobody's permission.

### IpodDb

`db` is the tree of atoms under the mhbd: the list of tracks, the list of playlists
and its twin, the podcasts (`NULL` in databases of the older kind). `db_dirty` is
the flag of that name, `disk` the iTunesDB file, `files` the songs' audio files. A
playlist item holds an id; the model also remembers for which song it was added, so
that a property can ask whether the id still means that song. The tree's other
attributes, and the order of items in a playlist, are left out.

Every call that changes the tree is an action of its name; `prepare_to_write` is the
normalisation that `ipod_flush()` runs on the database in memory whether or not
it then writes: copy the playlists over the podcasts, complete the master
playlists, drop items without a track. `AnyClient` chooses between podtopod's
calls and those of any client of the library; `Failures` are the failures of
`fopen()`, of writing, and of power. A file torn by either cannot be read, and
`ipod_new()` of it ends the program (`ipod_atom.c:106`), so nothing follows.
`ipod_track_add` stands for the whole call, the copy of the song's file included: it
goes to a location that no file has, drawn from an unseeded `random()` and compared
with the files alone (`ipod.c:450`), so a location whose file was removed is free
again even if the saved database still names it.

IpodDb and Transfer describe the same database at two levels and are not composed:
Transfer knows only whether a track is added or saved.

### Atoms and Itdb

IpodDb asks what happens to ids and songs when calls fail; Atoms and Itdb ask what
happens to the *data*. In memory, the tree is nested records that have the names
of the C structures; in the file each integer or character is a cell. A header's
size, an atom's total size (back-patched by the code after the children are
written), counts and the reader's seeks are all there, so a wrong one shifts what
is read. Of the fields that are only read and written one of a kind stands for
all: of a track's fifty those that another part of the code computes, a version
guards or a byte holds; of an mhod's union the four ways it is read. `HeaderPad` is
the unused room at the end of headers, and iTunes writes more of it than libipod does.
A reader's `ok` is false where the program exits (`ipod_atom.c:106`).

Which atoms hold which is fixed in the readers of the model, where the code takes any
known tag for a child. `prepare_mhbd` is the whole of `prepare_to_write`: the copy
of the playlists, the library indices (sorted by the first character, as
`ipod_string_compare_utf16()` never advances), master playlists, playlists, play counts.
New library indices have type 0 (`ipod_atom_mhbd.c:59`), so only those of iTunes are
ever sorted.

Each action of Itdb is the call of its name with its `db_dirty`. `disk` is what a
reader gets from `file`, `itunes` what iTunes had left. Handles are indices: a client
that uses a handle after it removed the track is not modelled. `ipod_track_upload`
always succeeds in copying. Changes of the equalizer presets make the *database*
dirty, and no call writes them: both as in the code.

### MusicMenu

A window is what it shows, the address of its parameters, and what it found when it
was opened. `lists` holds the parameter lists by address: a root menu has none and
starts one at every choice, the menus below share it, and `close_window` takes
nothing out. A parameter names the window whose menu item its value is; when that
window is gone the value is freed memory, and a comparison with it may go either way
(`Found`). The poll opens and closes the database under the menus. A search
without a database returns `NULL`; a menu then is empty, but `transfer_alt_menu()`
follows it (`crashed`).

A window may show *less* than matches its path: the list still has the choices made
before going back, and a track has to pass all of them. This is what
the code does, and why the property about a path is an inclusion; only at the
first level (`RootChoicesExact`) are both sides equal.

### Reading audio files

A file is its bytes; `at` is the position in the stream, and `pc` where in the code
the reader is. An mp3 file is scanned byte by byte as `ipod_mp3_scan()` does it, one
step for each byte, tag or frame it looks at; the tags that end it (ID3v1) come first. The loops
of the m4a reader are one inside another, so its state holds the `levels` that are
running, each with the position where its parent ends. Bytes behind the end of the
file are whatever was in the variable (`Junk`). `fault` is a division by zero or a
genre name outside its table. Numbers are kept to `Word` values, 2^32 in the code; in the
run 1000000, since TLC's integers have 32 bits and the arithmetic needs more than a `Word`.

## The runs

| run | question | bounds |
|---|---|---|
| `RemoteIpod_ipod` | Do the menus and the handle follow the status, and does an ejected iPod stay ejected, whatever cable, mounts, children, poll errors and users do? | one running child of each program, one address |
| `Transfer_rough` | Does every transfer leave only complete and saved tracks in the database, and counters, streams and status in order, under failing calls, wrong sizes and dialogs? Does it implement Batch, and end? | lists of at most two of seven tracks, chunks of 2 bytes |
| `Transfer_sound` | Which preconditions keep the engine out of undefined behaviour? | as above; a non-empty list, no size of 0, failing reads and writes only |
| `PodToPod_unplug` | What remains true, in the desktop build, when the remote iPod goes away during a transfer? Does the status say "transferring" over a database that is gone? | two addresses, one list of two tracks |
| `PodToPod_live` | Are a final unplug and a final mount noticed, and does every transfer end, in the composed program? | one address, one track of two chunks, timers under dialogs; no poll errors: an error reads as "connected" and would hide an unplug for ever |
| `PodToPod_saved` | Is what was added always flushed? Not if the source goes away. | |
| `IpodDb_any` | Are ids unique, is what is written consistent, is a clean database a saved one, and is no song lost but by removal, for any client and with power failures? | two songs, track ids 1000 and 1002, two playlists, a client adds to playlists without items |
| `IpodDb_podtopod` | Does podtopod ever bring a song into a playlist it was not put in? No, whatever fails. | three songs, ids to 1004 |
| `IpodDb_reuse` | The same for any client: yes, it may. | as `IpodDb_any` |
| `Itdb_calls` | Is every file that is written read back as the tree in memory, do the derived data agree, do iTunes' data survive, does the shuffle's file follow, and do the calls implement Library? | three changes by the client between any opens, flushes and closes; an empty iPod, a database of version 4.9 and one from before 4.8 |
| `MusicMenu_browse` | Does a window ever show, or hand to the Transfer menu, what the menus did not lead to? No, however the user goes back and forth and iPods come and go. | six windows opened in all, two parameter lists, two databases |
| `TrackFrom_files` | Do sound files give their tags, sizes, rates and durations, and does the scan end? | six sound files, twelve that are cut short or have numbers out of range |

Why the bounds are enough: the status machine compares no counts and its actions
look at one child at a time, so a second child of a kind repeats what the first
may do (the proofs need no bound). The engine looks at one item and whether there
is a next; two items give a first, a last and one that is both. The seven tracks
of `MCTransfer` are the ways a database size, a file length and a chunk can relate.
Two addresses let a reopened database be at the closed one's address or not.
In IpodDb two ids suffice for an id to be used again, and two playlists for one that
is hidden and one that is not; `MaxItems` bounds only what a client adds, the
normalisation adds more. In Itdb three changes are enough to make a track,
name it and put it in a list, or to remove one and reuse its id; all of the
remaining depth is in the trees the client starts from. In MusicMenu six windows
allow a path to the songs, going back two levels and down another, with
names freed in between; two lists are two choices in a root menu. The files of
`MCTrackFrom` have between them MPEG 1, 2 and 2.5, layers I to III, padding, two
bit rates, ID3v1 and each ID3v2 with each of its encodings, text that looks like a tag
or a frame, a `moov` before and after the sound, two `mdat`, and unknown atoms on each
level. Nothing else is bounded: the other state spaces are finite
by themselves, because a transfer's counters are reset when it starts.

`CHECK_DEADLOCK FALSE` is given where the program may stop: after undefined
behaviour or a followed NULL no step follows, nor after reading a torn nor when a call of `ipod_track_add_from()` has returned.

**Fairness.** The icon's 500 ms timer and the transfer widget's 1 ms timer are
rearmed by podzilla for as long as they are set, so their handlers have weak
fairness. The user, the cable, the children and mpd have none. Reading a file is
one sequential call, which goes on as long as it can: weak fairness of its steps.

### What the violations show

* `PodToPod_saved`: when the status is no longer TRANSFERRING the MENU button closes
  the window at once (`transfer.c:474-479`); tracks added to the local database
  stay in memory only, against the comment at `transfer.c:389-391`.
* `IpodDb_reuse`: `ipod_track_remove()` leaves the playlists to a TODO
  (`ipod.c:522`), and a track added before the next flush may get the removed
  one's id, and with it the places in its playlists. podtopod flushes in between.

Other disagreements of the code with its comments or its documents were met, and
have no run of their own:

* "make user unmount before ejecting" (`podtopod.c:516`) is done by showing Eject
  only while `rip_status` is UNMOUNTED; a mount that has just finished is
  seen only by the next poll. In RemoteIpod, `eject_dialog' => mount = "no"` fails.
* `start_copy()` starts the timer for an empty list too, and its handler
  dereferences the null `cur_file` (`transfer.c:497`); the code "assumes cur_file is
  already pointing to proper file" (`transfer.c:336`). `Transfer_sound` excludes it.
* `ipod_flush()` clears `db_dirty` also if `fopen()` fails (`ipod.c:175`); with
  "create" among the `Failures` of `IpodDb_any`, `CleanMeansSaved` fails.
* `ipod_status_mounted()` is "Called when the ipod enters the STATUS_MOUNTED state"
  (`podtopod.c:572`), but `transfer_finished()` sets MOUNTED (`transfer.c:433`) also if
  the status machine has gone to DISCONNECTED in between (the poll repairs it:
  `UnplugIsNoticed` holds).
* `ipod.h:67` says that `ipod_free()` flushes; the flush is commented out (`ipod.c:187`).
* The library indices of a new database are "automatically populated and sorted when the
  database is written" (`ipod_atom_mhbd.c:58-60`), but they are made without the type that
  `prepare_to_write` looks for, 52, and so stay empty for good; `DerivedAgrees` speaks only
  of indices that iTunes left. Those are sorted by the first character alone, and by length
  where it is equal, as `ipod_string_compare_utf16()` never advances.
* The shuffle's database is "basically a shuffled list" (`ipod.c:1121`), but
  `ipod_atom_list_shuffle()` does nothing; `ShuffleFollows` has the order of the library.
* `ipod.h:141-143` promises ID3v1, ID3v1.1 and .wav; see below.

### What a sound file is

`ReadsTags`, `CountsRight` and `ScanEnds` are about files that are marked `sound` in
`MCTrackFrom`. Many a file in the world is not, and these are what the code
does with them (most can be seen by marking a file that has them sound):

* ID3v1 and ID3v1.1: track number and genre are read one byte early, so
  the track number is taken for the genre, and is itself read as 0. `HalfFrames` is
  such a file, with genre 17: neither name is among the `tags` of a sound file.
* An extended header before version 2.4 has its size in another form and is skipped wrongly;
  unsynchronisation, compression and encryption are not undone.
* A frame with a CRC makes the scan go on two bytes inside the next frame, so every
  other one is missed. A bit rate index of 0 or 15 has length 0 and the scan stays there,
  as it does at a last byte of 73 or 255, and at an m4a atom of size 0.
* The length of an MPEG-2 layer III frame is doubled, so every other one is skipped and the
  rest count double, which comes out right for an even number of equal frames only. An "I" directly before a frame hides it.
* Genres of ID3v2 that are not "(n)" become number 0; those of `gnre` are one off
  from iTunes'; a rating of one byte is read as two; a year is read as a number where it is text.
* The duration overflows (`ipod_track_from_m4a.c:101`), at 44100 units from 97 seconds.
* A character of four bytes becomes "?" and an undefined unit. The length
  counted for U+0880 to U+08FF is that of another character.
* `.wav` files are accepted and give no track; a title made from a path keeps
  its leading slash.

The theorems do not speak of `sound`: they are about all files that fulfil
`IsMpegFile` and `IsTaggedFile` of MpegFiles. That such files exist and are those meant
is `MpegAssumption` of `MCTrackFrom`, which TLC evaluates: it gives the places of the parts and
of the frames of tags for a sound file of the run, for `Latest`, with tags of version 2.3 and
2.4 before, between and behind its frames, and for `Both`, where ID3v1 tells a title and ID3v2
another.
What the code does not read where it is, the theorems leave out too: the track number and the
genre of ID3v1.

## The proofs

All theorems hold for every value of the constants that satisfies the assumptions
of RemoteIpod (`NULL` is no address, flags are Booleans, the bound on children is
positive) and of Transfer (sizes and lengths are naturals, a chunk is at least a
byte, selections are sequences of tracks), of PodToPod (those of both), of IpodDb (what
iTunes left has unique ids), of Itdb (what iTunes left is a database in a file that can be
read, with times and sort orders other than those of new tracks and playlists, unique ids, and
before 4.8 none of the later fields; texts, names and ratings are numbers; `NULL` is no
database and no library) and of MusicMenu (databases are sequences of
tracks, `NULL` is none of them). A theorem that needs more, of what fails or who calls, says so in its
statement, and each passing run of its property satisfies the condition.

* `RemoteIpodProofs`: `TypeCorrect`, `MenusCorrect`, `HandleCorrect`, `EjectedStays`. The invariant is
  `StatusInv`: the types of the three variables the transitions write, with both
  properties. Neither property is inductive alone: what `close_rip_music()` removes
  depends on whether a database is open, so "the Music items are there iff a
  database is open" needs the handle, and the handle needs the status. The
  transitions are proved once and the handlers by reference to them. `EjectedStays` is an
  action property: only `poll()` leaves the status "ejected", and only without a connection.
* `TransferProofs`: `TransferTyped`, `NoPartialFile`. The invariant adds `AheadIsNew` to
  both: while the timer runs, the items from the current one on have no entry
  yet. Without it, overwriting the `written` of the current item (the
  file is opened anew) could take the bytes away from a track that has an
  entry. Lemmas say what `Saved`, `Written` and `transfer_finished` do to a list;
  each action then is one lemma.
  `EngineNeverFaults` states `NoFault` under `SoundInputs` (no call fails where the code does
  not look, no empty file, a dialog that stops the timers) and for selections that are not empty.
  What it needs is in `SoundCore`: a Transfer menu is the top window while it exists, a
  timer has a current item whose end is not reached, and the window on the screen is the one of
  the transfer. Each of the three places where the engine follows a pointer or divides
  (`TimerFault`, `DrawFault`, the start of a transfer) then reaches "fault" only through
  a database that is gone (`FaultMeansLost`), and in Transfer alone none goes (`NeverLost`).
  How a transfer ends is the second part of the module: `WorkedOffInOrder`,
  `CountersAlwaysAgree`, `NothingStaysOpen` and `MpdHears`. They share the
  invariant `EInv`: that of `NoPartialFile`, and as long as nothing undefined happened, `Core`.
  None is inductive alone. The next file is opened anew only if its item is still new
  (`Working`); a named item has a live destination, or a finished file would get no entry; no menu
  can be opened over a transfer (`TimerHasWindow`), or a second one would start on the
  streams of the first; a transfer to the local iPod that is under way is the only one that has
  not told mpd (`MpdWillHear`). `MpdHears` assumes that telling mpd does not fail: where it
  does, the code forgets that there was something to tell.
  `AddedAlwaysSaved` and `CompletedIsTrue` hold where writing the database does not fail (`ipod_flush()` does not say when it did). `SInv` adds to `EInv` that
  whatever is unsaved belongs to a running transfer with a live destination that is marked
  dirty and is the only changed database (`UnsavedWhileCopying`), so that every way into
  `transfer_finished()` writes it; that the status says "transferring" only while the timer runs;
  that a transfer without a buffer never has the dialog up, so that no answer can end it; and
  what the window says of a transfer that is over.
  `TransferImplementsBatch` is the refinement of Batch, where writing the database does not
  fail: the initial states map to Batch's, and under `BInv` every action maps to a step of it or
  to none. The three ways a transfer ends (the last item, an abort, a dialog) are Batch's
  `Save`, a finished file is its `Step`, and everything else, also what an error does to the
  window, is no step. `BInv` adds to `SInv` that the source is there while the window is.
* `PodToPodProofs`: `OpenIsMounted`, `NoPartialFileEither`, `EjectedStaysEjected`,
  `OnlyLossFaults`, `TransferringIsOpen`. The two parts write the status they share, so an invariant
  of one part has to survive the other's steps. A step of the whole is, to each
  part, one of its own or a change of what its neighbour may change (`Parts`): to the
  engine, a poll closes the remote database under any window; to the status machine, the
  engine sets MOUNTED or TRANSFERRING at any time. `PInv` joins the parts' invariants
  with two of the whole: the windows that can start a transfer lie below its own, and while
  the iPod counts as ejected there is nothing left to transfer (`EjectedIsQuiet`), so that no
  end of a transfer takes the status back. `OnlyLossFaults` then is `SoundCore` over the
  steps of the whole: with sound inputs, undefined behaviour comes from a lost database only.
  `TransferringIsOpen` says where it cannot come from. A database may be closed under the window
  of a transfer, and another be opened at its address or at another one, but the same poll takes
  the status away, and what could give it back, the start of a transfer and the debug item, is in
  menus that the window hides. This is inductive by itself (`WindowVouches`).
* `IpodDbProofs`: `TypeCorrect`, `UniqueIdentifiers`, `WrittenDatabaseResolves`, `CleanIsSaved`,
  `NoSongForgotten`, `ItemsNameSongs`, from the
  assumption that what iTunes left is a database with unique ids. The first two share
  an invariant, `IInv`: memory and file each hold `NULL` or a database whose ids
  are unique (an id that is unique in memory alone is not inductive, since the file is
  read back). At its heart are the lemmas `IdAbove` and `UniqueId`: the id that the walk over
  a list returns is above all ids in it, although it need not be the greatest of them and 2.
  Lists have any length, so this takes an induction over the walk; it is done by least counterexample, from `LeastNat`, which follows from the
  well-foundedness of finite intervals under inclusion. `WrittenDatabaseResolves`
  adds that only prepared databases are written, and needs the types for
  `prepare_to_write`.
  The other three hold under conditions, and fail without them. `CleanIsSaved`: no write
  fails (`ipod_flush()` clears the flag all the same). The clean database that is flushed
  again is prepared again, so this rests on `prepare_to_write` being idempotent
  (`PrepareIdempotent`). `NoSongForgotten`: a file that is there can be opened (otherwise a new
  database replaces it). `KInv` says that memory lists every song that the file lists and that
  still exists; removing tracks keeps it, because the audio files go with them, and because what
  `ipod_atom_list_remove()` leaves is exactly the rest (`WithoutKeeps`, by the pigeonhole
  principle: the positions left increase). `ItemsNameSongs`: the calls are podtopod's, which
  prepares the database right after each removal, and iTunes left no dangling item.
  Then every item is a track of its list (`NInv`), and unique ids make it the song's;
  any other client can break it, as the run `IpodDb_reuse` shows.
* `AtomsProofs`: `RoundTrip`. Whatever tree of the atoms' types is written (`Mhbds`: any version,
  stores, tracks, playlists, texts, indices and foreign data; headers of any size), reading
  the file yields it again and ends behind its last cell. Each
  size, count and position is written by one function and relied on by another, so the
  induction is over where atoms lie: `MhodBack`, `ItemBack`, `MhitBack`, `MhypBack`,
  `ListBack` and `MhsdBack` say that wherever the cells of an atom are in a file, its reader
  yields it and leaves the stream behind it. An item of a playlist before 4.9 has its
  position in an mhod behind it, which its reader recognises by the next tag, so these facts
  need that what follows is no such tag (`ItemsBack`, `MhsdBack`). That children written
  one after the other are read one after the other (`PiecesRead`) is an induction
  over the reading loop, `FlattenParts` one over the writing one. The theorem also says
  what is lost: a text of an mhod of type 0, and fields that older versions do not have
  (`ReadDatabase`). The loops are recursive functions, and induction is over the set of the numbers
  for which a fact holds, since theorems with an operator parameter cannot be used. The module
  ends with what the calls rest on besides: searches, the sort, parts of lists.
* `ItdbProofs`: `TypeCorrect`, `ReadBackCorrect`, `DerivedCorrect` (of indices that have their
  type), `ShuffleCorrect`, `ForeignDataKept`, `Refinement`. The invariant
  `IInv`: the tree is a database (`IsDatabase`) while the iPod is open, the file is empty
  or holds one, and `disk` is what it holds. Types alone are not enough: the stores must be found
  and be of the right kind and number, and a new track's id must differ from all others, so
  `IsDatabase` says that too. Each call changes one list, and a database with another list is a
  database (`TracksSet`, `PlaylistsSet`); a flush replaces the lists of all stores at once
  (`ListsReplaced`), and so does writing and reading (`DatabaseKept`, from `RoundTrip`).
  `DerivedCorrect` rests on `SortedIs`: the insertion of one position after the other yields
  every position once and in the order of `compare_utf16`, by induction over the walk, for which
  the comparison has to be total and transitive (`CompareOrders`): the code's is, although it
  never gets past the first character. The podcasts are
  copied before the playlists are prepared and prepared themselves, and end up equal because
  copying and preparing commute (`MhodPrepared`). `ShuffleCorrect` adds that neither
  preparing nor reading back changes a track's texts.
  `ForeignDataKept` follows tracks and playlists, not lists: those that have iTunes' data if they
  are iTunes' (`FaithfulTracks`, `FaithfulPlaylists`) are a set that no call, no flush and no
  reading back leaves, so lists of them stay that. A text is set over a text or behind
  the rest, an index made again is no foreign data (`OpaqueText`, `OpaqueFlushed`), a new
  track or playlist is none of iTunes', and the fields that a file from before 4.8 loses iTunes
  never put there.
  `Refinement` maps the tree and what the file holds to what a client sees of them (`View`).
  Init maps to Library's, and under `RInv` (`IInv`, and no presets without a tree) every
  action to its step or to none (`StepImplements`). A call on one list is a change of one element of its
  view (`SeenIs`, `ListEdited`). A flush is Library's, which keeps the tracks and, of each
  playlist, the items that name tracks, and adds to the masters what they miss: the code does it to
  items, Library to ids (`IdsJoined`, `OnlyIds`, `PlaylistFlushed`); that the file then has the
  same view is `ViewKept`. Parts of two lists are compared by `OnlyAlong`: a walk along both, in
  which each step passes either an element that neither part has or one that both have.
* `MusicMenuProofs`: `ShownWithinPathAlways` and `RootChoicesAlwaysExact`, for any databases and
  any number of windows and lists. What a window shows says nothing of the list it was filled by, and the list is
  shared and grows, so the property is not inductive. `IInv` adds that for every choice on
  a window's path its list has a parameter whose owner is a window *below* it
  (`PathsBacked`): then a live parameter tests it whatever else the list holds and
  whatever comparisons with freed names say. Closing the top window keeps it, since no other
  window lies above its owner; adding a parameter keeps it, since nothing is taken out.
  That a root choice is exact needs less: the lowest window has no parameters (`RootsOK`), so
  each of its choices begins a list, whose only parameter is owned by that window.
* `TrackFromProofs`: texts first. `UnitRoundTrip` (each character of UTF-16 comes back from the
  UTF-8 written for it), `LengthSuffices` (the room computed for it is enough, but for U+0880 to
  U+08FF) and `TextRoundTrip`: a whole text comes back up to its first zero. The proof cuts the
  bytes where the characters were written (`IsText`), and shows that the reader, which knows only
  the first byte of each, counts and cuts them there (`TextRead`, `TextEnds`).
  Then mp3 files, of which the reader sees one byte after the other, while `MpegFiles` says what
  they are made of: the places (`cut`) where a part ends and the next begins, each a frame, tags or
  a byte of neither (`IsLayout`). `FramesCountOnce` has the part of `CountsRight` about mp3 files,
  for every file that has such places. Its invariant (`Where`) is where the scan may be: at the
  beginning of a part, behind the first byte of a frame, behind "ID3", anywhere in tags of which it
  knows the end, always with the frames before, and no others, in the histogram (`Counted`). That
  nothing in tags or between frames is taken for a frame is the step to the next part. The
  histogram loses the order of the rates; `HistogramGrows` shows that its sum is still theirs.
  `TagsAreRead` has the part of `ReadsTags` about mp3 files. The hypothesis `IsTagged` says where
  frames of tags are, one behind the other up to the end or the padding (`FramesAt`; no frame is
  compressed, and only tags of version 2.4 may have an extended header), and that
  `tags` are what is told last (`IsLast`), by ID3v2 at the highest place or else by ID3v1. On top
  of `Where`, the invariant (`Told`) is that the track always has all that was last told before
  the position (`Heard`), that a position in tags is one of their frames or their end
  (`InFrames`), and that there is no fault. Skipping what is no tag
  tells nothing (`NoneIn`, `HeardOn`), a frame tells what it says and leaves what it is not about
  (`HeardFrame`, `ValuesTell`), and at the end all is told (`AllTold`).
  These theorems need induction over data: it is done by the least counterexample (`LeastNat`),
  a set of numbers, as the induction theorems of the library cannot be used here.

Model-checked only: liveness and fairness (`TransferEnds`, `UnplugIsNoticed`,
`MountIsNoticed`, `ScanEnds`), and what `ReadsTags` and `CountsRight` say of m4a files,
whose atoms lie inside one another to any depth.

## Not modelled

Drawing, texts and logging; in the desktop build, `poll_connection()` where
`/sys/bus/scsi/devices` cannot be opened, which reads through a null pointer, and the directories it
leaves open; `transfer_list_add_file()` and `do_tracks()`, which
nothing of the interface reaches; the browser's Transfer item, which is disabled in the
code; `check_kernel_module()`, whose result is only displayed; enqueueing in mpd;
property lists (an export that nothing of podtopod uses),
bindings, examples and the build system. podzilla, the kernel, mount and mpd are
environment, modelled from how the code uses them.
Of libipod: `ipod_discover()`, `ipod_disk_usage()`, the progress callbacks of a copy, handles
used after their track is gone, memory that runs out, the stream in memory (which has no
user), the ISO 8859 conversions (no caller), reading the presets' file (its result is a
constant), and the fields of atoms that one of their kind represents. The playlist menu
(`playlist.h`) is named by `podtopod.c`, but its source is not in the repository. What a
text takes from behind its end when it is cut inside a character is not modelled.

That a new location is compared with the files alone (`ipod.c:450`), so that the saved
database may still name it, is modelled in IpodDb and Itdb, but the code has nothing
against it and no property covers it: to remove a track, close the database without
flushing, open it again and add and upload a track can give two tracks of the saved
database the same location.

## Plan

1. *Done:* RemoteIpod, Transfer, Batch, PodToPod and their proofs, since that is
   where the program's concurrency is.
2. *Done:* IpodDb and its proofs.
3. *Done:* Atoms, Itdb and Library; MusicMenu and its proof; Strings, Streams and the
   readers of audio files.
4. *Left:* compose IpodDb with Transfer, whose `entry` abstracts it; locations of
   their own, for "no two tracks of the saved database share a file"; MusicMenu composed with
   the Transfer menu of PodToPod.
5. *Done:* proofs for PodToPod, of the refinement of Batch, and of all safety properties of
   Transfer, IpodDb and MusicMenu.
6. *Done:* a proof that what Atoms writes it reads, and proofs of all properties of Itdb:
   types, reading back, derived data, the shuffle's file, iTunes' data and the refinement of
   Library.
7. *Done:* proofs that texts survive both conversions, and of what is read of every mp3 file.
   *Left:* of every m4a file.
