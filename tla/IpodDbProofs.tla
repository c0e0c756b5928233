---------------------------- MODULE IpodDbProofs ----------------------------
(***************************************************************************)
(* For any songs, bounds, failures and databases that iTunes may have      *)
(* left: the type invariant of IpodDb, that ids identify tracks and        *)
(* playlists, and what a database that was written resolves.  Then, each   *)
(* under its own condition on what fails or who calls: a database that is  *)
(* not dirty is saved, no song is forgotten, and the items of playlists    *)
(* name the songs they were added for.                                     *)
(***************************************************************************)
EXTENDS IpodDb, FiniteSetTheorems, TLAPS

-----------------------------------------------------------------------------
(* Induction, by least counterexample                                      *)

\* A set of natural numbers has a least element.
LEMMA LeastNat ==
    ASSUME NEW T, T \subseteq Nat, T # {}
    PROVE  \E x \in T : \A y \in T : x <= y
<1> DEFINE below == {1..x : x \in T}
<1>1. IsWellFoundedOn(StrictSubsetOrdering(Nat), FiniteSubsetsOf(Nat))
  BY FS_StrictSubsetOrderingWellFounded
<1>2. below \subseteq FiniteSubsetsOf(Nat) /\ below # {}
  <2>1. ASSUME NEW x \in T PROVE 1..x \in FiniteSubsetsOf(Nat)
    <3>1. x \in Int /\ 1 \in Int
      OBVIOUS
    <3>2. IsFiniteSet(1..x)
      BY <3>1, FS_Interval
    <3> QED BY <3>2 DEF FiniteSubsetsOf
  <2> QED BY <2>1
<1>3. PICK b \in below : \A c \in below : <<c, b>> \notin StrictSubsetOrdering(Nat)
  <2> HIDE DEF below
  <2> QED BY <1>1, <1>2, WFMin
<1>4. PICK x \in T : b = 1..x
  BY <1>3
<1>5. ASSUME NEW y \in T, y < x PROVE FALSE
  <2>1. 1..y \subseteq 1..x /\ 1..y # 1..x
    <3>1. x \in 1..x /\ x \notin 1..y
      BY <1>5
    <3> QED BY <1>5, <3>1
  <2>2. <<1..y, 1..x>> \in StrictSubsetOrdering(Nat)
    BY <2>1 DEF StrictSubsetOrdering
  <2> QED BY <1>3, <1>4, <2>2
<1>6. \A y \in T : x <= y
  BY <1>5
<1> QED BY <1>6

\* A set of numbers up to n that has 0, and with each number the next, has all.
LEMMA Induction ==
    ASSUME NEW n \in Nat, NEW S, 0 \in S,
           \A i \in 1..n : i - 1 \in S => i \in S
    PROVE  \A i \in 0..n : i \in S
<1> DEFINE T == {i \in 0..n : i \notin S}
<1>1. ASSUME T # {} PROVE FALSE
  <2>1. PICK m \in T : \A y \in T : m <= y
    <3>1. T \subseteq Nat
      OBVIOUS
    <3> HIDE DEF T
    <3> QED BY <1>1, <3>1, LeastNat
  <2>2. m \in 1..n
    BY <2>1
  <2>3. m - 1 \notin T
    <3>1. ASSUME m - 1 \in T PROVE m <= m - 1
      <4> HIDE DEF T
      <4> QED BY <2>1, <3>1
    <3>2. m \in Int /\ ~(m <= m - 1)
      BY <2>2
    <3> HIDE DEF T
    <3> QED BY <3>1, <3>2
  <2>4. m - 1 \in S
    BY <2>2, <2>3
  <2> QED BY <2>1, <2>2, <2>4
<1> QED BY <1>1

\* What step[n] makes of the value before it, from "base" on.
Walk(g, N, base, step) == g[0] = base /\ \A n \in 1..N : g[n] = step[n][g[n - 1]]

\* Such a walk exists.
LEMMA WalkExists ==
    ASSUME NEW N \in Nat, NEW V, NEW base \in V, NEW step \in [1..N -> [V -> V]]
    PROVE  \E g \in [0..N -> V] : Walk(g, N, base, step)
<1> DEFINE M == {m \in 0..N : \E g \in [0..m -> V] : Walk(g, m, base, step)}
<1>1. 0 \in M
  <2>1. [k \in 0..0 |-> base] \in [0..0 -> V] /\ Walk([k \in 0..0 |-> base], 0, base, step)
    BY DEF Walk
  <2> QED BY <2>1
<1>2. ASSUME NEW m \in 1..N, m - 1 \in M PROVE m \in M
  <2>1. PICK g \in [0..(m - 1) -> V] : Walk(g, m - 1, base, step)
    BY <1>2
  <2> DEFINE new == [k \in 0..m |-> IF k = m THEN step[m][g[m - 1]] ELSE g[k]]
  <2>2. m \in 0..N /\ m - 1 \in 0..(m - 1)
    OBVIOUS
  <2>3. step[m][g[m - 1]] \in V
    BY <2>2
  <2>4. ASSUME NEW k \in 0..m, k # m PROVE k \in 0..(m - 1)
    BY <2>4
  <2>5. new \in [0..m -> V]
    BY <2>3, <2>4
  <2>6. Walk(new, m, base, step)
    <3>1. new[0] = base
      BY <2>1 DEF Walk
    <3>2. ASSUME NEW k \in 1..m PROVE new[k] = step[k][new[k - 1]]
      <4>1. k - 1 \in 0..m /\ k - 1 # m /\ k \in 0..m
        OBVIOUS
      <4>2. new[k - 1] = g[k - 1]
        BY <4>1
      <4>3. CASE k = m
        BY <4>1, <4>2, <4>3
      <4>4. CASE k # m
        <5>1. k \in 1..(m - 1)
          BY <4>4
        <5> QED BY <2>1, <4>1, <4>2, <4>4, <5>1 DEF Walk
      <4> QED BY <4>3, <4>4
    <3> HIDE DEF new
    <3> QED BY <3>1, <3>2 DEF Walk
  <2> HIDE DEF new
  <2> QED BY <2>2, <2>5, <2>6
<1>3. N \in M
  <2>1. N \in 0..N
    OBVIOUS
  <2> HIDE DEF M
  <2>2. \A i \in 1..N : i - 1 \in M => i \in M
    BY <1>2
  <2>3. \A i \in 0..N : i \in M
    BY <1>1, <2>2, Induction
  <2> QED BY <2>1, <2>3
<1> QED BY <1>3

-----------------------------------------------------------------------------
(* New ids                                                                 *)

\* An id that ipod_unique_track_id() or ipod_unique_playlist_id() returns is
\* above every id of the list: the value found so far only grows.
LEMMA IdAbove ==
    ASSUME NEW ids \in Seq(Int), NEW first \in Int
    PROVE  /\ unique_id(first, ids) \in Int /\ unique_id(first, ids) >= first
           /\ \A i \in DOMAIN ids : ids[i] < unique_id(first, ids)
<1> DEFINE N == Len(ids)
           step == [n \in 1..N |-> [x \in Int |-> IF ids[n] >= x THEN ids[n] + 2 ELSE x]]
           Body(g) == [n \in 0..N |-> IF n = 0 THEN first
                                      ELSE IF ids[n] >= g[n - 1] THEN ids[n] + 2 ELSE g[n - 1]]
           Rec(g) == g = Body(g)
<1>1. N \in Nat /\ DOMAIN ids = 1..N /\ \A n \in 1..N : ids[n] \in Int
  OBVIOUS
<1> HIDE DEF N
<1>2. step \in [1..N -> [Int -> Int]]
  BY <1>1
<1>3. PICK g \in [0..N -> Int] : Walk(g, N, first, step)
  <2> HIDE DEF step
  <2> QED BY <1>1, <1>2, WalkExists
<1>4. ASSUME NEW n \in 1..N
      PROVE  g[n - 1] \in Int /\ g[n] = IF ids[n] >= g[n - 1] THEN ids[n] + 2 ELSE g[n - 1]
  <2>1. n - 1 \in 0..N
    BY <1>1
  <2>2. g[n - 1] \in Int
    BY <2>1
  <2>3. g[n] = step[n][g[n - 1]]
    BY <1>3 DEF Walk
  <2> QED BY <2>2, <2>3
<1>5. g[0] = first
  BY <1>3 DEF Walk
<1> HIDE DEF step
<1>6. Rec(g)
  <2>1. ASSUME NEW n \in 0..N PROVE g[n] = Body(g)[n]
    <3>1. CASE n = 0
      BY <1>5, <3>1
    <3>2. CASE n # 0
      <4>1. n \in 1..N
        BY <3>2
      <4> QED BY <1>4, <3>2, <4>1
    <3> QED BY <3>1, <3>2
  <2>2. g = [n \in 0..N |-> g[n]]
    OBVIOUS
  <2> QED BY <2>1, <2>2
<1> DEFINE next == CHOOSE h : Rec(h)
<1>7. Rec(next)
  <2> HIDE DEF Rec
  <2> QED BY <1>6
<1>8. unique_id(first, ids) = next[N]
  BY DEF unique_id, N
<1> HIDE DEF next
<1> DEFINE M == {m \in 0..N : /\ next[m] \in Int /\ next[m] >= first
                             /\ \A i \in 1..m : ids[i] < next[m]}
<1>9. 0 \in M
  <2>1. next[0] = first
    BY <1>1, <1>7
  <2> QED BY <1>1, <2>1
<1>10. ASSUME NEW m \in 1..N, m - 1 \in M PROVE m \in M
  <2>1. m \in 0..N /\ m # 0 /\ ids[m] \in Int
    BY <1>1
  <2>2. next[m] = IF ids[m] >= next[m - 1] THEN ids[m] + 2 ELSE next[m - 1]
    BY <1>7, <2>1
  <2>3. /\ next[m - 1] \in Int /\ next[m - 1] >= first
        /\ \A i \in 1..m - 1 : ids[i] < next[m - 1]
    BY <1>10
  <2>4. next[m] \in Int /\ next[m] >= first /\ next[m] >= next[m - 1] /\ ids[m] < next[m]
    BY <2>1, <2>2, <2>3
  <2>5. ASSUME NEW i \in 1..m PROVE ids[i] < next[m]
    <3>1. CASE i = m
      BY <2>4, <3>1
    <3>2. CASE i # m
      <4>1. i \in 1..m - 1 /\ ids[i] \in Int
        BY <1>1, <3>2
      <4>2. ids[i] < next[m - 1]
        BY <2>3, <4>1
      <4> QED BY <2>3, <2>4, <4>1, <4>2
    <3> QED BY <3>1, <3>2
  <2> QED BY <2>1, <2>4, <2>5
<1>11. N \in M
  <2>1. N \in 0..N
    BY <1>1
  <2> HIDE DEF M
  <2>2. \A i \in 1..N : i - 1 \in M => i \in M
    BY <1>10
  <2>3. \A i \in 0..N : i \in M
    BY <1>1, <1>9, <2>2, Induction
  <2> QED BY <2>1, <2>3
<1> QED BY <1>1, <1>8, <1>11

\* So no element of the list has it.
LEMMA UniqueId ==
    ASSUME NEW R, \A r \in R : r.id \in Nat, NEW list \in Seq(R), NEW first \in Nat
    PROVE  /\ unique_id(first, IdsOf(list)) \in Nat
           /\ \A i \in DOMAIN list : list[i].id < unique_id(first, IdsOf(list))
<1>1. DOMAIN list = 1..Len(list) /\ \A i \in 1..Len(list) : list[i].id \in Int
  OBVIOUS
<1>2. IdsOf(list) \in Seq(Int) /\ DOMAIN IdsOf(list) = DOMAIN list
      /\ \A i \in DOMAIN list : IdsOf(list)[i] = list[i].id
  BY <1>1 DEF IdsOf
<1>3. /\ unique_id(first, IdsOf(list)) \in Int /\ unique_id(first, IdsOf(list)) >= first
      /\ \A i \in DOMAIN IdsOf(list) : IdsOf(list)[i] < unique_id(first, IdsOf(list))
  BY <1>2, IdAbove
<1> QED BY <1>2, <1>3

-----------------------------------------------------------------------------
(* What the operations make of a database                                  *)

\* A database of the right type whose ids identify its parts.
DbOK(d) == d \in Database /\ UniqueIds(d.tracks) /\ UniqueIds(d.playlists)

\* A new database is one.
LEMMA NewDatabaseOK == DbOK(NewDatabase)
<1> DEFINE p == [id |-> MasterId, hidden |-> TRUE, items |-> {}]
<1>1. p \in Playlist
  BY DEF Playlist, MasterId
<1>2. <<p>> \in Seq(Playlist) /\ UniqueIds(<<p>>)
  <2> HIDE DEF p
  <2> QED BY <1>1 DEF UniqueIds
<1>3. <<>> \in Seq(Entry) /\ UniqueIds(<<>>)
  BY DEF UniqueIds
<1> HIDE DEF p
<1>4. NewDatabase = [tracks |-> <<>>, playlists |-> <<p>>, podcasts |-> <<p>>]
  BY DEF NewDatabase, p
<1> QED BY <1>2, <1>3, <1>4 DEF DbOK, Database

\* So is one that iTunes left.
LEMMA ForeignOK == ASSUME NEW d \in Foreign PROVE DbOK(d)
  BY IpodDbAssumption DEF DbOK

\* NULL is no database.
LEMMA NotNull == ASSUME NEW d, DbOK(d) PROVE d # NULL
  BY IpodDbAssumption DEF DbOK

\* Removing from a list keeps its type, and its ids apart.
LEMMA WithoutOK ==
    ASSUME NEW R, NEW list \in Seq(R), NEW gone, UniqueIds(list),
           NEW rest \in Without(list, gone)
    PROVE  rest \in Seq(R) /\ UniqueIds(rest)
<1> DEFINE kept == DOMAIN list \ gone
<1>1. PICK f \in [1..Cardinality(kept) -> kept] :
          /\ \A i, j \in DOMAIN f : i < j => f[i] < f[j]
          /\ rest = [i \in DOMAIN f |-> list[f[i]]]
  BY DEF Without
<1>2. Cardinality(kept) \in Nat
  <2>1. IsFiniteSet(1..Len(list)) /\ DOMAIN list = 1..Len(list)
    <3>1. Len(list) \in Int /\ 1 \in Int
      OBVIOUS
    <3> QED BY <3>1, FS_Interval
  <2>2. kept \in SUBSET (1..Len(list))
    BY <2>1
  <2>3. IsFiniteSet(kept)
    BY <2>1, <2>2, FS_Subset
  <2> QED BY <2>3, FS_CardinalityType
<1> DEFINE n == Cardinality(kept)
<1> HIDE DEF n
<1>3. DOMAIN f = 1..n /\ n \in Nat /\ \A i \in 1..n : f[i] \in DOMAIN list
  BY <1>2 DEF n
<1>4. DOMAIN list = 1..Len(list) /\ \A i \in DOMAIN list : i \in Int /\ list[i] \in R
  OBVIOUS
<1> HIDE DEF kept
<1>5. rest \in Seq(R)
  <2>1. rest = [i \in 1..n |-> list[f[i]]]
    BY <1>1, <1>3
  <2>2. \A i \in 1..n : list[f[i]] \in R
    BY <1>3, <1>4
  <2>3. rest \in [1..n -> R]
    BY <2>1, <2>2
  <2> QED BY <1>3, <2>3
<1>6. ASSUME NEW i \in 1..n, NEW j \in 1..n, rest[i].id = rest[j].id PROVE i = j
  <2>1. f[i] = f[j]
    BY <1>1, <1>3, <1>6 DEF UniqueIds
  <2>2. f[i] \in Int /\ f[j] \in Int /\ i \in Int /\ j \in Int
    BY <1>3, <1>4
  <2>3. i < j => f[i] < f[j]
    BY <1>1, <1>3
  <2>4. j < i => f[j] < f[i]
    BY <1>1, <1>3
  <2> QED BY <2>1, <2>2, <2>3, <2>4
<1>7. DOMAIN rest = 1..n
  BY <1>1, <1>3
<1> QED BY <1>5, <1>6, <1>7 DEF UniqueIds

\* Appending what has an id above all others does, too.
LEMMA AppendOK ==
    ASSUME NEW R, \A r \in R : r.id \in Nat, NEW list \in Seq(R), UniqueIds(list),
           NEW r \in R, \A i \in DOMAIN list : list[i].id < r.id
    PROVE  Append(list, r) \in Seq(R) /\ UniqueIds(Append(list, r))
<1> DEFINE new == Append(list, r)
<1>1. /\ new \in Seq(R) /\ Len(list) \in Nat
      /\ DOMAIN list = 1..Len(list) /\ DOMAIN new = 1..(Len(list) + 1)
      /\ \A i \in 1..Len(list) : new[i] = list[i] /\ list[i].id \in Nat
      /\ new[Len(list) + 1] = r /\ r.id \in Nat
  OBVIOUS
<1> HIDE DEF new
<1>2. ASSUME NEW i \in DOMAIN new, NEW j \in DOMAIN new, new[i].id = new[j].id
      PROVE  i = j
  <2>1. CASE i \in 1..Len(list) /\ j \in 1..Len(list)
    BY <1>1, <1>2, <2>1 DEF UniqueIds
  <2>2. CASE i = Len(list) + 1 /\ j \in 1..Len(list)
    BY <1>1, <1>2, <2>2
  <2>3. CASE i \in 1..Len(list) /\ j = Len(list) + 1
    BY <1>1, <1>2, <2>3
  <2>4. CASE i = Len(list) + 1 /\ j = Len(list) + 1
    BY <2>4
  <2> QED BY <1>1, <2>1, <2>2, <2>3, <2>4
<1> QED BY <1>1, <1>2 DEF UniqueIds, new

\* Preparing a playlist keeps its id and adds only entries of the track list.
LEMMA PrepareListOK ==
    ASSUME NEW tracks \in Seq(Entry), NEW playlists \in Seq(Playlist)
    PROVE  /\ prepare_mhlp(tracks, playlists) \in Seq(Playlist)
           /\ DOMAIN prepare_mhlp(tracks, playlists) = DOMAIN playlists
           /\ \A i \in DOMAIN playlists :
                  /\ prepare_mhlp(tracks, playlists)[i] = prepare_mhyp(tracks, playlists[i])
                  /\ prepare_mhlp(tracks, playlists)[i].id = playlists[i].id
<1>1. Elements(tracks) \subseteq Entry
  BY DEF Elements
<1>2. ASSUME NEW p \in Playlist
      PROVE  prepare_mhyp(tracks, p) \in Playlist /\ prepare_mhyp(tracks, p).id = p.id
  <2> DEFINE items == check_playlist(tracks,
                          IF p.hidden THEN check_master_playlist(tracks, p.items) ELSE p.items)
  <2>1. items \subseteq Entry
    BY <1>1 DEF check_playlist, check_master_playlist, Playlist
  <2>2. prepare_mhyp(tracks, p) = [p EXCEPT !.items = items]
    BY DEF prepare_mhyp
  <2> HIDE DEF items
  <2> QED BY <2>1, <2>2 DEF Playlist
<1> DEFINE new == prepare_mhlp(tracks, playlists)
<1>3. /\ Len(playlists) \in Nat /\ DOMAIN playlists = 1..Len(playlists)
      /\ \A i \in 1..Len(playlists) : playlists[i] \in Playlist
  OBVIOUS
<1>4. new = [i \in 1..Len(playlists) |-> prepare_mhyp(tracks, playlists[i])]
  BY <1>3 DEF prepare_mhlp
<1> HIDE DEF new
<1>5. new \in [1..Len(playlists) -> Playlist]
  BY <1>2, <1>3, <1>4
<1>6. new \in Seq(Playlist)
  BY <1>3, <1>5
<1> QED BY <1>2, <1>3, <1>4, <1>6 DEF new

\* So a database that is prepared to be written stays one.
LEMMA PrepareOK == ASSUME NEW d, DbOK(d) PROVE DbOK(prepare_to_write(d))
<1> DEFINE lists == prepare_mhlp(d.tracks, d.playlists)
<1>1. /\ d.tracks \in Seq(Entry) /\ UniqueIds(d.tracks)
      /\ d.playlists \in Seq(Playlist) /\ UniqueIds(d.playlists)
  BY DEF DbOK, Database
<1>2. lists \in Seq(Playlist) /\ UniqueIds(lists)
  BY <1>1, PrepareListOK DEF UniqueIds
<1>3. prepare_to_write(d) \in [tracks : {d.tracks}, playlists : {lists},
                                 podcasts : {NULL, lists}]
  <2>1. d \in [tracks : {d.tracks}, playlists : {d.playlists}, podcasts : {d.podcasts}]
    BY DEF DbOK, Database
  <2> HIDE DEF lists
  <2>2. prepare_to_write(d) = [d EXCEPT !.playlists = lists,
                                  !.podcasts = IF d.podcasts = NULL THEN NULL ELSE lists]
    BY DEF prepare_to_write, lists
  <2> QED BY <2>1, <2>2
<1> HIDE DEF lists
<1> QED BY <1>1, <1>2, <1>3 DEF DbOK, Database

-----------------------------------------------------------------------------
(* The steps                                                               *)

\* The iTunesDB file in any of its states.
DiskOK(f) ==
    \E state \in DiskStates, d \in Database \cup {NULL} :
        /\ f = [state |-> state, db |-> d]
        /\ state \in {"foreign", "written"} <=> d # NULL
        /\ d = NULL \/ DbOK(d)

\* Both invariants: what is not NULL is a database with unique ids.
IInv ==
    /\ db = NULL \/ DbOK(db)
    /\ db_dirty \in BOOLEAN
    /\ files \subseteq Songs
    /\ DiskOK(disk)

\* They are those of the model.
LEMMA IInvParts == IInv => TypeOK /\ IdsUnique
<1> SUFFICES ASSUME IInv PROVE TypeOK /\ IdsUnique
  OBVIOUS
<1>1. PICK state \in DiskStates, d \in Database \cup {NULL} :
          /\ disk = [state |-> state, db |-> d]
          /\ state \in {"foreign", "written"} <=> d # NULL
          /\ d = NULL \/ DbOK(d)
  BY DEF IInv, DiskOK
<1>2. disk.state = state /\ disk.db = d
  BY <1>1
<1>3. TypeOK
  <2>1. db \in Database \cup {NULL}
    BY DEF IInv, DbOK
  <2>2. disk \in [state : DiskStates, db : Database \cup {NULL}]
    BY <1>1
  <2>3. disk.state \in {"foreign", "written"} <=> disk.db # NULL
    BY <1>1, <1>2
  <2> QED BY <2>1, <2>2, <2>3 DEF TypeOK, IInv
<1>4. IdsUnique
  BY <1>1, <1>2 DEF IInv, IdsUnique, DbOK
<1> QED BY <1>3, <1>4

\* The iPod is found in such a state.
LEMMA InitOK == Init => IInv
<1> SUFFICES ASSUME Init PROVE IInv
  OBVIOUS
<1>1. CASE disk = [state |-> "none", db |-> NULL]
  BY <1>1 DEF Init, IInv, DiskOK, DiskStates
<1>2. CASE \E d \in Foreign : disk = [state |-> "foreign", db |-> d]
  <2>1. PICK d \in Foreign : disk = [state |-> "foreign", db |-> d]
    BY <1>2
  <2>2. DbOK(d) /\ d # NULL /\ d \in Database /\ disk.db = d
    BY <2>1, ForeignOK, NotNull DEF DbOK
  <2>3. DiskOK(disk)
    BY <2>1, <2>2 DEF DiskOK, DiskStates
  <2>4. files \subseteq Songs
    <3>1. d.tracks \in Seq(Entry)
      BY <2>2 DEF Database
    <3>2. ASSUME NEW i \in DOMAIN d.tracks PROVE d.tracks[i].song \in Songs
      <4>1. d.tracks[i] \in Entry
        BY <3>1
      <4> QED BY <4>1 DEF Entry
    <3>3. files = {t.song : t \in Elements(d.tracks)}
      BY <2>2 DEF Init
    <3> QED BY <3>2, <3>3 DEF Elements
  <2> QED BY <2>3, <2>4 DEF Init, IInv
<1> QED BY <1>1, <1>2 DEF Init

\* Whatever becomes of a write, the file is in one of its states.
LEMMA WrittenOK == ASSUME NEW d, DbOK(d) PROVE DiskOK([state |-> "written", db |-> d])
<1>1. d # NULL /\ d \in Database
  BY NotNull DEF DbOK
<1> QED BY <1>1 DEF DiskOK, DiskStates

\* That includes a torn file.
LEMMA TornOK == DiskOK(Torn)
  BY DEF DiskOK, DiskStates, Torn

\* A database stays one when its list of tracks is replaced by a good one.
LEMMA TracksOK ==
    ASSUME NEW d, DbOK(d), NEW tracks \in Seq(Entry), UniqueIds(tracks)
    PROVE  DbOK([d EXCEPT !.tracks = tracks])
<1>1. d \in [tracks : {d.tracks}, playlists : Seq(Playlist),
             podcasts : Seq(Playlist) \cup {NULL}]
  BY DEF DbOK, Database
<1>2. UniqueIds(d.playlists)
  BY DEF DbOK
<1> QED BY <1>1, <1>2 DEF DbOK, Database

\* And so it does for its list of playlists.
LEMMA PlaylistsOK ==
    ASSUME NEW d, DbOK(d), NEW playlists \in Seq(Playlist), UniqueIds(playlists)
    PROVE  DbOK([d EXCEPT !.playlists = playlists])
<1>1. d \in [tracks : Seq(Entry), playlists : {d.playlists},
             podcasts : Seq(Playlist) \cup {NULL}]
  BY DEF DbOK, Database
<1>2. UniqueIds(d.tracks)
  BY DEF DbOK
<1> QED BY <1>1, <1>2 DEF DbOK, Database

\* Changing the items of a playlist leaves its id alone.
LEMMA ItemsOK ==
    ASSUME NEW d, DbOK(d), NEW i \in DOMAIN d.playlists, NEW items \in SUBSET Entry
    PROVE  DbOK([d EXCEPT !.playlists[i].items = items])
<1> DEFINE old == d.playlists
           p == [old[i] EXCEPT !.items = items]
           new == [old EXCEPT ![i] = p]
<1>1. old \in Seq(Playlist) /\ UniqueIds(old) /\ i \in DOMAIN old
  BY DEF DbOK, Database
<1>2. [d EXCEPT !.playlists[i].items = items] = [d EXCEPT !.playlists = new]
  OBVIOUS
<1> HIDE DEF old
<1>3. old[i] \in Playlist
  BY <1>1
<1>4. p \in Playlist /\ p.id = old[i].id
  BY <1>3 DEF Playlist
<1> HIDE DEF p
<1>5. new \in Seq(Playlist) /\ DOMAIN new = DOMAIN old
      /\ \A j \in DOMAIN old : new[j] = IF j = i THEN p ELSE old[j]
  BY <1>1, <1>4
<1> HIDE DEF new
<1>6. UniqueIds(new)
  BY <1>1, <1>4, <1>5 DEF UniqueIds
<1> QED BY <1>2, <1>5, <1>6, PlaylistsOK

\* Adding and removing tracks.
LEMMA TracksStep == IInv /\ Tracks => IInv'
<1> SUFFICES ASSUME IInv, Tracks PROVE IInv'
  OBVIOUS
<1>1. ASSUME db # NULL
      PROVE  DbOK(db) /\ db.tracks \in Seq(Entry) /\ UniqueIds(db.tracks)
  <2>1. DbOK(db)
    BY <1>1 DEF IInv
  <2>2. db.tracks \in Seq(Entry)
    BY <2>1 DEF DbOK, Database
  <2> QED BY <2>1, <2>2 DEF DbOK
<1>3. ASSUME NEW song \in Songs, ipod_track_add(song) PROVE IInv'
  <2> DEFINE id == unique_id(FirstTrackId, IdsOf(db.tracks))
             r == [id |-> id, song |-> song]
  <2>1. id \in Nat /\ \A i \in DOMAIN db.tracks : db.tracks[i].id < id
    <3>1. FirstTrackId \in Nat /\ \A e \in Entry : e.id \in Nat
      BY DEF FirstTrackId, Entry
    <3> QED BY <1>1, <1>3, <3>1, UniqueId DEF ipod_track_add
  <2>2. db # NULL /\ db' = [db EXCEPT !.tracks = Append(@, r)]
    BY <1>3 DEF ipod_track_add
  <2> HIDE DEF id
  <2>3. r \in Entry /\ r.id = id /\ \A e \in Entry : e.id \in Nat
    BY <2>1 DEF Entry
  <2> HIDE DEF r
  <2>4. Append(db.tracks, r) \in Seq(Entry) /\ UniqueIds(Append(db.tracks, r))
    BY <1>1, <2>1, <2>2, <2>3, AppendOK
  <2>5. DbOK(db')
    BY <1>1, <2>2, <2>4, TracksOK
  <2> QED BY <1>3, <2>5 DEF ipod_track_add, IInv
<1>4. ASSUME db # NULL, NEW gone, NEW tracks \in Without(db.tracks, gone)
      PROVE  DbOK([db EXCEPT !.tracks = tracks])
  <2>1. tracks \in Seq(Entry) /\ UniqueIds(tracks)
    BY <1>1, <1>4, WithoutOK
  <2> QED BY <1>1, <1>4, <2>1, TracksOK
<1>5. ASSUME db # NULL, NEW i \in DOMAIN db.tracks, ipod_track_remove(i) PROVE IInv'
  <2>1. DbOK(db')
    BY <1>4, <1>5 DEF ipod_track_remove
  <2> QED BY <1>5, <2>1 DEF ipod_track_remove, IInv
<1>6. ASSUME db # NULL, NEW gone \in SUBSET DOMAIN db.tracks, remove_tracks_do_delete(gone)
      PROVE  IInv'
  <2>1. DbOK(db')
    BY <1>4, <1>6, PrepareOK DEF remove_tracks_do_delete
  <2>2. DiskOK(disk')
    BY <1>6, <2>1, WrittenOK, TornOK DEF remove_tracks_do_delete, IInv
  <2> QED BY <1>6, <2>1, <2>2 DEF remove_tracks_do_delete, IInv
<1>7. ASSUME db # NULL, NEW gone \in SUBSET DOMAIN db.tracks, CrashInRemove(gone)
      PROVE  IInv'
  BY <1>7, TornOK DEF CrashInRemove, IInv
<1> QED BY <1>3, <1>5, <1>6, <1>7 DEF Tracks

\* Adding and removing playlists and their items.
LEMMA PlaylistsStep == IInv /\ Playlists => IInv'
<1> SUFFICES ASSUME IInv, Playlists PROVE IInv'
  OBVIOUS
<1>1. db # NULL /\ DbOK(db) /\ db.playlists \in Seq(Playlist) /\ UniqueIds(db.playlists)
      /\ db.tracks \in Seq(Entry)
  <2>1. db # NULL /\ DbOK(db)
    BY DEF IInv, Playlists, ipod_playlist_add
  <2> QED BY <2>1 DEF DbOK, Database
<1>2. ASSUME ipod_playlist_add PROVE IInv'
  <2> DEFINE id == unique_id(FirstPlaylistId, IdsOf(db.playlists))
             p == [id |-> id, hidden |-> FALSE, items |-> {}]
  <2>1. id \in Nat /\ \A i \in DOMAIN db.playlists : db.playlists[i].id < id
    <3>1. FirstPlaylistId \in Nat /\ \A q \in Playlist : q.id \in Nat
      BY DEF FirstPlaylistId, Playlist
    <3> QED BY <1>1, <3>1, UniqueId
  <2>2. db' = [db EXCEPT !.playlists = Append(@, p)]
    BY <1>2 DEF ipod_playlist_add
  <2> HIDE DEF id
  <2>3. p \in Playlist /\ p.id = id /\ \A q \in Playlist : q.id \in Nat
    BY <2>1 DEF Playlist
  <2> HIDE DEF p
  <2>4. /\ Append(db.playlists, p) \in Seq(Playlist)
        /\ UniqueIds(Append(db.playlists, p))
    BY <1>1, <2>1, <2>3, AppendOK
  <2>5. DbOK(db')
    BY <1>1, <2>2, <2>4, PlaylistsOK
  <2> QED BY <1>2, <2>5 DEF ipod_playlist_add, IInv
<1>3. ASSUME NEW i \in DOMAIN db.playlists, ipod_playlist_remove(i) PROVE IInv'
  <2>1. PICK playlists \in Without(db.playlists, {i}) :
            db' = [db EXCEPT !.playlists = playlists]
    BY <1>3 DEF ipod_playlist_remove
  <2>2. playlists \in Seq(Playlist) /\ UniqueIds(playlists)
    BY <1>1, WithoutOK
  <2>3. DbOK(db')
    BY <1>1, <2>1, <2>2, PlaylistsOK
  <2> QED BY <1>3, <2>3 DEF ipod_playlist_remove, IInv
<1>4. ASSUME NEW i \in DOMAIN db.playlists PROVE db.playlists[i].items \in SUBSET Entry
  <2>1. db.playlists[i] \in Playlist
    BY <1>1
  <2> QED BY <2>1 DEF Playlist
<1>5. ASSUME NEW i \in DOMAIN db.playlists, NEW track \in Elements(db.tracks),
             ipod_track_item_add(i, track)
      PROVE  IInv'
  <2>1. track \in Entry
    BY <1>1 DEF Elements
  <2>2. db.playlists[i].items \cup {track} \in SUBSET Entry
    BY <1>4, <2>1
  <2>3. DbOK(db')
    BY <1>1, <1>5, <2>2, ItemsOK DEF ipod_track_item_add
  <2> QED BY <1>5, <2>3 DEF ipod_track_item_add, IInv
<1>6. ASSUME NEW i \in DOMAIN db.playlists, NEW item \in db.playlists[i].items,
             ipod_track_item_remove(i, item)
      PROVE  IInv'
  <2>1. db.playlists[i].items \ {item} \in SUBSET Entry
    BY <1>4
  <2>2. DbOK(db')
    BY <1>1, <1>6, <2>1, ItemsOK DEF ipod_track_item_remove
  <2> QED BY <1>6, <2>2 DEF ipod_track_item_remove, IInv
<1> QED BY <1>2, <1>3, <1>5, <1>6 DEF Playlists

\* Opening, writing and closing, and crashes.
LEMMA FilesStep ==
    ASSUME IInv, ipod_new \/ ipod_flush \/ ipod_free \/ CrashInFlush
    PROVE  IInv'
<1>1. CASE ipod_new
  <2>1. CASE db' = NewDatabase /\ db_dirty' = TRUE
    BY <1>1, <2>1, NewDatabaseOK DEF ipod_new, IInv
  <2>2. CASE Readable /\ db' = disk.db /\ db_dirty' = FALSE
    <3>1. db' = NULL \/ DbOK(db')
      BY <2>2 DEF IInv, DiskOK
    <3> QED BY <1>1, <2>2, <3>1 DEF ipod_new, IInv
  <2> QED BY <1>1, <2>1, <2>2 DEF ipod_new
<1>2. CASE ipod_flush
  <2>1. DbOK(db')
    BY <1>2, PrepareOK DEF ipod_flush, IInv
  <2>2. DiskOK(disk')
    BY <1>2, <2>1, WrittenOK, TornOK DEF ipod_flush, WriteDatabase, IInv
  <2> QED BY <1>2, <2>1, <2>2 DEF ipod_flush, IInv
<1>3. CASE ipod_free
  BY <1>3 DEF ipod_free, IInv
<1>4. CASE CrashInFlush
  BY <1>4, TornOK DEF CrashInFlush, IInv
<1> QED BY <1>1, <1>2, <1>3, <1>4

\* Every step keeps the invariant.
LEMMA StepOK == IInv /\ [Next]_vars => IInv'
<1> SUFFICES ASSUME IInv, [Next]_vars PROVE IInv'
  OBVIOUS
<1>1. CASE UNCHANGED vars
  BY <1>1 DEF vars, IInv
<1>2. CASE Next
  BY <1>2, TracksStep, PlaylistsStep, FilesStep DEF Next
<1> QED BY <1>1, <1>2

\* The database in memory and the one in the file stay what the code takes
\* them for, whatever calls and failures come in whatever order.
THEOREM TypeCorrect == Spec => []TypeOK
<1>1. IInv => TypeOK
  BY IInvParts
<1> QED BY InitOK, StepOK, <1>1, PTL DEF Spec

\* No two tracks, and no two playlists, of one database share an id: the new
\* ids of ipod.c:347-360 and 714-727 are above all that the list has, also
\* after the list was read back from an older file.
THEOREM UniqueIdentifiers == Spec => []IdsUnique
<1>1. IInv => IdsUnique
  BY IInvParts
<1> QED BY InitOK, StepOK, <1>1, PTL DEF Spec

-----------------------------------------------------------------------------
(* What is written                                                         *)

\* What WrittenResolves says of the database in the file.
Resolves(d) ==
    LET ids == Ids(Elements(d.tracks))
    IN  /\ \A p \in Elements(d.playlists) :
              /\ Ids(p.items) \subseteq ids
              /\ p.hidden => ids \subseteq Ids(p.items)
        /\ d.podcasts \in {NULL, d.playlists}

\* Checking a playlist against the tracks drops the items of other tracks;
\* checking a master playlist before that adds what it lacks.
LEMMA PreparedPlaylist ==
    ASSUME NEW tracks, NEW p \in Playlist
    PROVE  LET q == prepare_mhyp(tracks, p)
           IN  /\ Ids(q.items) \subseteq Ids(Elements(tracks))
               /\ q.hidden => Ids(Elements(tracks)) \subseteq Ids(q.items)
<1> DEFINE E == Elements(tracks)
           all == IF p.hidden THEN check_master_playlist(tracks, p.items) ELSE p.items
           q == prepare_mhyp(tracks, p)
<1>1. q.items = check_playlist(tracks, all) /\ q.hidden = p.hidden
  BY DEF prepare_mhyp, Playlist
<1>2. check_playlist(tracks, all) = {e \in all : e.id \in Ids(E)}
  BY DEF check_playlist
<1> HIDE DEF q
<1>3. Ids(q.items) \subseteq Ids(E)
  <2> HIDE DEF all, E
  <2> QED BY <1>1, <1>2 DEF Ids
<1>4. ASSUME p.hidden PROVE Ids(E) \subseteq Ids(q.items)
  <2>1. all = p.items \cup {t \in E : t.id \notin Ids(p.items)}
    BY <1>4 DEF check_master_playlist
  <2> HIDE DEF all, E
  <2>2. ASSUME NEW t \in E PROVE t.id \in Ids(q.items)
    <3>1. t.id \in Ids(E)
      BY DEF Ids
    <3>2. PICK e \in all : e.id = t.id
      BY <2>1 DEF Ids
    <3>3. e \in q.items
      BY <1>1, <1>2, <3>1, <3>2
    <3> QED BY <3>2, <3>3 DEF Ids
  <2> QED BY <2>2 DEF Ids
<1> QED BY <1>1, <1>3, <1>4 DEF q

\* So everything that prepare_to_write() returns resolves.
LEMMA PreparedResolves == ASSUME NEW d, DbOK(d) PROVE Resolves(prepare_to_write(d))
<1> DEFINE lists == prepare_mhlp(d.tracks, d.playlists)
           w == prepare_to_write(d)
<1>1. d.tracks \in Seq(Entry) /\ d.playlists \in Seq(Playlist)
  BY DEF DbOK, Database
<1>2. w.tracks = d.tracks /\ w.playlists = lists /\ w.podcasts \in {NULL, lists}
  <2>1. d \in [tracks : {d.tracks}, playlists : {d.playlists}, podcasts : {d.podcasts}]
    BY DEF DbOK, Database
  <2> HIDE DEF lists
  <2>2. w = [d EXCEPT !.playlists = lists,
                      !.podcasts = IF d.podcasts = NULL THEN NULL ELSE lists]
    BY DEF prepare_to_write, lists
  <2> HIDE DEF w
  <2> QED BY <2>1, <2>2
<1>3. ASSUME NEW i \in DOMAIN lists
      PROVE  /\ Ids(lists[i].items) \subseteq Ids(Elements(d.tracks))
             /\ lists[i].hidden => Ids(Elements(d.tracks)) \subseteq Ids(lists[i].items)
  <2>1. lists[i] = prepare_mhyp(d.tracks, d.playlists[i]) /\ d.playlists[i] \in Playlist
    BY <1>1, PrepareListOK
  <2> HIDE DEF lists
  <2> QED BY <2>1, PreparedPlaylist
<1> HIDE DEF lists, w
<1>4. Resolves(w)
  BY <1>2, <1>3 DEF Resolves, Elements
<1> QED BY <1>4 DEF w

\* Nothing but a prepared database is ever written.
WInv == disk.state = "written" => Resolves(disk.db)

\* Each step keeps that so; only two of them write.
LEMMA WrittenStep == IInv /\ WInv /\ [Next]_vars => WInv'
<1> SUFFICES ASSUME IInv, WInv, [Next]_vars PROVE WInv'
  OBVIOUS
<1>1. ASSUME UNCHANGED disk PROVE WInv'
  BY <1>1 DEF WInv
<1>2. ASSUME disk' = Torn PROVE WInv'
  BY <1>2 DEF WInv, Torn
<1>3. ASSUME NEW d, DbOK(d), disk' = [state |-> "written", db |-> prepare_to_write(d)]
      PROVE  WInv'
  BY <1>3, PreparedResolves DEF WInv
<1>4. CASE ipod_flush
  <2>1. DbOK(db)
    BY <1>4 DEF ipod_flush, IInv
  <2> QED BY <1>1, <1>2, <1>3, <1>4, <2>1 DEF ipod_flush, WriteDatabase
<1>5. ASSUME db # NULL, NEW gone \in SUBSET DOMAIN db.tracks, remove_tracks_do_delete(gone)
      PROVE  WInv'
  <2>1. PICK tracks \in Without(db.tracks, gone) :
            db' = prepare_to_write([db EXCEPT !.tracks = tracks])
    BY <1>5 DEF remove_tracks_do_delete
  <2>2. db.tracks \in Seq(Entry) /\ UniqueIds(db.tracks) /\ DbOK(db)
    BY <1>5 DEF IInv, DbOK, Database
  <2>3. DbOK([db EXCEPT !.tracks = tracks])
    BY <2>1, <2>2, WithoutOK, TracksOK
  <2> QED BY <1>1, <1>2, <1>3, <1>5, <2>1, <2>3 DEF remove_tracks_do_delete
<1>6. CASE ipod_new
  BY <1>1, <1>6 DEF ipod_new
<1>7. CASE ipod_free \/ CrashInFlush
  BY <1>1, <1>2, <1>7 DEF ipod_free, CrashInFlush
<1>8. CASE Tracks
  BY <1>1, <1>2, <1>5, <1>8 DEF Tracks, ipod_track_add, ipod_track_remove,
                                CrashInRemove
<1>9. CASE Playlists
  BY <1>1, <1>9 DEF Playlists, ipod_playlist_add, ipod_playlist_remove,
                    ipod_track_item_add, ipod_track_item_remove
<1>10. CASE UNCHANGED vars
  BY <1>1, <1>10 DEF vars
<1> QED BY <1>4, <1>6, <1>7, <1>8, <1>9, <1>10 DEF Next

\* A database this library wrote refers to its own tracks only, its master
\* playlists name them all, and the podcasts equal the playlists
\* (ipod_atom_mhyp.c:116-192, ipod_atom_mhbd.c:139-172).
THEOREM WrittenDatabaseResolves == Spec => []WrittenResolves
<1>1. Init => WInv
  BY DEF Init, WInv
<1>2. WInv => WrittenResolves
  BY DEF WInv, WrittenResolves, Resolves
<1> QED BY InitOK, StepOK, WrittenStep, <1>1, <1>2, PTL DEF Spec

-----------------------------------------------------------------------------
(* What is saved                                                           *)

\* A playlist that resolves is prepared already.
LEMMA PreparedTwice ==
    ASSUME NEW tracks, NEW p \in Playlist
    PROVE  LET q == prepare_mhyp(tracks, p)
           IN  q \in [id : {p.id}, hidden : {p.hidden}, items : {q.items}]
               /\ prepare_mhyp(tracks, q) = q
<1> DEFINE E == Elements(tracks)
           q == prepare_mhyp(tracks, p)
           all == IF q.hidden THEN check_master_playlist(tracks, q.items) ELSE q.items
<1>1. q \in [id : {p.id}, hidden : {p.hidden}, items : {q.items}]
  <2> DEFINE new == check_playlist(tracks, IF p.hidden
                        THEN check_master_playlist(tracks, p.items) ELSE p.items)
  <2>1. q = [p EXCEPT !.items = new]
    BY DEF prepare_mhyp
  <2> HIDE DEF new, q
  <2> QED BY <2>1 DEF Playlist
<1>2. /\ Ids(q.items) \subseteq Ids(E)
      /\ q.hidden => Ids(E) \subseteq Ids(q.items)
  BY PreparedPlaylist
<1>3. prepare_mhyp(tracks, q) = [q EXCEPT !.items = check_playlist(tracks, all)]
  BY DEF prepare_mhyp
<1> HIDE DEF q, E
<1>4. all = q.items
  <2>1. ASSUME q.hidden PROVE {t \in E : t.id \notin Ids(q.items)} = {}
    BY <1>2, <2>1 DEF Ids
  <2> QED BY <2>1 DEF check_master_playlist, E
<1> HIDE DEF all
<1>5. check_playlist(tracks, q.items) = q.items
  BY <1>2 DEF check_playlist, Ids, E
<1>6. prepare_mhyp(tracks, q) = q
  BY <1>1, <1>3, <1>4, <1>5
<1> QED BY <1>1, <1>6 DEF q

\* Preparing a database again changes nothing.
LEMMA PrepareIdempotent ==
    ASSUME NEW d, DbOK(d)
    PROVE  prepare_to_write(prepare_to_write(d)) = prepare_to_write(d)
<1> DEFINE lists == prepare_mhlp(d.tracks, d.playlists)
           w == prepare_to_write(d)
<1>1. d.tracks \in Seq(Entry) /\ d.playlists \in Seq(Playlist)
  BY DEF DbOK, Database
<1>2. w \in [tracks : {d.tracks}, playlists : {lists}, podcasts : {NULL, lists}]
  <2>1. d \in [tracks : {d.tracks}, playlists : {d.playlists}, podcasts : {d.podcasts}]
    BY DEF DbOK, Database
  <2> HIDE DEF lists
  <2>2. w = [d EXCEPT !.playlists = lists,
                      !.podcasts = IF d.podcasts = NULL THEN NULL ELSE lists]
    BY DEF prepare_to_write, lists
  <2> HIDE DEF w
  <2> QED BY <2>1, <2>2
<1>3. /\ lists \in Seq(Playlist) /\ DOMAIN lists = DOMAIN d.playlists
      /\ \A i \in DOMAIN lists : lists[i] = prepare_mhyp(d.tracks, d.playlists[i])
  BY <1>1, PrepareListOK
<1>4. prepare_mhlp(d.tracks, lists) = lists
  <2>1. ASSUME NEW i \in DOMAIN lists PROVE prepare_mhyp(d.tracks, lists[i]) = lists[i]
    <3>1. lists[i] = prepare_mhyp(d.tracks, d.playlists[i]) /\ d.playlists[i] \in Playlist
      BY <1>1, <1>3
    <3> HIDE DEF lists
    <3> QED BY <3>1, PreparedTwice
  <2>2. prepare_mhlp(d.tracks, lists) = [i \in DOMAIN lists |-> prepare_mhyp(d.tracks, lists[i])]
    BY DEF prepare_mhlp
  <2>3. lists = [i \in DOMAIN lists |-> lists[i]]
    <3> HIDE DEF lists
    <3> QED BY <1>3
  <2> HIDE DEF lists
  <2> QED BY <2>1, <2>2, <2>3
<1>5. prepare_to_write(w) = [w EXCEPT !.playlists = lists,
                                      !.podcasts = IF w.podcasts = NULL THEN NULL ELSE lists]
  <2>1. w.tracks = d.tracks /\ w.playlists = lists
    <3> HIDE DEF w, lists
    <3> QED BY <1>2
  <2> HIDE DEF w, lists
  <2> QED BY <1>4, <2>1 DEF prepare_to_write
<1> HIDE DEF w, lists
<1>6. (IF w.podcasts = NULL THEN NULL ELSE lists) = w.podcasts
  BY <1>2
<1>7. w = [w EXCEPT !.playlists = lists, !.podcasts = w.podcasts]
  BY <1>2
<1>8. prepare_to_write(w) = w
  BY <1>5, <1>6, <1>7
<1> QED BY <1>8 DEF w

\* A flush, or the removal of tracks, that does not fail writes what memory
\* then has; what is clean before a flush was written already, or is as read.
LEMMA SavedStep ==
    ASSUME {"create", "write"} \cap Failures = {}, IInv, CleanMeansSaved, [Next]_vars
    PROVE  CleanMeansSaved'
<1>1. ASSUME db' = NULL \/ db_dirty' = TRUE PROVE CleanMeansSaved'
  BY <1>1 DEF CleanMeansSaved
<1>2. ASSUME NEW d, DbOK(d), db' = d, disk' = [state |-> "written", db |-> d]
      PROVE  CleanMeansSaved'
  BY <1>2, NotNull DEF CleanMeansSaved
<1>3. CASE ipod_new
  BY <1>1, <1>3, IpodDbAssumption DEF ipod_new, CleanMeansSaved
<1>4. CASE ipod_flush
  <2>1. DbOK(db) /\ DbOK(db') /\ db' = prepare_to_write(db)
    BY <1>4, PrepareOK DEF ipod_flush, IInv
  <2>2. CASE db_dirty
    BY <1>2, <1>4, <2>1, <2>2 DEF ipod_flush, WriteDatabase
  <2>3. CASE ~db_dirty
    <3>1. disk' = disk /\ disk.db # NULL /\ (db = disk.db \/ db = prepare_to_write(disk.db))
      BY <1>4, <2>3 DEF ipod_flush, WriteDatabase, CleanMeansSaved
    <3>2. DbOK(disk.db)
      BY <3>1 DEF IInv, DiskOK
    <3>3. db' = prepare_to_write(disk.db)
      BY <2>1, <3>1, <3>2, PrepareIdempotent
    <3> QED BY <3>1, <3>3 DEF CleanMeansSaved
  <2> QED BY <2>2, <2>3
<1>5. ASSUME db # NULL, NEW gone \in SUBSET DOMAIN db.tracks, remove_tracks_do_delete(gone)
      PROVE  CleanMeansSaved'
  <2>1. PICK tracks \in Without(db.tracks, gone) :
            db' = prepare_to_write([db EXCEPT !.tracks = tracks])
    BY <1>5 DEF remove_tracks_do_delete
  <2>2. db.tracks \in Seq(Entry) /\ UniqueIds(db.tracks) /\ DbOK(db)
    BY <1>5 DEF IInv, DbOK, Database
  <2>3. DbOK(db')
    BY <2>1, <2>2, WithoutOK, TracksOK, PrepareOK
  <2> QED BY <1>2, <1>5, <2>3 DEF remove_tracks_do_delete
<1>6. CASE ipod_free \/ CrashInFlush
  BY <1>1, <1>6 DEF ipod_free, CrashInFlush
<1>7. CASE Tracks
  BY <1>1, <1>5, <1>7 DEF Tracks, ipod_track_add, ipod_track_remove, CrashInRemove
<1>8. CASE Playlists
  BY <1>1, <1>8 DEF Playlists, ipod_playlist_add, ipod_playlist_remove,
                    ipod_track_item_add, ipod_track_item_remove
<1>9. CASE UNCHANGED vars
  BY <1>9 DEF vars, CleanMeansSaved
<1> QED BY <1>3, <1>4, <1>6, <1>7, <1>8, <1>9 DEF Next

\* If no write fails, a database that is not dirty is in the file, but for
\* what prepare_to_write() will do to it, whatever files cannot be opened and
\* whenever the power fails: ipod_flush() may well do nothing then
\* (ipod.c:148-189).
THEOREM CleanIsSaved ==
    {"create", "write"} \cap Failures = {} => (Spec => []CleanMeansSaved)
<1> SUFFICES ASSUME {"create", "write"} \cap Failures = {} PROVE Spec => []CleanMeansSaved
  OBVIOUS
<1>1. Init => CleanMeansSaved
  BY DEF Init, CleanMeansSaved
<1>2. IInv /\ CleanMeansSaved /\ [Next]_vars => CleanMeansSaved'
  BY SavedStep
<1> QED BY InitOK, StepOK, <1>1, <1>2, PTL DEF Spec

\* Removing from a list removes nothing else: the positions of what is left
\* increase, so they are as many different ones as there are.
LEMMA WithoutKeeps ==
    ASSUME NEW R, NEW list \in Seq(R), NEW gone, NEW rest \in Without(list, gone)
    PROVE  /\ Elements(rest) \subseteq Elements(list)
           /\ \A k \in DOMAIN list \ gone : list[k] \in Elements(rest)
<1> DEFINE kept == DOMAIN list \ gone
           n == Cardinality(kept)
<1>1. PICK f \in [1..n -> kept] :
          /\ \A i, j \in DOMAIN f : i < j => f[i] < f[j]
          /\ rest = [i \in DOMAIN f |-> list[f[i]]]
  BY DEF Without
<1>2. IsFiniteSet(kept) /\ n \in Nat /\ \A i \in kept : i \in Int
  <2>1. IsFiniteSet(1..Len(list)) /\ DOMAIN list = 1..Len(list)
    <3>1. Len(list) \in Int /\ 1 \in Int
      OBVIOUS
    <3> QED BY <3>1, FS_Interval
  <2>2. kept \in SUBSET (1..Len(list))
    BY <2>1
  <2>3. IsFiniteSet(kept)
    BY <2>1, <2>2, FS_Subset
  <2> QED BY <2>2, <2>3, FS_CardinalityType
<1>3. DOMAIN f = 1..n /\ \A i \in 1..n : f[i] \in kept
  <2> HIDE DEF kept, n
  <2> QED BY <1>1
<1>4. ASSUME NEW i \in 1..n, NEW j \in 1..n, i # j PROVE f[i] # f[j]
  <2>1. f[i] \in Int /\ f[j] \in Int /\ i \in Int /\ j \in Int
    <3> HIDE DEF kept, n
    <3> QED BY <1>2, <1>3
  <2>2. (i < j => f[i] < f[j]) /\ (j < i => f[j] < f[i])
    BY <1>1, <1>3
  <2> HIDE DEF kept, n
  <2> QED BY <1>4, <2>1, <2>2
<1>5. ASSUME NEW k \in kept, \A i \in 1..n : f[i] # k PROVE FALSE
  <2> DEFINE others == kept \ {k}
  <2>1. IsFiniteSet(others) /\ Cardinality(others) = n - 1
    <3> HIDE DEF kept
    <3> QED BY <1>2, FS_RemoveElement
  <2>2. IsFiniteSet(1..n) /\ Cardinality(1..n) = n
    <3>1. n \in Int /\ 1 \in Int /\ (n = 0 \/ n >= 1)
      BY <1>2
    <3> HIDE DEF n
    <3>2. IsFiniteSet(1..n) /\ Cardinality(1..n) = IF 1 > n THEN 0 ELSE n-1+1
      BY <3>1, FS_Interval
    <3> QED BY <3>1, <3>2
  <2>3. f \in [1..n -> others]
    <3> HIDE DEF kept, n
    <3> QED BY <1>3, <1>5
  <2>4. Cardinality(others) < Cardinality(1..n)
    <3> HIDE DEF others, n, kept
    <3> QED BY <1>2, <2>1, <2>2
  <2>5. \E i, j \in 1..n : i # j /\ f[i] = f[j]
    <3> HIDE DEF others, n, kept
    <3> QED BY <2>1, <2>2, <2>3, <2>4, FS_PigeonHole
  <2> QED BY <1>4, <2>5
<1>6. DOMAIN rest = 1..n /\ \A i \in 1..n : rest[i] = list[f[i]]
  BY <1>1, <1>3
<1>7. ASSUME NEW k \in kept PROVE list[k] \in Elements(rest)
  <2>1. PICK i \in 1..n : f[i] = k
    BY <1>5
  <2> HIDE DEF kept, n
  <2> QED BY <1>6, <2>1 DEF Elements
<1>8. ASSUME NEW i \in 1..n PROVE rest[i] \in Elements(list)
  <2>1. f[i] \in DOMAIN list
    BY <1>3
  <2> HIDE DEF kept, n
  <2> QED BY <1>6, <2>1 DEF Elements
<1> QED BY <1>6, <1>7, <1>8 DEF Elements

-----------------------------------------------------------------------------
(* What is not forgotten                                                   *)

\* The songs that a list of tracks names.
SongsIn(tracks) == {t.song : t \in Elements(tracks)}

\* Memory lists what the file lists and the iPod still has, unless there is
\* no database in the file, or none in memory.
KInv == db # NULL /\ disk.db # NULL => SongsIn(disk.db.tracks) \cap files \subseteq SongsIn(db.tracks)

\* Removing tracks and their files leaves the songs of the others listed.
LEMMA WithoutSongs ==
    ASSUME NEW list \in Seq(Entry), NEW gone, NEW rest \in Without(list, gone)
    PROVE  SongsIn(list) \ {list[i].song : i \in gone} \subseteq SongsIn(rest)
<1> SUFFICES ASSUME NEW k \in DOMAIN list, list[k].song \notin {list[i].song : i \in gone}
             PROVE  list[k].song \in SongsIn(rest)
  BY DEF SongsIn, Elements
<1>1. k \notin gone
  OBVIOUS
<1>2. list[k] \in Elements(rest)
  BY <1>1, WithoutKeeps
<1> QED BY <1>2 DEF SongsIn

\* Preparing a database keeps its tracks.
LEMMA PrepareTracks == ASSUME NEW d, DbOK(d) PROVE prepare_to_write(d).tracks = d.tracks
<1> DEFINE lists == prepare_mhlp(d.tracks, d.playlists)
           podcasts == IF d.podcasts = NULL THEN NULL ELSE lists
<1>1. d \in [tracks : {d.tracks}, playlists : {d.playlists}, podcasts : {d.podcasts}]
  BY DEF DbOK, Database
<1>2. prepare_to_write(d) = [d EXCEPT !.playlists = lists, !.podcasts = podcasts]
  BY DEF prepare_to_write
<1> HIDE DEF lists, podcasts
<1> QED BY <1>1, <1>2

\* Changing the tracks or the playlists is all that the other calls do.
LEMMA SetTracks ==
    ASSUME NEW d, DbOK(d), NEW tracks
    PROVE  [d EXCEPT !.tracks = tracks].tracks = tracks
  BY DEF DbOK, Database

\* The playlists are no tracks.
LEMMA SetPlaylists ==
    ASSUME NEW d, DbOK(d), NEW playlists
    PROVE  [d EXCEPT !.playlists = playlists].tracks = d.tracks
  BY DEF DbOK, Database

\* What is removed, in memory: with the songs go their files.
LEMMA RemoveKeeps ==
    ASSUME IInv, KInv, db # NULL, NEW gone \in SUBSET DOMAIN db.tracks,
           NEW rest \in Without(db.tracks, gone), disk.db # NULL,
           NEW left, left = files \ {db.tracks[i].song : i \in gone}
    PROVE  SongsIn(disk.db.tracks) \cap left \subseteq SongsIn(rest)
<1>1. db.tracks \in Seq(Entry)
  BY DEF IInv, DbOK, Database
<1>2. SongsIn(db.tracks) \ {db.tracks[i].song : i \in gone} \subseteq SongsIn(rest)
  BY <1>1, WithoutSongs
<1> QED BY <1>2 DEF KInv

\* Each step keeps memory so, if it can open a file that exists, and what it
\* writes it writes from memory.
LEMMA KeepStep ==
    ASSUME "open" \notin Failures, IInv, KInv, [Next]_vars
    PROVE  /\ KInv'
           /\ disk.db # NULL /\ disk'.db # NULL =>
                SongsIn(disk.db.tracks) \cap files' \subseteq SongsIn(disk'.db.tracks)
<1> DEFINE Kept == disk.db # NULL /\ disk'.db # NULL =>
                       SongsIn(disk.db.tracks) \cap files' \subseteq SongsIn(disk'.db.tracks)
<1>1. ASSUME db' = NULL, disk' = disk \/ disk' = Torn PROVE KInv' /\ Kept
  BY <1>1 DEF KInv, Torn
<1>2. ASSUME db # NULL, NEW tracks, db'.tracks = tracks, disk' = disk,
             disk.db # NULL => SongsIn(disk.db.tracks) \cap files' \subseteq SongsIn(tracks)
      PROVE  KInv' /\ Kept
  BY <1>2 DEF KInv
<1>3. ASSUME db # NULL, NEW tracks, db'.tracks = tracks,
             disk' = [state |-> "written", db |-> db'] \/ disk' = Torn,
             disk.db # NULL => SongsIn(disk.db.tracks) \cap files' \subseteq SongsIn(tracks)
      PROVE  KInv' /\ Kept
  BY <1>3 DEF KInv, Torn
<1>4. ASSUME db # NULL PROVE DbOK(db) /\ db.tracks \in Seq(Entry)
  <2>1. DbOK(db)
    BY <1>4 DEF IInv
  <2> QED BY <2>1 DEF DbOK, Database
<1> SUFFICES KInv' /\ Kept
  OBVIOUS
<1> HIDE DEF Kept
<1>5. CASE ipod_new
  <2>1. disk' = disk /\ files' = files
    BY <1>5 DEF ipod_new
  <2>2. disk.state = "none" => disk.db = NULL
    BY DEF IInv, DiskOK
  <2>3. disk.db = NULL \/ db' = disk.db
    BY <1>5, <2>2 DEF ipod_new
  <2> QED BY <2>1, <2>3 DEF KInv, Kept
<1>6. CASE ipod_flush
  <2>1. db # NULL /\ db'.tracks = db.tracks /\ files' = files
    BY <1>4, <1>6, PrepareTracks DEF ipod_flush
  <2>2. disk.db # NULL =>
            SongsIn(disk.db.tracks) \cap files' \subseteq SongsIn(db.tracks)
    BY <2>1 DEF KInv
  <2>3. disk' = disk \/ disk' = [state |-> "written", db |-> db'] \/ disk' = Torn
    BY <1>6 DEF ipod_flush, WriteDatabase
  <2> QED BY <1>2, <1>3, <2>1, <2>2, <2>3
<1>7. CASE ipod_free \/ CrashInFlush
  BY <1>1, <1>7 DEF ipod_free, CrashInFlush
<1>8. ASSUME NEW song \in Songs, ipod_track_add(song) PROVE KInv' /\ Kept
  <2> DEFINE r == [id |-> unique_id(FirstTrackId, IdsOf(db.tracks)), song |-> song]
  <2>1. /\ db # NULL /\ files' = files \cup {song} /\ disk' = disk
        /\ db' = [db EXCEPT !.tracks = Append(@, r)]
    BY <1>8 DEF ipod_track_add
  <2>2. r.song = song
    OBVIOUS
  <2> HIDE DEF r
  <2>3. db'.tracks = Append(db.tracks, r)
    BY <1>4, <2>1, SetTracks
  <2>4. Elements(Append(db.tracks, r)) = Elements(db.tracks) \cup {r}
    <3>1. db.tracks \in Seq(Entry)
      BY <1>4, <2>1
    <3> DEFINE new == Append(db.tracks, r)
    <3>2. /\ Len(db.tracks) \in Nat /\ DOMAIN db.tracks = 1..Len(db.tracks)
          /\ DOMAIN new = 1..(Len(db.tracks) + 1)
          /\ \A i \in 1..Len(db.tracks) : new[i] = db.tracks[i]
          /\ new[Len(db.tracks) + 1] = r
      BY <3>1
    <3> HIDE DEF new
    <3>3. DOMAIN new = DOMAIN db.tracks \cup {Len(db.tracks) + 1}
      BY <3>2
    <3>4. Elements(new) = Elements(db.tracks) \cup {r}
      BY <3>2, <3>3 DEF Elements
    <3> QED BY <3>4 DEF new
  <2>5. SongsIn(Append(db.tracks, r)) = SongsIn(db.tracks) \cup {song}
    BY <2>2, <2>4 DEF SongsIn
  <2>6. disk.db # NULL =>
            SongsIn(disk.db.tracks) \cap files' \subseteq SongsIn(Append(db.tracks, r))
    BY <2>1, <2>5 DEF KInv
  <2> QED BY <1>2, <2>1, <2>3, <2>6
<1>9. ASSUME db # NULL, NEW i \in DOMAIN db.tracks, ipod_track_remove(i)
      PROVE  KInv' /\ Kept
  <2>1. PICK tracks \in Without(db.tracks, {i}) : db' = [db EXCEPT !.tracks = tracks]
    BY <1>9 DEF ipod_track_remove
  <2>2. db'.tracks = tracks
    BY <1>4, <1>9, <2>1, SetTracks
  <2>3. files' = files \ {db.tracks[j].song : j \in {i}}
    BY <1>9 DEF ipod_track_remove
  <2>4. disk.db # NULL =>
            SongsIn(disk.db.tracks) \cap files' \subseteq SongsIn(tracks)
    BY <1>9, <2>1, <2>3, RemoveKeeps
  <2> QED BY <1>2, <1>9, <2>2, <2>4 DEF ipod_track_remove
<1>10. ASSUME db # NULL, NEW gone \in SUBSET DOMAIN db.tracks, remove_tracks_do_delete(gone)
       PROVE  KInv' /\ Kept
  <2>1. PICK tracks \in Without(db.tracks, gone) :
            db' = prepare_to_write([db EXCEPT !.tracks = tracks])
    BY <1>10 DEF remove_tracks_do_delete
  <2>2. DbOK([db EXCEPT !.tracks = tracks])
    <3>1. tracks \in Seq(Entry) /\ UniqueIds(tracks)
      BY <1>4, <1>10, <2>1, WithoutOK DEF DbOK
    <3> QED BY <1>4, <1>10, <3>1, TracksOK
  <2>3. db'.tracks = tracks
    BY <1>4, <1>10, <2>1, <2>2, PrepareTracks, SetTracks
  <2>4. disk.db # NULL =>
            SongsIn(disk.db.tracks) \cap files' \subseteq SongsIn(tracks)
    BY <1>10, <2>1, RemoveKeeps DEF remove_tracks_do_delete
  <2> QED BY <1>2, <1>3, <1>10, <2>3, <2>4 DEF remove_tracks_do_delete
<1>11. ASSUME db # NULL, NEW gone \in SUBSET DOMAIN db.tracks, CrashInRemove(gone)
       PROVE  KInv' /\ Kept
  BY <1>1, <1>11 DEF CrashInRemove
<1>12. CASE Playlists
  <2>1. ASSUME db # NULL, NEW i \in DOMAIN db.playlists, NEW items
        PROVE  [db EXCEPT !.playlists[i].items = items].tracks = db.tracks
    <3>1. [db EXCEPT !.playlists[i].items = items]
            = [db EXCEPT !.playlists =
                  [db.playlists EXCEPT ![i] = [db.playlists[i] EXCEPT !.items = items]]]
      OBVIOUS
    <3> QED BY <1>4, <2>1, <3>1, SetPlaylists
  <2>2. db # NULL /\ db'.tracks = db.tracks
    <3>1. ASSUME ipod_playlist_add PROVE db # NULL /\ db'.tracks = db.tracks
      BY <1>4, <3>1, SetPlaylists DEF ipod_playlist_add
    <3>2. ASSUME db # NULL, NEW i \in DOMAIN db.playlists, ipod_playlist_remove(i)
          PROVE  db'.tracks = db.tracks
      BY <1>4, <3>2, SetPlaylists DEF ipod_playlist_remove
    <3>3. ASSUME db # NULL, NEW i \in DOMAIN db.playlists,
                 \/ \E track \in Elements(db.tracks) : ipod_track_item_add(i, track)
                 \/ \E item \in db.playlists[i].items : ipod_track_item_remove(i, item)
          PROVE  db'.tracks = db.tracks
      <4>1. PICK items : db' = [db EXCEPT !.playlists[i].items = items]
        BY <3>3 DEF ipod_track_item_add, ipod_track_item_remove
      <4> QED BY <2>1, <3>3, <4>1
    <3> QED BY <1>12, <3>1, <3>2, <3>3 DEF Playlists
  <2>3. disk' = disk /\ files' = files
    BY <1>12 DEF Playlists, ipod_playlist_add, ipod_playlist_remove,
                 ipod_track_item_add, ipod_track_item_remove
  <2>4. disk.db # NULL =>
            SongsIn(disk.db.tracks) \cap files' \subseteq SongsIn(db.tracks)
    BY <2>2, <2>3 DEF KInv
  <2> QED BY <1>2, <2>2, <2>3, <2>4
<1>13. CASE Tracks
  BY <1>8, <1>9, <1>10, <1>11, <1>13 DEF Tracks
<1>14. CASE UNCHANGED vars
  BY <1>14 DEF vars, KInv, Kept
<1> QED BY <1>5, <1>6, <1>7, <1>12, <1>13, <1>14 DEF Next

\* If a file that is there can be opened, no song is forgotten: what replaces
\* a database lists every song of it that is still on the iPod, whatever
\* writes fail and whenever the power does (ipod.c:97-180, 474-537).
THEOREM NoSongForgotten == "open" \notin Failures => (Spec => SavedSongsSurvive)
<1> SUFFICES ASSUME "open" \notin Failures PROVE Spec => SavedSongsSurvive
  OBVIOUS
<1>1. Init => KInv
  BY DEF Init, KInv
<1>2. IInv /\ KInv /\ [Next]_vars => KInv'
  BY KeepStep
<1>3. IInv /\ KInv /\ [Next]_vars =>
          [disk.db # NULL /\ disk'.db # NULL =>
              {t.song : t \in Elements(disk.db.tracks)} \cap files'
                  \subseteq {t.song : t \in Elements(disk'.db.tracks)}]_vars
  BY KeepStep DEF SongsIn
<1> QED BY InitOK, StepOK, <1>1, <1>2, <1>3, PTL DEF Spec, SavedSongsSurvive

-----------------------------------------------------------------------------
(* What playlists name                                                     *)

\* The items of every playlist are tracks of the list.
Sound(d) == \A p \in Elements(d.playlists) : p.items \subseteq Elements(d.tracks)

\* Of memory and of the file.
NInv == /\ db # NULL => Sound(db)
        /\ disk.db # NULL => Sound(disk.db)

\* One id, one track.
LEMMA SameTrack ==
    ASSUME NEW tracks, UniqueIds(tracks),
           NEW t \in Elements(tracks), NEW e \in Elements(tracks), t.id = e.id
    PROVE  t = e
  BY DEF Elements, UniqueIds

\* Preparing a database drops the items of the tracks it has lost, and adds
\* only tracks.
LEMMA PreparedSound ==
    ASSUME NEW d, DbOK(d), NEW rest \in Seq(Entry), UniqueIds(rest),
           Elements(rest) \subseteq Elements(d.tracks), Sound(d)
    PROVE  Sound(prepare_to_write([d EXCEPT !.tracks = rest]))
<1> DEFINE old == [d EXCEPT !.tracks = rest]
           lists == prepare_mhlp(rest, d.playlists)
           w == prepare_to_write(old)
<1>1. /\ d \in [tracks : {d.tracks}, playlists : {d.playlists}, podcasts : {d.podcasts}]
      /\ d.playlists \in Seq(Playlist) /\ UniqueIds(d.tracks)
  BY DEF DbOK, Database
<1>2. old \in [tracks : {rest}, playlists : {d.playlists}, podcasts : {d.podcasts}]
  BY <1>1
<1> HIDE DEF old
<1>3. w.tracks = rest /\ w.playlists = lists
  <2> DEFINE podcasts == IF old.podcasts = NULL THEN NULL ELSE lists
  <2>1. w = [old EXCEPT !.playlists = lists, !.podcasts = podcasts]
    BY <1>2 DEF prepare_to_write
  <2> HIDE DEF lists, podcasts, w
  <2> QED BY <1>2, <2>1
<1>4. ASSUME NEW i \in DOMAIN d.playlists
      PROVE  prepare_mhyp(rest, d.playlists[i]).items \subseteq Elements(rest)
  <2> DEFINE p == d.playlists[i]
             all == IF p.hidden THEN check_master_playlist(rest, p.items) ELSE p.items
  <2>1. p \in Playlist /\ p.items \subseteq Elements(d.tracks)
    BY <1>1 DEF Sound, Elements
  <2> HIDE DEF p
  <2>2. prepare_mhyp(rest, p).items = {e \in all : e.id \in Ids(Elements(rest))}
    BY <2>1 DEF prepare_mhyp, check_playlist, Playlist
  <2>3. all \subseteq Elements(d.tracks)
    BY <2>1 DEF check_master_playlist
  <2> HIDE DEF all
  <2>4. ASSUME NEW e \in all, NEW t \in Elements(rest), t.id = e.id PROVE e = t
    BY <1>1, <2>3, <2>4, SameTrack
  <2> QED BY <2>2, <2>4 DEF Ids, p
<1>5. ASSUME NEW p \in Elements(lists) PROVE p.items \subseteq Elements(rest)
  <2>1. PICK i \in DOMAIN d.playlists : p = prepare_mhyp(rest, d.playlists[i])
    BY <1>1, PrepareListOK DEF Elements
  <2> QED BY <1>4, <2>1
<1> HIDE DEF lists, w
<1>6. Sound(w)
  BY <1>3, <1>5 DEF Sound
<1> QED BY <1>6 DEF w, old

\* Without a change of the tracks, too.
LEMMA PreparedSoundSame == ASSUME NEW d, DbOK(d), Sound(d) PROVE Sound(prepare_to_write(d))
<1>1. d = [d EXCEPT !.tracks = d.tracks] /\ d.tracks \in Seq(Entry) /\ UniqueIds(d.tracks)
  BY DEF DbOK, Database
<1>2. Sound(prepare_to_write([d EXCEPT !.tracks = d.tracks]))
  BY <1>1, PreparedSound
<1> QED BY <1>1, <1>2

\* podtopod removes tracks only where the database is prepared right after,
\* and changes no playlist itself.
LEMMA NamesStep ==
    ASSUME AnyClient = FALSE, IInv, NInv, [Next]_vars
    PROVE  NInv'
<1>1. ASSUME db' = NULL \/ Sound(db'), disk' = disk \/ disk' = Torn PROVE NInv'
  BY <1>1 DEF NInv, Torn
<1>2. ASSUME Sound(db'), disk' = [state |-> "written", db |-> db'] PROVE NInv'
  BY <1>2 DEF NInv
<1>3. ASSUME db # NULL PROVE DbOK(db) /\ db.tracks \in Seq(Entry) /\ Sound(db)
  <2>1. DbOK(db) /\ Sound(db)
    BY <1>3 DEF IInv, NInv
  <2> QED BY <2>1 DEF DbOK, Database
<1>4. CASE ipod_new
  <2>1. Sound(NewDatabase)
    <3> DEFINE p == [id |-> MasterId, hidden |-> TRUE, items |-> {}]
    <3>1. NewDatabase.playlists = <<p>>
      BY DEF NewDatabase
    <3>2. p.items = {}
      OBVIOUS
    <3> HIDE DEF p
    <3> QED BY <3>1, <3>2 DEF Sound, Elements
  <2>2. Readable => Sound(disk.db)
    BY DEF IInv, DiskOK, Readable, NInv
  <2> QED BY <1>1, <1>4, <2>1, <2>2 DEF ipod_new
<1>5. CASE ipod_flush
  <2>1. Sound(db')
    BY <1>3, <1>5, PreparedSoundSame DEF ipod_flush
  <2> QED BY <1>1, <1>2, <1>5, <2>1 DEF ipod_flush, WriteDatabase
<1>6. CASE ipod_free \/ CrashInFlush
  BY <1>1, <1>6 DEF ipod_free, CrashInFlush
<1>7. ASSUME NEW song \in Songs, ipod_track_add(song) PROVE NInv'
  <2> DEFINE r == [id |-> unique_id(FirstTrackId, IdsOf(db.tracks)), song |-> song]
  <2>1. db # NULL /\ disk' = disk /\ db' = [db EXCEPT !.tracks = Append(@, r)]
    BY <1>7 DEF ipod_track_add
  <2> HIDE DEF r
  <2>2. db'.tracks = Append(db.tracks, r) /\ db'.playlists = db.playlists
    BY <1>3, <2>1 DEF DbOK, Database
  <2>3. Elements(db.tracks) \subseteq Elements(Append(db.tracks, r))
    <3> DEFINE new == Append(db.tracks, r)
    <3>1. \A i \in DOMAIN db.tracks : i \in DOMAIN new /\ new[i] = db.tracks[i]
      BY <1>3, <2>1
    <3> HIDE DEF new
    <3>2. Elements(db.tracks) \subseteq Elements(new)
      BY <3>1 DEF Elements
    <3> QED BY <3>2 DEF new
  <2>4. Sound(db')
    BY <1>3, <2>1, <2>2, <2>3 DEF Sound
  <2> QED BY <1>1, <2>1, <2>4
<1>8. ASSUME db # NULL, NEW gone \in SUBSET DOMAIN db.tracks, remove_tracks_do_delete(gone)
      PROVE  NInv'
  <2>1. PICK rest \in Without(db.tracks, gone) :
            db' = prepare_to_write([db EXCEPT !.tracks = rest])
    BY <1>8 DEF remove_tracks_do_delete
  <2>2. UniqueIds(db.tracks)
    BY <1>3, <1>8 DEF DbOK
  <2>3. rest \in Seq(Entry) /\ UniqueIds(rest) /\ Elements(rest) \subseteq Elements(db.tracks)
    BY <1>3, <1>8, <2>1, <2>2, WithoutOK, WithoutKeeps
  <2>4. Sound(db')
    BY <1>3, <1>8, <2>1, <2>3, PreparedSound
  <2> QED BY <1>1, <1>2, <1>8, <2>4 DEF remove_tracks_do_delete
<1>9. ASSUME db # NULL, NEW gone \in SUBSET DOMAIN db.tracks, CrashInRemove(gone)
      PROVE  NInv'
  BY <1>1, <1>9 DEF CrashInRemove
<1>10. CASE Tracks
  BY <1>7, <1>8, <1>9, <1>10 DEF Tracks, ipod_track_remove
<1>11. CASE Playlists
  BY <1>11 DEF Playlists
<1>12. CASE UNCHANGED vars
  BY <1>12 DEF vars, NInv
<1> QED BY <1>4, <1>5, <1>6, <1>10, <1>11, <1>12 DEF Next

\* If the databases of iTunes have no item of a track they lack, podtopod's
\* calls keep each item the name of the song it was added for, whatever
\* fails: the ids that ipod.c:347-360 gives again after tracks were removed
\* are no longer in any playlist (ipod.h:153, podtopod.c:92-112).
THEOREM ItemsNameSongs ==
    AnyClient = FALSE /\ (\A d \in Foreign : Sound(d)) => (Spec => []PlaylistsNameSongs)
<1> SUFFICES ASSUME AnyClient = FALSE, \A d \in Foreign : Sound(d)
             PROVE  Spec => []PlaylistsNameSongs
  OBVIOUS
<1>1. Init => NInv
  <2>1. ASSUME NEW d \in Foreign, disk = [state |-> "foreign", db |-> d], db = NULL
        PROVE  NInv
    BY <2>1 DEF NInv
  <2> QED BY <2>1 DEF Init, NInv
<1>2. IInv /\ NInv /\ [Next]_vars => NInv'
  BY NamesStep
<1>3. IInv /\ NInv => PlaylistsNameSongs
  <2> SUFFICES ASSUME IInv, NInv, db # NULL, NEW p \in Elements(db.playlists),
                      NEW e \in p.items, NEW t \in Elements(db.tracks), t.id = e.id
               PROVE  t.song = e.song
    BY DEF PlaylistsNameSongs
  <2>1. UniqueIds(db.tracks) /\ e \in Elements(db.tracks)
    BY DEF IInv, DbOK, NInv, Sound
  <2> QED BY <2>1, SameTrack
<1> QED BY InitOK, StepOK, <1>1, <1>2, <1>3, PTL DEF Spec
=============================================================================
