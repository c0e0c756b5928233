----------------------------- MODULE ItdbProofs -----------------------------
(***************************************************************************)
(* Whatever a client calls: the tree stays a database and the file always  *)
(* holds one, what is written is what is read, what is derived agrees      *)
(* with what it is derived from, the shuffle's file follows, what is not   *)
(* understood survives, and all of it is the library that ipod.h promises. *)
(*                                                                         *)
(* The invariant is about the tree, the file and what there is to read in  *)
(* the file.  That a call keeps it is a fact about lists of tracks or      *)
(* playlists and one about the tree they are put back into (ListSet,       *)
(* ListsReplaced); that a flush does rests on RoundTrip of AtomsProofs.    *)
(* What iTunes left survives because whatever is done to one track or      *)
(* playlist keeps it in a set (FaithfulTracks, FaithfulPlaylists).         *)
(* That a step is one of the library is the same in what a client sees:    *)
(* a view of a list goes along with it (SeenIs), element by element, and a *)
(* flush leaves what is seen (ViewKept) or only the items that name tracks *)
(* (ViewFlushed).                                                          *)
(***************************************************************************)
EXTENDS Itdb, AtomsProofs

-----------------------------------------------------------------------------
(* Editing a database                                                      *)

\* What a database has.
LEMMA Parts ==
    ASSUME NEW tree, IsDatabase(tree)
    PROVE  \E n \in Nat, t, p \in Nat :
              /\ n = Len(tree.children) /\ t = StoreAt(tree, 1) /\ p = StoreAt(tree, 2)
              /\ tree.version \in Int /\ tree.children \in Seq(Mhsds)
              /\ tree = [version |-> tree.version, children |-> tree.children]
              /\ DOMAIN tree.children = 1..n /\ t \in 1..n /\ p \in 1..n /\ t # p
              /\ tree.children[t].index = 1 /\ tree.children[p].index = 2
              /\ tree.children[t].child.tag = MHLT /\ tree.children[p].child.tag = MHLP
              /\ Tracks(tree) \in Seq(Mhits) /\ Playlists(tree) \in Seq(Mhyps)
<1> DEFINE n == Len(tree.children)
           t == StoreAt(tree, 1)
           p == StoreAt(tree, 2)
<1>1. /\ tree.version \in Int /\ tree.children \in Seq(Mhsds)
      /\ tree = [version |-> tree.version, children |-> tree.children]
  BY DEF IsDatabase, Mhbds
<1>2. n \in Nat /\ DOMAIN tree.children = 1..n /\ \A i \in 1..n : tree.children[i] \in Mhsds
  BY <1>1
<1>3. t \in 0..n /\ (t # 0 => tree.children[t].index = 1)
  BY <1>2, StoreAtIs
<1>4. p \in 0..n /\ (p # 0 => tree.children[p].index = 2)
  BY <1>2, StoreAtIs
<1>5. t # 0 /\ p # 0
  BY DEF IsDatabase
<1> HIDE DEF t, p, n
<1>6. t \in 1..n /\ p \in 1..n /\ t # p
  BY <1>2, <1>3, <1>4, <1>5
<1>7. tree.children[t].child.tag = MHLT /\ tree.children[p].child.tag = MHLP
  BY <1>2, <1>3, <1>4, <1>6 DEF IsDatabase
<1>8. tree.children[t].child \in Mhls /\ tree.children[p].child \in Mhls
  BY <1>2, <1>6 DEF Mhsds
<1>9. MHLT # MHLP
  BY DEF MHLT, MHLP
<1>10. tree.children[t].child.children \in Seq(Mhits)
  BY <1>7, <1>8, <1>9 DEF Mhls
<1>11. tree.children[p].child.children \in Seq(Mhyps)
  BY <1>7, <1>8, <1>9 DEF Mhls
<1>12. Tracks(tree) \in Seq(Mhits) /\ Playlists(tree) \in Seq(Mhyps)
  BY <1>10, <1>11 DEF Tracks, Playlists, t, p
<1>13. t \in Nat /\ p \in Nat
  BY <1>2, <1>6
<1> QED BY <1>1, <1>2, <1>3, <1>4, <1>6, <1>7, <1>12, <1>13 DEF n, t, p

OtherList(tree, k, list) == [tree EXCEPT !.children[k].child.children = list]

\* "new" is a tree like "tree", but for the list in store k.
OnlyListDiffers(new, tree, k, list) ==
    /\ new \in Mhbds /\ new.version = tree.version
    /\ Len(new.children) = Len(tree.children) /\ DOMAIN new.children = DOMAIN tree.children
    /\ \A i \in DOMAIN tree.children :
          /\ new.children[i].index = tree.children[i].index
          /\ new.children[i].child.tag = tree.children[i].child.tag
          /\ i # k => new.children[i] = tree.children[i]
    /\ new.children[k].child.children = list
    /\ \A index : StoreAt(new, index) = StoreAt(tree, index)

\* Another list in one of the stores changes nothing else.
LEMMA ListSet ==
    ASSUME NEW tree, IsDatabase(tree), NEW k \in DOMAIN tree.children, NEW list,
           [tag |-> tree.children[k].child.tag, children |-> list] \in Mhls,
           NEW new, new = OtherList(tree, k, list)
    PROVE  OnlyListDiffers(new, tree, k, list)
<1> DEFINE store == [tree.children[k] EXCEPT !.child.children = list]
           stores == [tree.children EXCEPT ![k] = store]
<1>1. PICK n \in Nat :
         /\ n = Len(tree.children) /\ DOMAIN tree.children = 1..n
         /\ tree.version \in Int /\ tree.children \in Seq(Mhsds)
         /\ tree = [version |-> tree.version, children |-> tree.children]
  BY Parts
<1>2. new = [tree EXCEPT !.children = stores]
  BY <1>1 DEF OtherList
<1>3. new = [version |-> tree.version, children |-> stores]
  <2> HIDE DEF stores
  <2> QED BY <1>1, <1>2
<1>4. tree.children[k] \in Mhsds /\ k \in 1..n
  BY <1>1
<1>5. /\ tree.children[k].child \in Mhls
      /\ tree.children[k] = [index |-> tree.children[k].index, child |-> tree.children[k].child]
      /\ tree.children[k].index \in Int
  BY <1>4 DEF Mhsds
<1>6. tree.children[k].child = [tag |-> tree.children[k].child.tag,
                                children |-> tree.children[k].child.children]
  BY <1>5 DEF Mhls
<1>7. store = [index |-> tree.children[k].index,
               child |-> [tag |-> tree.children[k].child.tag, children |-> list]]
  BY <1>5, <1>6
<1>8. store \in Mhsds /\ store.index = tree.children[k].index
      /\ store.child.tag = tree.children[k].child.tag /\ store.child.children = list
  <2> HIDE DEF store
  <2> QED BY <1>5, <1>7 DEF Mhsds
<1> HIDE DEF store
<1>9. stores \in Seq(Mhsds) /\ Len(stores) = n /\ DOMAIN stores = 1..n
  BY <1>1, <1>8
<1>10. stores[k] = store /\ \A i \in 1..n : i # k => stores[i] = tree.children[i]
  BY <1>1, <1>4
<1> HIDE DEF stores
<1>11. new \in Mhbds /\ new.version = tree.version /\ new.children = stores
  <2>1. [version |-> tree.version, children |-> stores] \in Mhbds
    BY <1>1, <1>9 DEF Mhbds
  <2> QED BY <1>3, <2>1
<1>12. \A i \in 1..n :
         /\ new.children[i].index = tree.children[i].index
         /\ new.children[i].child.tag = tree.children[i].child.tag
  BY <1>8, <1>10, <1>11
<1>13. \A index : StoreAt(new, index) = StoreAt(tree, index)
  <2> TAKE index
  <2>1. /\ Len(tree.children) = Len(new.children)
        /\ \A i \in 1..Len(tree.children) : tree.children[i].index = new.children[i].index
    BY <1>1, <1>9, <1>11, <1>12
  <2> QED BY <2>1, StoreAtSame
<1>14. /\ Len(new.children) = Len(tree.children) /\ DOMAIN new.children = DOMAIN tree.children
       /\ new.children[k].child.children = list
       /\ \A i \in 1..n : i # k => new.children[i] = tree.children[i]
  BY <1>1, <1>8, <1>9, <1>10, <1>11
<1> QED BY <1>1, <1>11, <1>12, <1>13, <1>14 DEF OnlyListDiffers

\* A track list can be put in the place of another.
LEMMA TracksSet ==
    ASSUME NEW tree, IsDatabase(tree), NEW tracks \in Seq(Mhits), IsTrackList(tracks)
    PROVE  /\ IsDatabase(WithTracks(tree, tracks)) /\ Tracks(WithTracks(tree, tracks)) = tracks
           /\ Playlists(WithTracks(tree, tracks)) = Playlists(tree)
           /\ WithTracks(tree, tracks).version = tree.version
<1> DEFINE t == StoreAt(tree, 1)
           p == StoreAt(tree, 2)
           new == OtherList(tree, t, tracks)
<1>1. /\ t \in DOMAIN tree.children /\ p \in DOMAIN tree.children /\ t # p
      /\ tree.children[t].child.tag = MHLT
  BY Parts
<1>2. new = WithTracks(tree, tracks)
  BY DEF WithTracks, OtherList
<1>3. [tag |-> tree.children[t].child.tag, children |-> tracks] \in Mhls
  BY <1>1 DEF Mhls
<1> HIDE DEF t, p
<1>4. OnlyListDiffers(new, tree, t, tracks)
  BY <1>1, <1>3, ListSet
<1> HIDE DEF new
<1>5. StoreAt(new, 1) = t /\ StoreAt(new, 2) = p
  BY <1>4 DEF t, p, OnlyListDiffers
<1>6. /\ Tracks(new) = tracks /\ Playlists(new) = Playlists(tree)
      /\ new.version = tree.version
  BY <1>1, <1>4, <1>5 DEF Tracks, Playlists, p, OnlyListDiffers
<1>7. IsDatabase(new)
  BY <1>4, <1>6 DEF IsDatabase, OnlyListDiffers
<1> QED BY <1>2, <1>6, <1>7

\* And so can a list of playlists.
LEMMA PlaylistsSet ==
    ASSUME NEW tree, IsDatabase(tree), NEW lists \in Seq(Mhyps)
    PROVE  /\ IsDatabase(WithPlaylists(tree, lists))
           /\ Tracks(WithPlaylists(tree, lists)) = Tracks(tree)
           /\ Playlists(WithPlaylists(tree, lists)) = lists
           /\ WithPlaylists(tree, lists).version = tree.version
<1> DEFINE t == StoreAt(tree, 1)
           p == StoreAt(tree, 2)
           new == OtherList(tree, p, lists)
<1>1. /\ t \in DOMAIN tree.children /\ p \in DOMAIN tree.children /\ t # p
      /\ tree.children[p].child.tag = MHLP
  BY Parts
<1>2. new = WithPlaylists(tree, lists)
  BY DEF WithPlaylists, OtherList
<1>3. [tag |-> tree.children[p].child.tag, children |-> lists] \in Mhls
  BY <1>1 DEF Mhls
<1> HIDE DEF t, p
<1>4. OnlyListDiffers(new, tree, p, lists)
  BY <1>1, <1>3, ListSet
<1> HIDE DEF new
<1>5. StoreAt(new, 1) = t /\ StoreAt(new, 2) = p
  BY <1>4 DEF t, p, OnlyListDiffers
<1>6. /\ Tracks(new) = Tracks(tree) /\ Playlists(new) = lists
      /\ new.version = tree.version
  BY <1>1, <1>4, <1>5 DEF Tracks, Playlists, t, OnlyListDiffers
<1>7. IsDatabase(new)
  BY <1>4, <1>6 DEF IsDatabase, OnlyListDiffers
<1> QED BY <1>2, <1>6, <1>7

-----------------------------------------------------------------------------
(* Editing lists                                                           *)

\* What is left of a list without its element i.
LEMMA Removed ==
    ASSUME NEW S, NEW s \in Seq(S), NEW i \in 1..Len(s)
    PROVE  /\ RemoveAt(s, i) \in Seq(S) /\ Len(RemoveAt(s, i)) = Len(s) - 1
           /\ \A k \in 1..Len(s) - 1 : RemoveAt(s, i)[k] = s[IF k < i THEN k ELSE k + 1]
<1> DEFINE a == SubSeq(s, 1, i - 1)
           b == SubSeq(s, i + 1, Len(s))
<1>1. Len(s) \in Nat /\ i \in Nat /\ i >= 1 /\ i <= Len(s)
  OBVIOUS
<1>2. a \in Seq(S) /\ Len(a) = i - 1 /\ \A k \in 1..i - 1 : a[k] = s[k]
  BY <1>1
<1>3. /\ b \in Seq(S) /\ Len(b) = Len(s) - i
      /\ \A k \in 1..Len(s) - i : b[k] = s[i + k]
  BY <1>1
<1>4. RemoveAt(s, i) = a \o b
  BY DEF RemoveAt
<1> HIDE DEF a, b
<1>5. /\ a \o b \in Seq(S) /\ Len(a \o b) = Len(s) - 1
      /\ \A k \in 1..Len(s) - 1 : (a \o b)[k] = IF k < i THEN a[k] ELSE b[k - (i - 1)]
  <2>1. a \in Seq(S) /\ b \in Seq(S)
    BY <1>2, <1>3
  <2>2. /\ a \o b \in Seq(S) /\ Len(a \o b) = Len(a) + Len(b)
        /\ \A k \in 1..Len(a) + Len(b) : (a \o b)[k] = IF k <= Len(a) THEN a[k] ELSE b[k - Len(a)]
    BY <2>1, Joined
  <2>3. Len(a) + Len(b) = Len(s) - 1
    BY <1>1, <1>2, <1>3
  <2>4. \A k \in 1..Len(s) - 1 : k <= i - 1 <=> k < i
    BY <1>1
  <2> QED BY <1>2, <2>1, <2>2, <2>3, <2>4
<1>6. ASSUME NEW k \in 1..Len(s) - 1 PROVE (a \o b)[k] = s[IF k < i THEN k ELSE k + 1]
  <2>1. CASE k < i
    <3>1. k \in 1..i - 1
      BY <1>1, <2>1
    <3> QED BY <1>2, <1>5, <2>1, <3>1
  <2>2. CASE ~(k < i)
    <3>1. k - (i - 1) \in 1..Len(s) - i /\ i + (k - (i - 1)) = k + 1
      BY <1>1, <2>2
    <3>2. b[k - (i - 1)] = s[k + 1]
      BY <1>3, <3>1
    <3> QED BY <1>5, <2>2, <3>2
  <2> QED BY <2>1, <2>2
<1> QED BY <1>4, <1>5, <1>6

\* A text is set where one of its type is, or behind the others.
LEMMA TextSet ==
    ASSUME NEW mhods \in Seq(Mhods), NEW type, NEW text \in File
    PROVE  /\ set_text(mhods, type, text) \in Seq(Mhods)
           /\ (\A k \in DOMAIN mhods : copy_mhod(mhods[k]) = mhods[k]) =>
                 \A k \in DOMAIN set_text(mhods, type, text) :
                    copy_mhod(set_text(mhods, type, text)[k]) = set_text(mhods, type, text)[k]
<1> DEFINE at == TextAt(mhods, type)
           changed == [mhods[at] EXCEPT !.cells = text]
           new == new_mhod_string(type, text)
           Same(m) == copy_mhod(m) = m
<1>1. CASE type \notin TITLE..DESCRIPTION
  BY <1>1 DEF set_text
<1>2. CASE type \in TITLE..DESCRIPTION
  <2>1. type \in Int /\ type # 0 /\ Kind(type) = "string"
    BY <1>2 DEF TITLE, DESCRIPTION, Kind, Strings, SMARTPLAYLIST_PREF, ENCLOSUREURL, RSSURL,
                CHAPTER
  <2>2. CASE has_text(mhods, type)
    <3>1. at \in DOMAIN mhods /\ mhods[at].type = type
      BY <2>2, TextAtIs DEF has_text
    <3>2. set_text(mhods, type, text) = [mhods EXCEPT ![at] = changed]
      <4>1. set_text(mhods, type, text) = [mhods EXCEPT ![at].cells = text]
        BY <1>2, <2>2 DEF set_text
      <4> QED BY <4>1
    <3> HIDE DEF at
    <3>3. mhods[at] \in Mhods
      BY <3>1
    <3>4. changed = [type |-> type, sort |-> mhods[at].sort, cells |-> text]
          /\ mhods[at].sort = 0
      BY <2>1, <3>1, <3>3 DEF Mhods
    <3>5. changed \in Mhods /\ Same(changed)
      <4> HIDE DEF changed
      <4> QED BY <2>1, <3>4 DEF Mhods, copy_mhod
    <3> HIDE DEF changed, Same
    <3>6. [mhods EXCEPT ![at] = changed] \in Seq(Mhods)
      BY <3>1, <3>5
    <3>7. (\A k \in DOMAIN mhods : Same(mhods[k])) =>
             \A k \in DOMAIN [mhods EXCEPT ![at] = changed] :
                Same([mhods EXCEPT ![at] = changed][k])
      BY <3>1, <3>5
    <3> QED BY <3>2, <3>6, <3>7 DEF Same
  <2>3. CASE ~has_text(mhods, type)
    <3>1. set_text(mhods, type, text) = Append(mhods, new)
      BY <1>2, <2>3 DEF set_text
    <3>2. new \in Mhods /\ Same(new)
      BY <2>1 DEF new_mhod_string, Mhods, copy_mhod
    <3> HIDE DEF new, Same
    <3>3. Append(mhods, new) \in Seq(Mhods)
      BY <3>2
    <3>4. (\A k \in DOMAIN mhods : Same(mhods[k])) =>
             \A k \in DOMAIN Append(mhods, new) : Same(Append(mhods, new)[k])
      BY <3>2
    <3> QED BY <3>1, <3>3, <3>4 DEF Same
  <2> QED BY <2>2, <2>3
<1> QED BY <1>1, <1>2

-----------------------------------------------------------------------------
(* Editing tracks                                                          *)

\* A track as it is in a list.
IsTrack(t) ==
    /\ t \in Mhits /\ t.rating \in 0..255
    /\ \A k \in DOMAIN t.mhods : copy_mhod(t.mhods[k]) = t.mhods[k]

\* A list of tracks whose ids differ.
TrackLists ==
    {s \in Seq(Mhits) : IsTrackList(s)}

\* The tracks of a list are tracks with different ids.
LEMMA TrackListIs ==
    ASSUME NEW s \in Seq(Mhits)
    PROVE  s \in TrackLists <=>
              /\ \A i \in 1..Len(s) : IsTrack(s[i])
              /\ \A i, j \in 1..Len(s) : s[i].trackID = s[j].trackID => i = j
<1>1. DOMAIN s = 1..Len(s) /\ \A i \in 1..Len(s) : s[i] \in Mhits
  OBVIOUS
<1> QED BY <1>1 DEF TrackLists, IsTrackList, IsTrack

\* An id that ipod_unique_track_id() or ipod_unique_playlist_id() returns is
\* above every id of the list: the value found so far only grows.
LEMMA IdAbove ==
    ASSUME NEW ids \in Seq(Int), NEW first \in Int
    PROVE  /\ unique_id(first, ids) \in Int /\ unique_id(first, ids) >= first
           /\ \A i \in DOMAIN ids : ids[i] < unique_id(first, ids)
<1> DEFINE N == Len(ids)
           step == [n \in 1..N |-> [x \in Int |-> IF ids[n] >= x THEN ids[n] + 2 ELSE x]]
           Body(g) == [n \in 0..N |-> IF n = 0 THEN first
                                      ELSE IF ids[n] >= g[n - 1] THEN ids[n] + 2 ELSE g[n - 1]]
           Rec(g) == g = Body(g)
<1>1. N \in Nat /\ DOMAIN ids = 1..N /\ \A n \in 1..N : ids[n] \in Int
  OBVIOUS
<1> HIDE DEF N
<1>2. step \in [1..N -> [Int -> Int]]
  BY <1>1
<1>3. PICK g \in [0..N -> Int] : Walk(g, N, first, step)
  <2> HIDE DEF step
  <2> QED BY <1>1, <1>2, WalkExists
<1>4. ASSUME NEW n \in 1..N
      PROVE  g[n - 1] \in Int /\ g[n] = IF ids[n] >= g[n - 1] THEN ids[n] + 2 ELSE g[n - 1]
  <2>1. n - 1 \in 0..N
    BY <1>1
  <2>2. g[n - 1] \in Int
    BY <2>1
  <2>3. g[n] = step[n][g[n - 1]]
    BY <1>3 DEF Walk
  <2> QED BY <2>2, <2>3
<1>5. g[0] = first
  BY <1>3 DEF Walk
<1> HIDE DEF step
<1>6. Rec(g)
  <2>1. ASSUME NEW n \in 0..N PROVE g[n] = Body(g)[n]
    <3>1. CASE n = 0
      BY <1>5, <3>1
    <3>2. CASE n # 0
      <4>1. n \in 1..N
        BY <3>2
      <4> QED BY <1>4, <3>2, <4>1
    <3> QED BY <3>1, <3>2
  <2>2. g = [n \in 0..N |-> g[n]]
    OBVIOUS
  <2> QED BY <2>1, <2>2
<1> DEFINE next == CHOOSE h : Rec(h)
<1>7. Rec(next)
  <2> HIDE DEF Rec
  <2> QED BY <1>6
<1>8. unique_id(first, ids) = next[N]
  BY DEF unique_id, N
<1> HIDE DEF next
<1> DEFINE M == {m \in 0..N : /\ next[m] \in Int /\ next[m] >= first
                             /\ \A i \in 1..m : ids[i] < next[m]}
<1>9. 0 \in M
  <2>1. next[0] = first
    BY <1>1, <1>7
  <2> QED BY <1>1, <2>1
<1>10. ASSUME NEW m \in 1..N, m - 1 \in M PROVE m \in M
  <2>1. m \in 0..N /\ m # 0 /\ ids[m] \in Int
    BY <1>1
  <2>2. next[m] = IF ids[m] >= next[m - 1] THEN ids[m] + 2 ELSE next[m - 1]
    BY <1>7, <2>1
  <2>3. /\ next[m - 1] \in Int /\ next[m - 1] >= first
        /\ \A i \in 1..m - 1 : ids[i] < next[m - 1]
    BY <1>10
  <2>4. next[m] \in Int /\ next[m] >= first /\ next[m] >= next[m - 1] /\ ids[m] < next[m]
    BY <2>1, <2>2, <2>3
  <2>5. ASSUME NEW i \in 1..m PROVE ids[i] < next[m]
    <3>1. CASE i = m
      BY <2>4, <3>1
    <3>2. CASE i # m
      <4>1. i \in 1..m - 1 /\ ids[i] \in Int
        BY <1>1, <3>2
      <4>2. ids[i] < next[m - 1]
        BY <2>3, <4>1
      <4> QED BY <2>3, <2>4, <4>1, <4>2
    <3> QED BY <3>1, <3>2
  <2> QED BY <2>1, <2>4, <2>5
<1>11. N \in M
  <2>1. N \in 0..N
    BY <1>1
  <2> HIDE DEF M
  <2>2. \A i \in 1..N : i - 1 \in M => i \in M
    BY <1>10
  <2>3. \A i \in 0..N : i \in M
    BY <1>1, <1>9, <2>2, Induction
  <2> QED BY <2>1, <2>3
<1> QED BY <1>1, <1>8, <1>11

\* Tracks may change in all but their ids.
LEMMA TracksChanged ==
    ASSUME NEW s \in TrackLists, NEW new,
           \E g : new = [i \in DOMAIN s |-> g[i]],
           \A i \in DOMAIN s : IsTrack(new[i]) /\ new[i].trackID = s[i].trackID
    PROVE  new \in TrackLists
<1>1. s \in Seq(Mhits)
  BY DEF TrackLists
<1>2. PICK n \in Nat : DOMAIN s = 1..n /\ n = Len(s)
  BY <1>1
<1>3. new \in Seq(Mhits) /\ Len(new) = n
  <2>1. \A i \in 1..n : new[i] \in Mhits
    BY <1>2 DEF IsTrack
  <2>2. new = [i \in 1..n |-> new[i]]
    BY <1>2
  <2> QED BY <2>1, <2>2
<1>4. \A i, j \in 1..n : s[i].trackID = s[j].trackID => i = j
  BY <1>1, <1>2, TrackListIs
<1>5. \A i, j \in 1..Len(new) : new[i].trackID = new[j].trackID => i = j
  BY <1>2, <1>3, <1>4
<1>6. \A i \in 1..Len(new) : IsTrack(new[i])
  BY <1>2, <1>3
<1> QED BY <1>3, <1>5, <1>6, TrackListIs

\* One of them may.
LEMMA TrackChanged ==
    ASSUME NEW s \in TrackLists, NEW i \in DOMAIN s, NEW t, IsTrack(t), t.trackID = s[i].trackID
    PROVE  [s EXCEPT ![i] = t] \in TrackLists
<1> DEFINE new == [s EXCEPT ![i] = t]
<1>1. s \in Seq(Mhits)
  BY DEF TrackLists
<1>2. new = [k \in DOMAIN s |-> new[k]]
  BY <1>1
<1>3. \A k \in DOMAIN s : IsTrack(s[k])
  BY <1>1, TrackListIs
<1>4. ASSUME NEW k \in DOMAIN s PROVE IsTrack(new[k]) /\ new[k].trackID = s[k].trackID
  <2>1. CASE k = i
    BY <1>1, <2>1
  <2>2. CASE k # i
    BY <1>1, <1>3, <2>2
  <2> QED BY <2>1, <2>2
<1> HIDE DEF new
<1>5. \E g : new = [k \in DOMAIN s |-> g[k]]
  BY <1>2
<1>6. new \in TrackLists
  BY <1>4, <1>5, TracksChanged
<1> QED BY <1>6 DEF new

\* Tracks are added with an id of their own.
LEMMA TrackAppended ==
    ASSUME NEW s \in TrackLists, NEW t, IsTrack(t),
           \A i \in DOMAIN s : s[i].trackID # t.trackID
    PROVE  Append(s, t) \in TrackLists
<1> DEFINE new == Append(s, t)
<1>1. s \in Seq(Mhits) /\ t \in Mhits
  BY DEF TrackLists, IsTrack
<1>2. PICK n \in Nat : DOMAIN s = 1..n /\ n = Len(s)
  BY <1>1
<1>3. new \in Seq(Mhits) /\ Len(new) = n + 1 /\ new[n + 1] = t /\ \A i \in 1..n : new[i] = s[i]
  BY <1>1, <1>2
<1> HIDE DEF new
<1>4. /\ \A i \in 1..n : IsTrack(s[i])
      /\ \A i, j \in 1..n : s[i].trackID = s[j].trackID => i = j
  BY <1>1, <1>2, TrackListIs
<1>5. ASSUME NEW i \in 1..n + 1 PROVE i \in 1..n \/ i = n + 1
  OBVIOUS
<1>6. \A i \in 1..n + 1 : IsTrack(new[i])
  BY <1>3, <1>4, <1>5
<1>7. \A i, j \in 1..n + 1 : new[i].trackID = new[j].trackID => i = j
  BY <1>2, <1>3, <1>4, <1>5
<1>8. new \in TrackLists
  BY <1>3, <1>6, <1>7, TrackListIs
<1> QED BY <1>8 DEF new

\* Tracks can be taken out.
LEMMA TrackRemoved ==
    ASSUME NEW s \in TrackLists, NEW i \in DOMAIN s
    PROVE  RemoveAt(s, i) \in TrackLists
<1> DEFINE new == RemoveAt(s, i)
           Old(k) == IF k < i THEN k ELSE k + 1
<1>1. s \in Seq(Mhits)
  BY DEF TrackLists
<1>2. PICK n \in Nat : DOMAIN s = 1..n /\ n = Len(s) /\ i \in 1..n
  BY <1>1
<1>3. new \in Seq(Mhits) /\ Len(new) = n - 1 /\ \A k \in 1..n - 1 : new[k] = s[Old(k)]
  BY <1>1, <1>2, Removed
<1> HIDE DEF new
<1>4. /\ \A k \in 1..n : IsTrack(s[k])
      /\ \A j, k \in 1..n : s[j].trackID = s[k].trackID => j = k
  BY <1>1, <1>2, TrackListIs
<1>5. /\ \A k \in 1..n - 1 : Old(k) \in 1..n
      /\ \A j, k \in 1..n - 1 : Old(j) = Old(k) => j = k
  BY <1>2
<1> HIDE DEF Old
<1>6. \A k \in 1..n - 1 : IsTrack(new[k])
  BY <1>3, <1>4, <1>5
<1>7. \A j, k \in 1..n - 1 : new[j].trackID = new[k].trackID => j = k
  BY <1>3, <1>4, <1>5
<1>8. new \in TrackLists
  BY <1>3, <1>6, <1>7, TrackListIs
<1> QED BY <1>8 DEF new

\* A text of a track.
LEMMA TrackTextSet ==
    ASSUME NEW s \in TrackLists, NEW i \in DOMAIN s, NEW type, NEW text \in File
    PROVE  [s EXCEPT ![i].mhods = set_text(@, type, text)] \in TrackLists
<1> DEFINE mhods == set_text(s[i].mhods, type, text)
           t == [s[i] EXCEPT !.mhods = mhods]
<1>1. s \in Seq(Mhits)
  BY DEF TrackLists
<1>2. IsTrack(s[i])
  BY <1>1, TrackListIs
<1>3. s[i].mhods \in Seq(Mhods)
  BY <1>2 DEF IsTrack, Mhits
<1>4. mhods \in Seq(Mhods) /\ \A k \in DOMAIN mhods : copy_mhod(mhods[k]) = mhods[k]
  <2>1. \A k \in DOMAIN s[i].mhods : copy_mhod(s[i].mhods[k]) = s[i].mhods[k]
    BY <1>2 DEF IsTrack
  <2> QED BY <1>3, <2>1, TextSet
<1>5. [s EXCEPT ![i].mhods = set_text(@, type, text)] = [s EXCEPT ![i] = t]
  BY <1>1
<1> HIDE DEF mhods
<1>6. IsTrack(t) /\ t.trackID = s[i].trackID
  <2>1. s[i] \in Mhits
    BY <1>2 DEF IsTrack
  <2>2. t \in Mhits /\ t.rating = s[i].rating /\ t.mhods = mhods /\ t.trackID = s[i].trackID
    BY <1>4, <2>1 DEF Mhits
  <2> HIDE DEF t
  <2> QED BY <1>2, <1>4, <2>2 DEF IsTrack
<1> HIDE DEF t
<1> QED BY <1>5, <1>6, TrackChanged

\* The rating of a track.
LEMMA TrackRated ==
    ASSUME NEW s \in TrackLists, NEW i \in DOMAIN s, NEW value \in Int
    PROVE  [s EXCEPT ![i] = set_attribute(@, "rating", value)] \in TrackLists
<1> DEFINE r == value % 256
           t == [s[i] EXCEPT !.rating = r]
<1>1. s \in Seq(Mhits)
  BY DEF TrackLists
<1>2. IsTrack(s[i])
  BY <1>1, TrackListIs
<1>3. [s EXCEPT ![i] = set_attribute(@, "rating", value)] = [s EXCEPT ![i] = t]
  BY <1>1 DEF set_attribute, Field, Stored
<1>4. r \in 0..255 /\ r \in Int
  OBVIOUS
<1> HIDE DEF r
<1>5. IsTrack(t) /\ t.trackID = s[i].trackID
  <2>1. s[i] \in Mhits
    BY <1>2 DEF IsTrack
  <2>2. t \in Mhits /\ t.rating \in 0..255 /\ t.mhods = s[i].mhods /\ t.trackID = s[i].trackID
    BY <1>4, <2>1 DEF Mhits
  <2> HIDE DEF t
  <2> QED BY <1>2, <2>2 DEF IsTrack
<1> HIDE DEF t
<1> QED BY <1>3, <1>5, TrackChanged

\* The track that is added to a list.
NewTrack(s) ==
    LET id == unique_id(1000, [i \in DOMAIN s |-> s[i].trackID])
        stamped == set_attribute(new_mhit, "addedTimeNative", 1)
    IN  [stamped EXCEPT !.trackID = id, !.dbid = id]

\* A new track.
LEMMA TrackMade ==
    ASSUME NEW s \in TrackLists
    PROVE  Append(s, NewTrack(s)) \in TrackLists
<1> DEFINE ids == [i \in DOMAIN s |-> s[i].trackID]
           id == unique_id(1000, ids)
           stamped == set_attribute(new_mhit, "addedTimeNative", 1)
           t == [stamped EXCEPT !.trackID = id, !.dbid = id]
<1>1. s \in Seq(Mhits)
  BY DEF TrackLists
<1>2. \A i \in DOMAIN s : s[i].trackID \in Int
  <2> TAKE i \in DOMAIN s
  <2>1. s[i] \in Mhits
    BY <1>1
  <2> QED BY <2>1 DEF Mhits
<1>3. ids \in Seq(Int)
  BY <1>1, <1>2
<1>4. id \in Int /\ \A i \in DOMAIN ids : ids[i] < id
  <2>1. 1000 \in Int
    OBVIOUS
  <2> HIDE DEF ids
  <2> QED BY <1>3, <2>1, IdAbove
<1>5. \A i \in DOMAIN s : s[i].trackID # id
  <2> TAKE i \in DOMAIN s
  <2>1. i \in DOMAIN ids /\ ids[i] = s[i].trackID
    OBVIOUS
  <2> HIDE DEF id, ids
  <2>2. s[i].trackID < id /\ s[i].trackID \in Int
    BY <1>2, <1>4, <2>1
  <2> QED BY <1>4, <2>2
<1> HIDE DEF id
<1>6. stamped \in Mhits /\ stamped.rating = 0 /\ stamped.mhods = <<>>
  <2> DEFINE time == 1 + MAC_EPOCH_OFFSET
  <2>1. Field("addedTimeNative") = "addedTime" /\ Stored("addedTimeNative", 1) = time
    BY DEF Field, Stored, Offset
  <2>2. time \in Int
    BY DEF MAC_EPOCH_OFFSET
  <2> HIDE DEF time
  <2>3. stamped = [new_mhit EXCEPT !.addedTime = time]
    BY <2>1 DEF set_attribute
  <2>4. new_mhit \in Mhits /\ new_mhit.rating = 0 /\ new_mhit.mhods = <<>>
    BY DEF new_mhit, Mhits
  <2> HIDE DEF stamped
  <2> QED BY <2>2, <2>3, <2>4 DEF Mhits
<1> HIDE DEF stamped
<1>7. t \in Mhits /\ t.rating = 0 /\ t.mhods = <<>> /\ t.trackID = id
  BY <1>4, <1>6 DEF Mhits
<1> HIDE DEF t
<1>8. IsTrack(t)
  BY <1>7 DEF IsTrack
<1>9. Append(s, t) \in TrackLists
  BY <1>5, <1>7, <1>8, TrackAppended
<1> QED BY <1>9 DEF NewTrack, t, id, stamped

-----------------------------------------------------------------------------
(* Editing playlists                                                       *)

\* One playlist, or one item, may change.
LEMMA ElementChanged ==
    ASSUME NEW S, NEW s \in Seq(S), NEW i \in DOMAIN s, NEW x \in S
    PROVE  [s EXCEPT ![i] = x] \in Seq(S)
  OBVIOUS

\* A new playlist.
LEMMA PlaylistMade ==
    ASSUME NEW lists \in Seq(Mhyps)
    PROVE  Append(lists, new_mhyp(0, unique_id(10, [i \in DOMAIN lists |-> lists[i].id]), 0, <<>>))
              \in Seq(Mhyps)
<1> DEFINE ids == [i \in DOMAIN lists |-> lists[i].id]
           id == unique_id(10, ids)
<1>1. \A i \in DOMAIN lists : lists[i].id \in Int
  <2> TAKE i \in DOMAIN lists
  <2>1. lists[i] \in Mhyps
    OBVIOUS
  <2> QED BY <2>1 DEF Mhyps
<1>2. ids \in Seq(Int)
  BY <1>1
<1>3. id \in Int
  <2>1. 10 \in Int
    OBVIOUS
  <2> HIDE DEF ids
  <2> QED BY <1>2, <2>1, IdAbove
<1> HIDE DEF id
<1>4. new_mhyp(0, id, 0, <<>>) \in Mhyps
  BY <1>3 DEF new_mhyp, Mhyps
<1>5. Append(lists, new_mhyp(0, id, 0, <<>>)) \in Seq(Mhyps)
  BY <1>4
<1> QED BY <1>5 DEF id

\* The title of a playlist.
LEMMA PlaylistTextSet ==
    ASSUME NEW lists \in Seq(Mhyps), NEW p \in DOMAIN lists, NEW text \in File
    PROVE  [lists EXCEPT ![p].mhods = set_text(@, TITLE, text)] \in Seq(Mhyps)
<1> DEFINE mhods == set_text(lists[p].mhods, TITLE, text)
           list == [lists[p] EXCEPT !.mhods = mhods]
<1>1. lists[p] \in Mhyps
  OBVIOUS
<1>2. lists[p].mhods \in Seq(Mhods)
  BY <1>1 DEF Mhyps
<1>3. mhods \in Seq(Mhods)
  BY <1>2, TextSet
<1>4. [lists EXCEPT ![p].mhods = set_text(@, TITLE, text)] = [lists EXCEPT ![p] = list]
  OBVIOUS
<1> HIDE DEF mhods
<1>5. list \in Mhyps
  BY <1>1, <1>3 DEF Mhyps
<1> HIDE DEF list
<1> QED BY <1>4, <1>5, ElementChanged

\* Whether it is a master playlist.
LEMMA PlaylistHidden ==
    ASSUME NEW lists \in Seq(Mhyps), NEW p \in DOMAIN lists, NEW value \in Int
    PROVE  [lists EXCEPT ![p] = set_list_attribute(@, "hidden", value)] \in Seq(Mhyps)
<1> DEFINE list == [lists[p] EXCEPT !.hidden = value]
<1>1. lists[p] \in Mhyps
  OBVIOUS
<1>2. [lists EXCEPT ![p] = set_list_attribute(@, "hidden", value)] = [lists EXCEPT ![p] = list]
  BY DEF set_list_attribute
<1>3. list \in Mhyps
  BY <1>1 DEF Mhyps
<1> HIDE DEF list
<1> QED BY <1>2, <1>3, ElementChanged

\* Any other list of items.
LEMMA ItemsSet ==
    ASSUME NEW lists \in Seq(Mhyps), NEW p \in DOMAIN lists, NEW mhips \in Seq(Mhips)
    PROVE  [lists EXCEPT ![p].mhips = mhips] \in Seq(Mhyps)
<1> DEFINE list == [lists[p] EXCEPT !.mhips = mhips]
<1>1. lists[p] \in Mhyps
  OBVIOUS
<1>2. [lists EXCEPT ![p].mhips = mhips] = [lists EXCEPT ![p] = list]
  OBVIOUS
<1>3. list \in Mhyps
  BY <1>1 DEF Mhyps
<1> HIDE DEF list
<1> QED BY <1>2, <1>3, ElementChanged

\* The items of a playlist.
LEMMA ItemsOf ==
    ASSUME NEW lists \in Seq(Mhyps), NEW p \in DOMAIN lists
    PROVE  lists[p].mhips \in Seq(Mhips)
<1>1. lists[p] \in Mhyps
  OBVIOUS
<1> QED BY <1>1 DEF Mhyps

\* A new item.
LEMMA ItemMade ==
    ASSUME NEW lists \in Seq(Mhyps), NEW p \in DOMAIN lists
    PROVE  [lists EXCEPT ![p].mhips = Append(@, new_mhip(0))] \in Seq(Mhyps)
<1> DEFINE mhips == Append(lists[p].mhips, new_mhip(0))
<1>1. new_mhip(0) \in Mhips
  BY DEF new_mhip, Mhips
<1>2. mhips \in Seq(Mhips)
  BY <1>1, ItemsOf
<1>3. [lists EXCEPT ![p].mhips = Append(@, new_mhip(0))] = [lists EXCEPT ![p].mhips = mhips]
  OBVIOUS
<1> HIDE DEF mhips
<1> QED BY <1>2, <1>3, ItemsSet

\* An item without its track.
LEMMA ItemRemoved ==
    ASSUME NEW lists \in Seq(Mhyps), NEW p \in DOMAIN lists, NEW k \in DOMAIN lists[p].mhips
    PROVE  [lists EXCEPT ![p].mhips = RemoveAt(@, k)] \in Seq(Mhyps)
<1> DEFINE mhips == RemoveAt(lists[p].mhips, k)
<1>1. mhips \in Seq(Mhips)
  <2>1. lists[p].mhips \in Seq(Mhips)
    BY ItemsOf
  <2>2. k \in 1..Len(lists[p].mhips)
    BY <2>1
  <2> QED BY <2>1, <2>2, Removed
<1>2. [lists EXCEPT ![p].mhips = RemoveAt(@, k)] = [lists EXCEPT ![p].mhips = mhips]
  OBVIOUS
<1> HIDE DEF mhips
<1> QED BY <1>1, <1>2, ItemsSet

\* The track or the group of an item.
LEMMA ItemSet ==
    ASSUME NEW lists \in Seq(Mhyps), NEW p \in DOMAIN lists, NEW k \in DOMAIN lists[p].mhips,
           NEW tag \in {"trackID", "groupID"}, NEW value \in Int
    PROVE  [lists EXCEPT ![p].mhips[k] = set_item_attribute(@, tag, value)] \in Seq(Mhyps)
<1> DEFINE items == lists[p].mhips
           item == [items[k] EXCEPT ![tag] = value]
           mhips == [items EXCEPT ![k] = item]
<1>1. items \in Seq(Mhips)
  BY ItemsOf
<1>2. [lists EXCEPT ![p].mhips[k] = set_item_attribute(@, tag, value)]
         = [lists EXCEPT ![p].mhips = mhips]
  BY DEF set_item_attribute
<1> HIDE DEF items
<1>3. items[k] \in Mhips
  BY <1>1 DEF items
<1>4. item \in Mhips
  BY <1>3 DEF Mhips
<1> HIDE DEF item
<1>5. mhips \in Seq(Mhips)
  <2>1. k \in DOMAIN items
    BY DEF items
  <2> QED BY <1>1, <1>4, <2>1, ElementChanged
<1> HIDE DEF mhips
<1> QED BY <1>2, <1>5, ItemsSet

-----------------------------------------------------------------------------
(* Preparing to write                                                      *)

\* Tracks are prepared alone.
LEMMA TrackPrepared ==
    ASSUME NEW t, IsTrack(t)
    PROVE  /\ IsTrack(prepare_mhit(t)) /\ prepare_mhit(t).trackID = t.trackID
           /\ prepare_mhit(t).mhods = t.mhods
           /\ prepare_mhit(t).playCount2 = prepare_mhit(t).playCount
<1>1. t \in Mhits
  BY DEF IsTrack
<1>2. /\ prepare_mhit(t) \in Mhits /\ prepare_mhit(t).trackID = t.trackID
      /\ prepare_mhit(t).mhods = t.mhods /\ prepare_mhit(t).rating = t.rating
      /\ prepare_mhit(t).playCount2 = prepare_mhit(t).playCount
  BY <1>1 DEF prepare_mhit, Mhits
<1> QED BY <1>2 DEF IsTrack

\* A list of them keeps its ids.
PreparedTracks(s) == [i \in DOMAIN s |-> prepare_mhit(s[i])]
LEMMA TracksPrepared ==
    ASSUME NEW s \in TrackLists
    PROVE  /\ PreparedTracks(s) \in TrackLists /\ DOMAIN PreparedTracks(s) = DOMAIN s
           /\ Len(PreparedTracks(s)) = Len(s)
           /\ \A i \in DOMAIN s :
                 /\ PreparedTracks(s)[i].mhods = s[i].mhods
                 /\ PreparedTracks(s)[i].playCount2 = PreparedTracks(s)[i].playCount
<1> DEFINE new == PreparedTracks(s)
<1>1. s \in Seq(Mhits)
  BY DEF TrackLists
<1>2. DOMAIN s = 1..Len(s) /\ Len(s) \in Nat
  BY <1>1
<1>3. new = [i \in DOMAIN s |-> prepare_mhit(s[i])]
  BY DEF PreparedTracks
<1> HIDE DEF new
<1>4. DOMAIN new = DOMAIN s /\ Len(new) = Len(s)
  BY <1>2, <1>3
<1>5. ASSUME NEW i \in DOMAIN s
      PROVE  /\ IsTrack(new[i]) /\ new[i].trackID = s[i].trackID
             /\ new[i].mhods = s[i].mhods /\ new[i].playCount2 = new[i].playCount
  <2>1. IsTrack(s[i])
    BY <1>1, <1>2, TrackListIs
  <2>2. new[i] = prepare_mhit(s[i])
    BY <1>3
  <2> QED BY <2>1, <2>2, TrackPrepared
<1>6. \E g : new = [i \in DOMAIN s |-> g[i]]
  <2>1. new = [i \in DOMAIN s |-> new[i]]
    BY <1>3
  <2> QED BY <2>1
<1>7. new \in TrackLists
  BY <1>5, <1>6, TracksChanged
<1> QED BY <1>4, <1>5, <1>7 DEF new

\* An index is sorted, other mhods stay.
LEMMA MhodPrepared ==
    ASSUME NEW a \in Mhods, NEW tracks \in Seq(Mhits)
    PROVE  /\ prepare_mhod(a, tracks) \in Mhods /\ prepare_mhod(a, tracks).type = a.type
           /\ copy_mhod(prepare_mhod(copy_mhod(a), tracks)) = copy_mhod(prepare_mhod(a, tracks))
           /\ a.type = LIBRARYPLAYLIST_INDEX =>
                 prepare_mhod(a, tracks).cells = Sorted(tracks, prepare_mhod(a, tracks).sort)
<1> DEFINE cells == Sorted(tracks, a.sort)
<1>1. InOrderUpTo(cells, Len(tracks), Keys(tracks, a.sort))
  BY SortedIs
<1>2. cells \in File
  BY <1>1 DEF InOrderUpTo
<1>3. /\ a.type = LIBRARYPLAYLIST_INDEX => prepare_mhod(a, tracks) = [a EXCEPT !.cells = cells]
      /\ a.type # LIBRARYPLAYLIST_INDEX => prepare_mhod(a, tracks) = a
  BY DEF prepare_mhod
<1>4. a.type = LIBRARYPLAYLIST_INDEX => Kind(a.type) = "index" /\ a.type # 0
  BY DEF Kind, Strings, LIBRARYPLAYLIST_INDEX, SMARTPLAYLIST_PREF
<1> HIDE DEF cells
<1>5. /\ prepare_mhod(a, tracks) \in Mhods /\ prepare_mhod(a, tracks).type = a.type
      /\ prepare_mhod(a, tracks).sort = a.sort
      /\ a.type = LIBRARYPLAYLIST_INDEX => prepare_mhod(a, tracks).cells = cells
  <2>1. CASE a.type = LIBRARYPLAYLIST_INDEX
    BY <1>2, <1>3, <1>4, <2>1 DEF Mhods
  <2>2. CASE a.type # LIBRARYPLAYLIST_INDEX
    BY <1>3, <2>2
  <2> QED BY <2>1, <2>2
<1>6. copy_mhod(prepare_mhod(copy_mhod(a), tracks)) = copy_mhod(prepare_mhod(a, tracks))
  <2>1. CASE a.type = 0
    <3>1. copy_mhod(a) = [a EXCEPT !.sort = 0] /\ copy_mhod(a).type = 0
          /\ copy_mhod(copy_mhod(a)) = copy_mhod(a)
      BY <2>1 DEF copy_mhod, Mhods
    <3>2. prepare_mhod(copy_mhod(a), tracks) = copy_mhod(a) /\ prepare_mhod(a, tracks) = a
      BY <2>1, <3>1 DEF prepare_mhod, LIBRARYPLAYLIST_INDEX
    <3> QED BY <3>1, <3>2
  <2>2. CASE a.type # 0
    <3>1. copy_mhod(a) = a
      BY <2>2 DEF copy_mhod
    <3> QED BY <3>1
  <2> QED BY <2>1, <2>2
<1> QED BY <1>5, <1>6 DEF cells

\* What a playlist's mhods become.
PreparedMhods(mhods, tracks) == [i \in DOMAIN mhods |-> prepare_mhod(mhods[i], tracks)]
PreparedItems(a, tracks) ==
    check_playlist(IF a.hidden # 0 THEN check_master_playlist(a.mhips, tracks) ELSE a.mhips, tracks)

\* Items are added for tracks, and those without tracks removed.
LEMMA ItemsPrepared ==
    ASSUME NEW a \in Mhyps, NEW tracks \in Seq(Mhits)
    PROVE  PreparedItems(a, tracks) \in Seq(Mhips)
<1>1. a.mhips \in Seq(Mhips)
  BY DEF Mhyps
<1>2. check_master_playlist(a.mhips, tracks) \in Seq(Mhips)
  <2> DEFINE S == {t \in ToSet(tracks) : \A i \in DOMAIN a.mhips : a.mhips[i].trackID # t.trackID}
             missing == Only(tracks, S)
             more == [i \in DOMAIN missing |-> new_mhip(missing[i].trackID)]
  <2>1. missing \in Seq(Mhits)
    <3> HIDE DEF S
    <3> QED BY OnlyTyped
  <2>2. check_master_playlist(a.mhips, tracks) = a.mhips \o more
    BY DEF check_master_playlist
  <2> HIDE DEF missing
  <2>3. \A i \in DOMAIN missing : new_mhip(missing[i].trackID) \in Mhips
    <3> TAKE i \in DOMAIN missing
    <3>1. missing[i] \in Mhits
      BY <2>1
    <3>2. missing[i].trackID \in Int
      BY <3>1 DEF Mhits
    <3> QED BY <3>2 DEF new_mhip, Mhips
  <2>4. more \in Seq(Mhips)
    BY <2>1, <2>3
  <2> HIDE DEF more
  <2> QED BY <1>1, <2>2, <2>4
<1> DEFINE all == IF a.hidden # 0 THEN check_master_playlist(a.mhips, tracks) ELSE a.mhips
           S == {item \in ToSet(all) : InList(item, tracks)}
<1>3. all \in Seq(Mhips)
  BY <1>1, <1>2
<1>4. PreparedItems(a, tracks) = Only(all, S)
  BY DEF PreparedItems, check_playlist
<1> HIDE DEF all, S
<1> QED BY <1>3, <1>4, OnlyTyped

\* A playlist with other mhods and items.
LEMMA PlaylistWith ==
    ASSUME NEW a \in Mhyps, NEW mhods, NEW mhips
    PROVE  /\ [a EXCEPT !.mhods = mhods]
                 = [hidden |-> a.hidden, id |-> a.id, sortOrder |-> a.sortOrder,
                    mhods |-> mhods, mhips |-> a.mhips]
           /\ [a EXCEPT !.mhods = mhods, !.mhips = mhips]
                 = [hidden |-> a.hidden, id |-> a.id, sortOrder |-> a.sortOrder,
                    mhods |-> mhods, mhips |-> mhips]
<1>1. [a EXCEPT !.mhods = mhods]
         = [hidden |-> a.hidden, id |-> a.id, sortOrder |-> a.sortOrder,
            mhods |-> mhods, mhips |-> a.mhips]
  BY DEF Mhyps
<1> DEFINE b == [a EXCEPT !.mhods = mhods]
<1>2. [a EXCEPT !.mhods = mhods, !.mhips = mhips] = [b EXCEPT !.mhips = mhips]
  OBVIOUS
<1>3. b = [hidden |-> a.hidden, id |-> a.id, sortOrder |-> a.sortOrder,
           mhods |-> mhods, mhips |-> a.mhips]
  BY <1>1
<1> HIDE DEF b
<1>4. [b EXCEPT !.mhips = mhips]
         = [hidden |-> a.hidden, id |-> a.id, sortOrder |-> a.sortOrder,
            mhods |-> mhods, mhips |-> mhips]
  BY <1>3
<1> QED BY <1>1, <1>2, <1>4

\* A playlist stays one.
LEMMA PlaylistPrepared ==
    ASSUME NEW a \in Mhyps, NEW tracks \in Seq(Mhits)
    PROVE  /\ prepare_mhyp(a, tracks) \in Mhyps
           /\ prepare_mhyp(a, tracks).mhods = PreparedMhods(a.mhods, tracks)
           /\ prepare_mhyp(a, tracks)
                 = [hidden |-> a.hidden, id |-> a.id, sortOrder |-> a.sortOrder,
                    mhods |-> PreparedMhods(a.mhods, tracks), mhips |-> PreparedItems(a, tracks)]
<1> DEFINE mhods == PreparedMhods(a.mhods, tracks)
           mhips == PreparedItems(a, tracks)
<1>1. a.mhods \in Seq(Mhods)
  BY DEF Mhyps
<1>2. \A i \in DOMAIN a.mhods : prepare_mhod(a.mhods[i], tracks) \in Mhods
  <2> TAKE i \in DOMAIN a.mhods
  <2>1. a.mhods[i] \in Mhods
    BY <1>1
  <2> QED BY <2>1, MhodPrepared
<1>3. mhods \in Seq(Mhods)
  BY <1>1, <1>2 DEF PreparedMhods
<1>4. mhips \in Seq(Mhips)
  BY ItemsPrepared
<1>5. prepare_mhyp(a, tracks) = [a EXCEPT !.mhods = mhods, !.mhips = mhips]
  BY DEF prepare_mhyp, PreparedMhods, PreparedItems
<1> HIDE DEF mhods, mhips
<1>6. /\ [a EXCEPT !.mhods = mhods, !.mhips = mhips]
            = [hidden |-> a.hidden, id |-> a.id, sortOrder |-> a.sortOrder,
               mhods |-> mhods, mhips |-> mhips]
      /\ [a EXCEPT !.mhods = mhods, !.mhips = mhips] \in Mhyps
      /\ [a EXCEPT !.mhods = mhods, !.mhips = mhips].mhods = mhods
  <2>1. [hidden |-> a.hidden, id |-> a.id, sortOrder |-> a.sortOrder,
         mhods |-> mhods, mhips |-> mhips] \in Mhyps
    BY <1>3, <1>4 DEF Mhyps
  <2>2. [a EXCEPT !.mhods = mhods, !.mhips = mhips]
            = [hidden |-> a.hidden, id |-> a.id, sortOrder |-> a.sortOrder,
               mhods |-> mhods, mhips |-> mhips]
    BY PlaylistWith
  <2> QED BY <2>1, <2>2
<1> QED BY <1>5, <1>6 DEF mhods, mhips

\* A copy of a playlist is one, and is prepared to the same.
LEMMA PlaylistCopied ==
    ASSUME NEW a \in Mhyps
    PROVE  /\ copy_mhyp(a) \in Mhyps
           /\ copy_mhyp(a) = [hidden |-> a.hidden, id |-> a.id, sortOrder |-> a.sortOrder,
                              mhods |-> Copies(a.mhods), mhips |-> a.mhips]
           /\ \A tracks \in Seq(Mhits) :
                 copy_mhyp(prepare_mhyp(copy_mhyp(a), tracks)) = copy_mhyp(prepare_mhyp(a, tracks))
<1>1. a.mhods \in Seq(Mhods)
  BY DEF Mhyps
<1>2. ASSUME NEW b \in Mhyps
      PROVE  /\ copy_mhyp(b) = [hidden |-> b.hidden, id |-> b.id, sortOrder |-> b.sortOrder,
                                mhods |-> Copies(b.mhods), mhips |-> b.mhips]
  <2> DEFINE ms == Copies(b.mhods)
  <2>1. copy_mhyp(b) = [b EXCEPT !.mhods = ms]
    BY DEF copy_mhyp, Copies
  <2> HIDE DEF ms
  <2>2. [b EXCEPT !.mhods = ms] = [hidden |-> b.hidden, id |-> b.id, sortOrder |-> b.sortOrder,
                                   mhods |-> ms, mhips |-> b.mhips]
    BY PlaylistWith
  <2> QED BY <2>1, <2>2 DEF ms
<1>3. Copies(a.mhods) \in Seq(Mhods)
  <2>1. \A i \in DOMAIN a.mhods : copy_mhod(a.mhods[i]) \in Mhods
    <3> TAKE i \in DOMAIN a.mhods
    <3>1. a.mhods[i] \in Mhods
      BY <1>1
    <3> QED BY <3>1 DEF copy_mhod, Mhods
  <2> QED BY <1>1, <2>1 DEF Copies
<1>4. copy_mhyp(a) \in Mhyps
  <2> DEFINE ms == Copies(a.mhods)
  <2>1. copy_mhyp(a) = [hidden |-> a.hidden, id |-> a.id, sortOrder |-> a.sortOrder,
                        mhods |-> ms, mhips |-> a.mhips] /\ ms \in Seq(Mhods)
    BY <1>2, <1>3
  <2> HIDE DEF ms
  <2> QED BY <2>1 DEF Mhyps
<1>5. ASSUME NEW tracks \in Seq(Mhits)
      PROVE  copy_mhyp(prepare_mhyp(copy_mhyp(a), tracks)) = copy_mhyp(prepare_mhyp(a, tracks))
  <2> DEFINE c == copy_mhyp(a)
             pc == prepare_mhyp(c, tracks)
             pa == prepare_mhyp(a, tracks)
  <2>1. /\ c \in Mhyps /\ c.mhips = a.mhips /\ c.hidden = a.hidden /\ c.id = a.id
        /\ c.sortOrder = a.sortOrder /\ c.mhods = Copies(a.mhods)
    BY <1>2, <1>4
  <2> HIDE DEF c
  <2>2. PreparedItems(c, tracks) = PreparedItems(a, tracks)
    BY <2>1 DEF PreparedItems
  <2>3. /\ pc \in Mhyps /\ pc.mhods = PreparedMhods(c.mhods, tracks) /\ pc.hidden = a.hidden
        /\ pc.id = a.id /\ pc.sortOrder = a.sortOrder /\ pc.mhips = PreparedItems(a, tracks)
    BY <2>1, <2>2, PlaylistPrepared
  <2>4. /\ pa \in Mhyps /\ pa.mhods = PreparedMhods(a.mhods, tracks) /\ pa.hidden = a.hidden
        /\ pa.id = a.id /\ pa.sortOrder = a.sortOrder /\ pa.mhips = PreparedItems(a, tracks)
    BY PlaylistPrepared
  <2>5. Copies(pc.mhods) = Copies(pa.mhods)
    <3>1. /\ DOMAIN Copies(a.mhods) = DOMAIN a.mhods
          /\ \A i \in DOMAIN a.mhods : Copies(a.mhods)[i] = copy_mhod(a.mhods[i])
      BY DEF Copies
    <3>2. /\ DOMAIN pc.mhods = DOMAIN a.mhods /\ DOMAIN pa.mhods = DOMAIN a.mhods
          /\ \A i \in DOMAIN a.mhods :
                /\ pc.mhods[i] = prepare_mhod(copy_mhod(a.mhods[i]), tracks)
                /\ pa.mhods[i] = prepare_mhod(a.mhods[i], tracks)
      BY <2>1, <2>3, <2>4, <3>1 DEF PreparedMhods
    <3>3. \A i \in DOMAIN a.mhods : copy_mhod(pc.mhods[i]) = copy_mhod(pa.mhods[i])
      <4> TAKE i \in DOMAIN a.mhods
      <4>1. a.mhods[i] \in Mhods
        BY <1>1
      <4> QED BY <3>2, <4>1, MhodPrepared
    <3> HIDE DEF pc, pa
    <3> QED BY <3>2, <3>3 DEF Copies
  <2> HIDE DEF pc, pa
  <2>6. copy_mhyp(pc) = copy_mhyp(pa)
    BY <1>2, <2>3, <2>4, <2>5
  <2> QED BY <2>6 DEF pc, pa, c
<1> QED BY <1>2, <1>4, <1>5

\* A copy of the playlists takes the place of the podcasts.
LEMMA PodcastsCopied ==
    ASSUME NEW tree, IsDatabase(tree)
    PROVE  LET new == copy_playlists(tree)
           IN  /\ IsDatabase(new) /\ new.version = tree.version /\ Tracks(new) = Tracks(tree)
               /\ Len(new.children) = Len(tree.children)
               /\ \A index : StoreAt(new, index) = StoreAt(tree, index)
               /\ \A i \in DOMAIN tree.children :
                     /\ new.children[i].index = tree.children[i].index
                     /\ i # StoreAt(tree, 3) => new.children[i] = tree.children[i]
               /\ StoreAt(tree, 3) # 0 =>
                     new.children[StoreAt(tree, 3)].child.children
                        = [i \in DOMAIN Playlists(tree) |-> copy_mhyp(Playlists(tree)[i])]
<1> DEFINE new == copy_playlists(tree)
           p == StoreAt(tree, 2)
           q == StoreAt(tree, 3)
           lists == Playlists(tree)
           copies == [i \in DOMAIN lists |-> copy_mhyp(lists[i])]
           copy == [copy_mhsd(tree.children[p]) EXCEPT !.index = 3]
<1>1. PICK n \in Nat :
         /\ n = Len(tree.children) /\ DOMAIN tree.children = 1..n
         /\ tree.version \in Int /\ tree.children \in Seq(Mhsds)
         /\ tree = [version |-> tree.version, children |-> tree.children]
         /\ StoreAt(tree, 1) \in 1..n /\ p \in 1..n /\ StoreAt(tree, 1) # p
         /\ tree.children[StoreAt(tree, 1)].index = 1 /\ tree.children[p].index = 2
         /\ tree.children[p].child.tag = MHLP /\ lists \in Seq(Mhyps)
  BY Parts
<1>2. /\ q \in 0..n
      /\ q # 0 => q \in 1..n /\ tree.children[q].index = 3 /\ q # p /\ q # StoreAt(tree, 1)
  BY <1>1, StoreAtIs
<1>3. lists = tree.children[p].child.children
  BY DEF Playlists
<1>4. copies \in Seq(Mhyps)
  <2>1. \A i \in DOMAIN lists : copy_mhyp(lists[i]) \in Mhyps
    <3> TAKE i \in DOMAIN lists
    <3>1. lists[i] \in Mhyps
      BY <1>1
    <3> QED BY <3>1, PlaylistCopied
  <2> HIDE DEF lists
  <2> QED BY <1>1, <2>1
<1> HIDE DEF q, p, lists
<1>5. copy = [index |-> 3, child |-> [tag |-> MHLP, children |-> copies]]
  <2> DEFINE d == tree.children[p]
  <2>1. d \in Mhsds /\ d.child.tag = MHLP /\ d.child.children = lists
    BY <1>1, <1>3
  <2> HIDE DEF d
  <2>2. copy_mhsd(d) = [d EXCEPT !.child.children = copies]
    BY <2>1 DEF copy_mhsd
  <2> HIDE DEF copies
  <2>3. d = [index |-> d.index, child |-> d.child]
        /\ d.child = [tag |-> d.child.tag, children |-> d.child.children]
    BY <2>1 DEF Mhsds, Mhls
  <2>4. copy_mhsd(d) = [index |-> d.index, child |-> [tag |-> MHLP, children |-> copies]]
    BY <2>1, <2>2, <2>3
  <2>5. [copy_mhsd(d) EXCEPT !.index = 3]
           = [index |-> 3, child |-> [tag |-> MHLP, children |-> copies]]
    BY <2>4
  <2> QED BY <2>5 DEF d
<1>6. copy \in Mhsds /\ copy.index = 3 /\ copy.child.tag = MHLP /\ copy.child.children = copies
  <2>1. [tag |-> MHLP, children |-> copies] \in Mhls
    BY <1>4 DEF Mhls
  <2>2. [index |-> 3, child |-> [tag |-> MHLP, children |-> copies]] \in Mhsds
    BY <2>1 DEF Mhsds
  <2> HIDE DEF copy
  <2> QED BY <1>5, <2>2
<1> HIDE DEF copy, copies
<1>7. n > 2 <=> Len(tree.children) > 2
  BY <1>1
<1>8. q # 0 => n > 2
  BY <1>1, <1>2
<1>9. /\ q # 0 => new = [tree EXCEPT !.children[q] = copy]
      /\ q = 0 => new = tree
  BY <1>1, <1>7, <1>8 DEF copy_playlists, q, p, copy
<1>10. CASE q = 0
  <2>1. new = tree
    BY <1>9, <1>10
  <2> QED BY <1>10, <2>1 DEF q
<1>11. CASE q # 0
  <2> DEFINE stores == [tree.children EXCEPT ![q] = copy]
  <2>1. new = [version |-> tree.version, children |-> stores]
    <3>1. new = [tree EXCEPT !.children = stores]
      BY <1>9, <1>11
    <3> HIDE DEF stores, new
    <3> QED BY <1>1, <3>1
  <2>2. stores \in Seq(Mhsds) /\ Len(stores) = n /\ DOMAIN stores = 1..n
    <3>1. tree.children \in Seq(Mhsds) /\ q \in 1..Len(tree.children) /\ copy \in Mhsds
      BY <1>1, <1>2, <1>6, <1>11
    <3>2. stores \in Seq(Mhsds) /\ Len(stores) = Len(tree.children)
      BY <3>1
    <3> QED BY <1>1, <3>2
  <2>3. stores[q] = copy /\ \A i \in 1..n : i # q => stores[i] = tree.children[i]
    BY <1>1, <1>2, <1>11
  <2> HIDE DEF stores, new
  <2>4. new \in Mhbds /\ new.version = tree.version /\ new.children = stores
    BY <1>1, <2>1, <2>2 DEF Mhbds
  <2>5. \A i \in 1..n : new.children[i].index = tree.children[i].index
    BY <1>2, <1>6, <2>3, <2>4
  <2>6. \A index : StoreAt(new, index) = StoreAt(tree, index)
    <3> TAKE index
    <3>1. /\ Len(tree.children) = Len(new.children)
          /\ \A i \in 1..Len(tree.children) : tree.children[i].index = new.children[i].index
      BY <1>1, <2>2, <2>4, <2>5
    <3> QED BY <3>1, StoreAtSame
  <2>7. Tracks(new) = Tracks(tree)
    BY <1>1, <1>2, <1>11, <2>3, <2>4, <2>6 DEF Tracks
  <2>8. \A i \in 1..n :
           new.children[i].child.tag = IF new.children[i].index = 1 THEN MHLT ELSE MHLP
    BY <1>1, <1>2, <1>6, <1>11, <2>3, <2>4, <2>5 DEF IsDatabase
  <2>9. DOMAIN new.children = 1..n
    BY <2>2, <2>4
  <2>10. IsDatabase(new)
    BY <1>1, <2>4, <2>5, <2>6, <2>7, <2>8, <2>9 DEF IsDatabase
  <2>11. new.children[q].child.children = copies
    BY <1>6, <2>3, <2>4
  <2> QED BY <1>1, <2>2, <2>3, <2>4, <2>5, <2>6, <2>7, <2>10, <2>11 DEF new, q, copies, lists
<1> QED BY <1>10, <1>11

-----------------------------------------------------------------------------
(* Other lists in all stores                                               *)

\* The tree with the lists of all stores replaced.
Replaced(tree, list) ==
    [version |-> tree.version,
     children |-> [i \in DOMAIN tree.children |->
        [index |-> tree.children[i].index,
         child |-> [tag |-> tree.children[i].child.tag, children |-> list[i]]]]]

\* The lists fit the stores.
Fits(list, tree) ==
    \A i \in DOMAIN tree.children :
        list[i] \in IF tree.children[i].index = 1 THEN TrackLists ELSE Seq(Mhyps)

\* "new" has these lists in the stores of "tree".
HasLists(new, tree, list) ==
    /\ new.version = tree.version /\ DOMAIN new.children = DOMAIN tree.children
    /\ \A i \in DOMAIN tree.children :
          /\ new.children[i].index = tree.children[i].index
          /\ new.children[i].child.tag = tree.children[i].child.tag
          /\ new.children[i].child.children = list[i]
    /\ \A index : StoreAt(new, index) = StoreAt(tree, index)
    /\ Tracks(new) = list[StoreAt(tree, 1)] /\ Playlists(new) = list[StoreAt(tree, 2)]

\* With lists that fit it is a database.
LEMMA ListsReplaced ==
    ASSUME NEW tree, IsDatabase(tree), NEW list, Fits(list, tree),
           NEW new, new = Replaced(tree, list)
    PROVE  IsDatabase(new) /\ HasLists(new, tree, list)
<1>1. PICK n \in Nat, t, p \in Nat :
         /\ n = Len(tree.children) /\ DOMAIN tree.children = 1..n
         /\ tree.version \in Int /\ tree.children \in Seq(Mhsds)
         /\ t = StoreAt(tree, 1) /\ p = StoreAt(tree, 2) /\ t \in 1..n /\ p \in 1..n
         /\ tree.children[t].index = 1 /\ tree.children[p].index = 2
  BY Parts
<1> DEFINE stores == [i \in 1..n |->
               [index |-> tree.children[i].index,
                child |-> [tag |-> tree.children[i].child.tag, children |-> list[i]]]]
<1>2. new = [version |-> tree.version, children |-> stores]
  BY <1>1 DEF Replaced
<1>3. ASSUME NEW i \in 1..n
      PROVE  /\ stores[i] \in Mhsds /\ stores[i].index = tree.children[i].index
             /\ stores[i].child.tag = tree.children[i].child.tag
             /\ stores[i].child.children = list[i]
  <2>1. tree.children[i] \in Mhsds
    BY <1>1
  <2>2. tree.children[i].index \in Int
    BY <2>1 DEF Mhsds
  <2>3. /\ tree.children[i].child.tag
              = IF tree.children[i].index = 1 THEN MHLT ELSE MHLP
        /\ list[i] \in IF tree.children[i].index = 1 THEN TrackLists ELSE Seq(Mhyps)
    BY <1>1 DEF IsDatabase, Fits
  <2>4. [tag |-> tree.children[i].child.tag, children |-> list[i]] \in Mhls
    <3>1. CASE tree.children[i].index = 1
      BY <2>3, <3>1 DEF Mhls, TrackLists
    <3>2. CASE tree.children[i].index # 1
      BY <2>3, <3>2 DEF Mhls
    <3> QED BY <3>1, <3>2
  <2>5. stores[i] = [index |-> tree.children[i].index,
                     child |-> [tag |-> tree.children[i].child.tag, children |-> list[i]]]
    OBVIOUS
  <2> HIDE DEF stores
  <2>6. stores[i] \in Mhsds
    BY <2>2, <2>4, <2>5 DEF Mhsds
  <2> QED BY <2>5, <2>6
<1>4. stores \in Seq(Mhsds) /\ Len(stores) = n /\ DOMAIN stores = 1..n
  <2>1. stores = [i \in 1..n |-> stores[i]]
    OBVIOUS
  <2> HIDE DEF stores
  <2> QED BY <1>3, <2>1
<1> HIDE DEF stores
<1>5. new \in Mhbds /\ new.version = tree.version /\ new.children = stores
  BY <1>1, <1>2, <1>4 DEF Mhbds
<1>6. \A i \in 1..n : /\ new.children[i].index = tree.children[i].index
                      /\ new.children[i].child.tag = tree.children[i].child.tag
                      /\ new.children[i].child.children = list[i]
  BY <1>3, <1>5
<1>7. \A index : StoreAt(new, index) = StoreAt(tree, index)
  <2> TAKE index
  <2>1. /\ Len(tree.children) = Len(new.children)
        /\ \A i \in 1..Len(tree.children) : tree.children[i].index = new.children[i].index
    BY <1>1, <1>4, <1>5, <1>6
  <2> QED BY <2>1, StoreAtSame
<1>8. Tracks(new) = list[t] /\ Playlists(new) = list[p]
  BY <1>1, <1>6, <1>7 DEF Tracks, Playlists
<1>9. IsTrackList(list[t])
  BY <1>1 DEF Fits, TrackLists
<1>10. DOMAIN new.children = 1..n
  BY <1>4, <1>5
<1>11. IsDatabase(new)
  BY <1>1, <1>5, <1>6, <1>7, <1>8, <1>9, <1>10 DEF IsDatabase
<1>12. HasLists(new, tree, list)
  BY <1>1, <1>5, <1>6, <1>7, <1>8, <1>10 DEF HasLists
<1> QED BY <1>11, <1>12

\* What the list of a store is.
LEMMA ListOf ==
    ASSUME NEW tree, IsDatabase(tree), NEW i \in DOMAIN tree.children
    PROVE  LET d == tree.children[i]
           IN  /\ d = [index |-> d.index, child |-> [tag |-> d.child.tag,
                                                     children |-> d.child.children]]
               /\ d.child.tag = IF d.index = 1 THEN MHLT ELSE MHLP
               /\ d.index = 1 => i = StoreAt(tree, 1) /\ d.child.children = Tracks(tree)
               /\ d.child.children \in IF d.index = 1 THEN TrackLists ELSE Seq(Mhyps)
<1> DEFINE d == tree.children[i]
<1>1. PICK n \in Nat, t, p \in Nat :
         /\ n = Len(tree.children) /\ DOMAIN tree.children = 1..n
         /\ tree.version \in Int /\ tree.children \in Seq(Mhsds)
         /\ t = StoreAt(tree, 1) /\ p = StoreAt(tree, 2) /\ t \in 1..n /\ p \in 1..n
         /\ tree.children[t].index = 1 /\ Tracks(tree) \in Seq(Mhits)
  BY Parts
<1>2. d \in Mhsds
  BY <1>1
<1>3. d.child.tag = IF d.index = 1 THEN MHLT ELSE MHLP
  BY DEF IsDatabase
<1>4. d.index = 1 => i = t
  BY <1>1 DEF IsDatabase
<1>5. d.index = 1 => d.child.children = Tracks(tree)
  BY <1>1, <1>4 DEF Tracks
<1>6. Tracks(tree) \in TrackLists
  BY <1>1 DEF IsDatabase, TrackLists
<1> HIDE DEF d
<1>7. d = [index |-> d.index, child |-> d.child] /\ d.child \in Mhls
  BY <1>2 DEF Mhsds
<1>8. d.child = [tag |-> d.child.tag, children |-> d.child.children]
  BY <1>7 DEF Mhls
<1>9. d.index # 1 => d.child.children \in Seq(Mhyps)
  BY <1>3, <1>7 DEF Mhls, MHLT, MHLP
<1> QED BY <1>1, <1>3, <1>4, <1>5, <1>6, <1>7, <1>8, <1>9 DEF d

PreparedPlaylists(s, tracks) == [i \in DOMAIN s |-> prepare_mhyp(s[i], tracks)]
KeptPlaylists(s) == [i \in DOMAIN s |-> copy_mhyp(s[i])]
KeptTracks(s, v) == [i \in DOMAIN s |-> ReadTrack(s[i], v)]

\* Playlists that are prepared, or read back, are playlists.
LEMMA PlaylistsPrepared ==
    ASSUME NEW s \in Seq(Mhyps), NEW tracks \in Seq(Mhits)
    PROVE  PreparedPlaylists(s, tracks) \in Seq(Mhyps) /\ KeptPlaylists(s) \in Seq(Mhyps)
<1>1. ASSUME NEW i \in DOMAIN s PROVE prepare_mhyp(s[i], tracks) \in Mhyps
  <2>1. s[i] \in Mhyps
    OBVIOUS
  <2> QED BY <2>1, PlaylistPrepared
<1>2. ASSUME NEW i \in DOMAIN s PROVE copy_mhyp(s[i]) \in Mhyps
  <2>1. s[i] \in Mhyps
    OBVIOUS
  <2> QED BY <2>1, PlaylistCopied
<1>3. PreparedPlaylists(s, tracks) \in Seq(Mhyps)
  BY <1>1 DEF PreparedPlaylists
<1>4. KeptPlaylists(s) \in Seq(Mhyps)
  BY <1>2 DEF KeptPlaylists
<1> QED BY <1>3, <1>4

\* A track that is read back has its id and its mhods.
LEMMA TrackKept ==
    ASSUME NEW t, IsTrack(t), NEW v \in Int
    PROVE  /\ IsTrack(ReadTrack(t, v)) /\ ReadTrack(t, v).trackID = t.trackID
           /\ ReadTrack(t, v).mhods = t.mhods
           /\ ReadTrack(t, v).playCount = t.playCount
           /\ ReadTrack(t, v).playCount2 = t.playCount2
           /\ ReadTrack(t, v)
                 = IF v >= VERSION4_8 THEN t ELSE [t EXCEPT !.dbid2 = 0, !.sampleCount = 0]
<1>1. t \in Mhits
  BY DEF IsTrack
<1>2. /\ t.mhods \in Seq(Mhods) /\ t.dbid2 \in Int /\ t.sampleCount \in Int
      /\ t = [trackID |-> t.trackID, rating |-> t.rating, playCount |-> t.playCount,
              playCount2 |-> t.playCount2, addedTime |-> t.addedTime, dbid |-> t.dbid,
              dbid2 |-> t.dbid2, sampleCount |-> t.sampleCount, mhods |-> t.mhods]
  BY <1>1 DEF Mhits
<1>3. Copies(t.mhods) = t.mhods
  <2>1. \A k \in DOMAIN t.mhods : Copies(t.mhods)[k] = t.mhods[k]
    BY DEF IsTrack, Copies
  <2>2. Copies(t.mhods) = [k \in DOMAIN t.mhods |-> Copies(t.mhods)[k]]
        /\ t.mhods = [k \in DOMAIN t.mhods |-> t.mhods[k]]
    BY <1>2 DEF Copies
  <2> QED BY <2>1, <2>2
<1>4. ReadTrack(t, v) =
        [trackID |-> t.trackID, rating |-> t.rating, playCount |-> t.playCount,
         playCount2 |-> t.playCount2, addedTime |-> t.addedTime, dbid |-> t.dbid,
         dbid2 |-> IF v >= VERSION4_8 THEN t.dbid2 ELSE 0,
         sampleCount |-> IF v >= VERSION4_8 THEN t.sampleCount ELSE 0, mhods |-> t.mhods]
  BY <1>3 DEF ReadTrack
<1>5. ReadTrack(t, v) \in Mhits
  BY <1>1, <1>2, <1>4 DEF Mhits
<1>6. /\ ReadTrack(t, v).trackID = t.trackID /\ ReadTrack(t, v).mhods = t.mhods
      /\ ReadTrack(t, v).rating = t.rating /\ ReadTrack(t, v).playCount = t.playCount
      /\ ReadTrack(t, v).playCount2 = t.playCount2
  BY <1>4
<1>7. ReadTrack(t, v)
         = IF v >= VERSION4_8 THEN t ELSE [t EXCEPT !.dbid2 = 0, !.sampleCount = 0]
  <2>1. CASE v >= VERSION4_8
    BY <1>2, <1>4, <2>1
  <2>2. CASE ~(v >= VERSION4_8)
    <3> DEFINE u == [trackID |-> t.trackID, rating |-> t.rating, playCount |-> t.playCount,
                     playCount2 |-> t.playCount2, addedTime |-> t.addedTime, dbid |-> t.dbid,
                     dbid2 |-> 0, sampleCount |-> t.sampleCount, mhods |-> t.mhods]
    <3>1. [t EXCEPT !.dbid2 = 0] = u
      BY <1>2
    <3>2. [t EXCEPT !.dbid2 = 0, !.sampleCount = 0] = [[t EXCEPT !.dbid2 = 0] EXCEPT !.sampleCount = 0]
      OBVIOUS
    <3>3. [u EXCEPT !.sampleCount = 0] =
            [trackID |-> t.trackID, rating |-> t.rating, playCount |-> t.playCount,
             playCount2 |-> t.playCount2, addedTime |-> t.addedTime, dbid |-> t.dbid,
             dbid2 |-> 0, sampleCount |-> 0, mhods |-> t.mhods]
      OBVIOUS
    <3>4. ReadTrack(t, v) =
            [trackID |-> t.trackID, rating |-> t.rating, playCount |-> t.playCount,
             playCount2 |-> t.playCount2, addedTime |-> t.addedTime, dbid |-> t.dbid,
             dbid2 |-> 0, sampleCount |-> 0, mhods |-> t.mhods]
      BY <1>4, <2>2
    <3> HIDE DEF u
    <3> QED BY <2>2, <3>1, <3>2, <3>3, <3>4
  <2> QED BY <2>1, <2>2
<1> QED BY <1>5, <1>6, <1>7 DEF IsTrack

\* So do those of a list.
LEMMA TracksKept ==
    ASSUME NEW s \in TrackLists, NEW v \in Int
    PROVE  /\ KeptTracks(s, v) \in TrackLists /\ DOMAIN KeptTracks(s, v) = DOMAIN s
           /\ \A i \in DOMAIN s : KeptTracks(s, v)[i].mhods = s[i].mhods
<1> DEFINE new == KeptTracks(s, v)
<1>1. s \in Seq(Mhits) /\ DOMAIN s = 1..Len(s)
  BY DEF TrackLists
<1>2. new = [i \in DOMAIN s |-> ReadTrack(s[i], v)]
  BY DEF KeptTracks
<1> HIDE DEF new
<1>3. ASSUME NEW i \in DOMAIN s
      PROVE  IsTrack(new[i]) /\ new[i].trackID = s[i].trackID /\ new[i].mhods = s[i].mhods
  <2>1. IsTrack(s[i])
    BY <1>1, TrackListIs
  <2>2. new[i] = ReadTrack(s[i], v)
    BY <1>2
  <2> DEFINE t == s[i]
             r == ReadTrack(t, v)
  <2>3. IsTrack(t)
    BY <2>1
  <2> HIDE DEF t
  <2>4. IsTrack(r) /\ r.trackID = t.trackID /\ r.mhods = t.mhods
    BY <2>3, TrackKept
  <2> HIDE DEF r
  <2>5. new[i] = r
    BY <2>2 DEF r, t
  <2> QED BY <2>4, <2>5 DEF t
<1>4. \E g : new = [i \in DOMAIN s |-> g[i]]
  <2>1. new = [i \in DOMAIN s |-> new[i]]
    BY <1>2
  <2> QED BY <2>1
<1>5. new \in TrackLists
  BY <1>3, <1>4, TracksChanged
<1>6. DOMAIN new = DOMAIN s
  BY <1>2
<1> QED BY <1>3, <1>5, <1>6 DEF new

PreparedLists(tree, tracks) ==
    [i \in DOMAIN tree.children |->
        IF tree.children[i].index = 1 THEN PreparedTracks(tree.children[i].child.children)
        ELSE PreparedPlaylists(tree.children[i].child.children, tracks)]
KeptLists(tree) ==
    [i \in DOMAIN tree.children |->
        IF tree.children[i].index = 1 THEN KeptTracks(tree.children[i].child.children, tree.version)
        ELSE KeptPlaylists(tree.children[i].child.children)]

\* They fit where the lists were.
LEMMA ListsFit ==
    ASSUME NEW tree, IsDatabase(tree)
    PROVE  Fits(PreparedLists(tree, Tracks(tree)), tree) /\ Fits(KeptLists(tree), tree)
<1>1. tree.version \in Int /\ Tracks(tree) \in Seq(Mhits)
  BY Parts
<1> SUFFICES ASSUME NEW i \in DOMAIN tree.children
             PROVE  /\ PreparedLists(tree, Tracks(tree))[i] \in
                          IF tree.children[i].index = 1 THEN TrackLists ELSE Seq(Mhyps)
                    /\ KeptLists(tree)[i] \in
                          IF tree.children[i].index = 1 THEN TrackLists ELSE Seq(Mhyps)
  BY DEF Fits
<1> DEFINE s == tree.children[i].child.children
<1>2. s \in IF tree.children[i].index = 1 THEN TrackLists ELSE Seq(Mhyps)
  BY ListOf
<1>3. /\ PreparedLists(tree, Tracks(tree))[i]
            = IF tree.children[i].index = 1 THEN PreparedTracks(s)
              ELSE PreparedPlaylists(s, Tracks(tree))
      /\ KeptLists(tree)[i]
            = IF tree.children[i].index = 1 THEN KeptTracks(s, tree.version) ELSE KeptPlaylists(s)
  BY DEF PreparedLists, KeptLists
<1> HIDE DEF s
<1>4. CASE tree.children[i].index = 1
  <2>1. PreparedTracks(s) \in TrackLists
    BY <1>2, <1>4, TracksPrepared
  <2>2. KeptTracks(s, tree.version) \in TrackLists
    BY <1>1, <1>2, <1>4, TracksKept
  <2> QED BY <1>3, <1>4, <2>1, <2>2
<1>5. CASE tree.children[i].index # 1
  <2>1. PreparedPlaylists(s, Tracks(tree)) \in Seq(Mhyps) /\ KeptPlaylists(s) \in Seq(Mhyps)
    BY <1>1, <1>2, <1>5, PlaylistsPrepared
  <2> QED BY <1>3, <1>5, <2>1
<1> QED BY <1>4, <1>5

\* What is prepared is the copy of the tree with new podcasts.
LEMMA DatabasePrepared ==
    ASSUME NEW tree, IsDatabase(tree), NEW c, c = copy_playlists(tree)
    PROVE  /\ IsDatabase(c) /\ Tracks(c) = Tracks(tree)
           /\ prepare_mhbd(tree) = Replaced(c, PreparedLists(c, Tracks(c)))
           /\ IsDatabase(prepare_mhbd(tree))
           /\ HasLists(prepare_mhbd(tree), c, PreparedLists(c, Tracks(c)))
<1> DEFINE tracks == Tracks(tree)
           lists == PreparedLists(c, tracks)
           stores == [i \in DOMAIN c.children |-> prepare_mhsd(c.children[i], tracks)]
<1>1. IsDatabase(c) /\ Tracks(c) = tracks
  BY PodcastsCopied
<1>2. prepare_mhbd(tree) = [c EXCEPT !.children = stores]
  BY DEF prepare_mhbd
<1> HIDE DEF tracks
<1>3. ASSUME NEW i \in DOMAIN c.children
      PROVE  stores[i] = [index |-> c.children[i].index,
                          child |-> [tag |-> c.children[i].child.tag, children |-> lists[i]]]
  <2> DEFINE d == c.children[i]
             b == d.child
  <2>1. /\ d = [index |-> d.index, child |-> b] /\ b = [tag |-> b.tag, children |-> b.children]
        /\ b.tag = IF d.index = 1 THEN MHLT ELSE MHLP
    <3>1. /\ d = [index |-> d.index, child |-> [tag |-> b.tag, children |-> b.children]]
          /\ b.tag = IF d.index = 1 THEN MHLT ELSE MHLP
      BY <1>1, ListOf
    <3> HIDE DEF d
    <3>2. b = [tag |-> b.tag, children |-> b.children]
      BY <3>1
    <3> QED BY <3>1, <3>2
  <2>2. stores[i] = [d EXCEPT !.child = prepare_list(b, tracks)]
    BY DEF prepare_mhsd
  <2>3. lists[i] = IF d.index = 1 THEN PreparedTracks(b.children)
                   ELSE PreparedPlaylists(b.children, tracks)
    BY DEF PreparedLists
  <2> HIDE DEF stores, lists, b, d
  <2>4. stores[i] = [index |-> d.index, child |-> prepare_list(b, tracks)]
    BY <2>1, <2>2
  <2>5. prepare_list(b, tracks) = [b EXCEPT !.children = lists[i]]
    <3>1. CASE d.index = 1
      <4>1. b.tag = MHLT
        BY <2>1, <3>1
      <4> QED BY <2>3, <3>1, <4>1 DEF prepare_list, PreparedTracks
    <3>2. CASE d.index # 1
      <4>1. b.tag # MHLT
        BY <2>1, <3>2 DEF MHLT, MHLP
      <4> QED BY <2>3, <3>2, <4>1 DEF prepare_list, PreparedPlaylists
    <3> QED BY <3>1, <3>2
  <2>6. prepare_list(b, tracks) = [tag |-> b.tag, children |-> lists[i]]
    BY <2>1, <2>5
  <2> QED BY <2>4, <2>6 DEF b, d
<1>4. prepare_mhbd(tree) = Replaced(c, lists)
  <2>1. c = [version |-> c.version, children |-> c.children]
    BY <1>1, Parts
  <2>2. stores = [i \in DOMAIN c.children |->
                    [index |-> c.children[i].index,
                     child |-> [tag |-> c.children[i].child.tag, children |-> lists[i]]]]
    <3>1. stores = [i \in DOMAIN c.children |-> stores[i]]
      OBVIOUS
    <3> HIDE DEF stores, lists
    <3> QED BY <1>3, <3>1
  <2> HIDE DEF stores, lists
  <2>3. [c EXCEPT !.children = stores] = [version |-> c.version, children |-> stores]
    BY <2>1
  <2> QED BY <1>2, <2>2, <2>3 DEF Replaced
<1>5. Fits(lists, c)
  BY <1>1, ListsFit
<1> HIDE DEF lists
<1>6. IsDatabase(prepare_mhbd(tree)) /\ HasLists(prepare_mhbd(tree), c, lists)
  BY <1>1, <1>4, <1>5, ListsReplaced
<1>7. lists = PreparedLists(c, Tracks(c))
  BY <1>1 DEF lists
<1> QED BY <1>1, <1>4, <1>6, <1>7 DEF tracks

\* What is read back is the tree, but for what the file cannot keep.
LEMMA DatabaseKept ==
    ASSUME NEW tree, IsDatabase(tree)
    PROVE  /\ Kept(tree) = Replaced(tree, KeptLists(tree))
           /\ ReadDatabase(tree) = Replaced(tree, KeptLists(tree))
           /\ IsDatabase(Kept(tree)) /\ HasLists(Kept(tree), tree, KeptLists(tree))
<1> DEFINE v == tree.version
           KeptTrack(t) == IF v >= VERSION4_8 THEN t
                           ELSE [t EXCEPT !.dbid2 = 0, !.sampleCount = 0]
           KeptList(l) == [l EXCEPT !.children = [i \in DOMAIN l.children |->
                             IF l.tag = MHLT THEN KeptTrack(l.children[i])
                                             ELSE copy_mhyp(l.children[i])]]
           KeptStore(d) == [d EXCEPT !.child = KeptList(d.child)]
           lists == KeptLists(tree)
           New(i) == [index |-> tree.children[i].index,
                      child |-> [tag |-> tree.children[i].child.tag, children |-> lists[i]]]
<1>1. v \in Int /\ tree = [version |-> v, children |-> tree.children]
  BY Parts
<1>2. ASSUME NEW i \in DOMAIN tree.children
      PROVE  KeptStore(tree.children[i]) = New(i) /\ ReadStore(tree.children[i], v) = New(i)
  <2> DEFINE d == tree.children[i]
             b == d.child
             s == b.children
  <2>1. /\ d = [index |-> d.index, child |-> b] /\ b = [tag |-> b.tag, children |-> s]
        /\ b.tag = IF d.index = 1 THEN MHLT ELSE MHLP
        /\ s \in IF d.index = 1 THEN TrackLists ELSE Seq(Mhyps)
    <3>1. /\ d = [index |-> d.index, child |-> [tag |-> b.tag, children |-> s]]
          /\ b.tag = IF d.index = 1 THEN MHLT ELSE MHLP
          /\ s \in IF d.index = 1 THEN TrackLists ELSE Seq(Mhyps)
      BY ListOf
    <3> HIDE DEF d
    <3>2. b = [tag |-> b.tag, children |-> s]
      BY <3>1
    <3> QED BY <3>1, <3>2
  <2>2. lists[i] = IF d.index = 1 THEN KeptTracks(s, v) ELSE KeptPlaylists(s)
    BY DEF KeptLists
  <2>3. New(i) = [index |-> d.index, child |-> [tag |-> b.tag, children |-> lists[i]]]
    OBVIOUS
  <2> HIDE DEF New, lists, v, d
  <2>4. KeptList(b) = [tag |-> b.tag, children |-> lists[i]]
        /\ ReadList(b, v) = [tag |-> b.tag, children |-> lists[i]]
    <3>1. CASE d.index = 1
      <4>1. b.tag = MHLT /\ s \in TrackLists /\ lists[i] = [k \in DOMAIN s |-> ReadTrack(s[k], v)]
        BY <2>1, <2>2, <3>1 DEF KeptTracks
      <4>2. ASSUME NEW k \in DOMAIN s PROVE KeptTrack(s[k]) = ReadTrack(s[k], v)
        <5>1. s \in Seq(Mhits) /\ DOMAIN s = 1..Len(s)
          BY <4>1 DEF TrackLists
        <5>2. IsTrack(s[k])
          BY <4>1, <5>1, TrackListIs
        <5> DEFINE t == s[k]
        <5>3. IsTrack(t)
          BY <5>2
        <5> HIDE DEF t
        <5>4. ReadTrack(t, v)
                 = IF v >= VERSION4_8 THEN t ELSE [t EXCEPT !.dbid2 = 0, !.sampleCount = 0]
          BY <1>1, <5>3, TrackKept
        <5> QED BY <5>4 DEF t
      <4> HIDE DEF KeptTrack
      <4>3. [k \in DOMAIN s |-> KeptTrack(s[k])] = lists[i]
        BY <4>1, <4>2
      <4>4. KeptList(b) = [b EXCEPT !.children = lists[i]]
        BY <4>1, <4>3
      <4>5. ReadList(b, v) = [tag |-> b.tag, children |-> lists[i]]
        BY <4>1 DEF ReadList
      <4> HIDE DEF KeptList, s, b
      <4>6. [b EXCEPT !.children = lists[i]] = [tag |-> b.tag, children |-> lists[i]]
        BY <2>1
      <4> QED BY <4>4, <4>5, <4>6
    <3>2. CASE d.index # 1
      <4>1. b.tag # MHLT /\ lists[i] = [k \in DOMAIN s |-> copy_mhyp(s[k])]
        BY <2>1, <2>2, <3>2 DEF KeptPlaylists, MHLT, MHLP
      <4>2. KeptList(b) = [b EXCEPT !.children = lists[i]]
        BY <4>1
      <4>3. ReadList(b, v) = [tag |-> b.tag, children |-> lists[i]]
        BY <4>1 DEF ReadList
      <4> HIDE DEF KeptList, s, b
      <4>4. [b EXCEPT !.children = lists[i]] = [tag |-> b.tag, children |-> lists[i]]
        BY <2>1
      <4> QED BY <4>2, <4>3, <4>4
    <3> QED BY <3>1, <3>2
  <2>5. ReadStore(d, v) = New(i)
    BY <2>3, <2>4 DEF ReadStore
  <2>6. KeptStore(d) = New(i)
    <3>1. KeptStore(d) = [d EXCEPT !.child = KeptList(b)]
      OBVIOUS
    <3> HIDE DEF KeptStore, KeptList, s, b
    <3> QED BY <2>1, <2>3, <2>4, <3>1
  <2> QED BY <2>5, <2>6 DEF d
<1>3. Replaced(tree, lists) = [version |-> v, children |-> [i \in DOMAIN tree.children |-> New(i)]]
  BY DEF Replaced
<1>4. Kept(tree) = [tree EXCEPT !.children = [i \in DOMAIN tree.children |->
                                                 KeptStore(tree.children[i])]]
  BY DEF Kept
<1>5. ReadDatabase(tree)
         = [version |-> v, children |-> [i \in DOMAIN tree.children |->
                                            ReadStore(tree.children[i], v)]]
  BY DEF ReadDatabase
<1> HIDE DEF KeptStore, New, v, lists
<1>6. ReadDatabase(tree) = Replaced(tree, lists)
  BY <1>2, <1>3, <1>5
<1>7. Kept(tree) = Replaced(tree, lists)
  <2> DEFINE stores == [i \in DOMAIN tree.children |-> KeptStore(tree.children[i])]
  <2>1. stores = [i \in DOMAIN tree.children |-> New(i)]
    BY <1>2
  <2>2. Kept(tree) = [tree EXCEPT !.children = stores]
    BY <1>4
  <2> HIDE DEF stores
  <2>3. Kept(tree) = [version |-> v, children |-> stores]
    BY <1>1, <2>2
  <2> QED BY <1>3, <2>1, <2>3
<1>8. Fits(lists, tree)
  BY ListsFit DEF lists
<1>9. IsDatabase(Kept(tree)) /\ HasLists(Kept(tree), tree, lists)
  BY <1>7, <1>8, ListsReplaced
<1> QED BY <1>6, <1>7, <1>9 DEF lists

\* A new database is one; it has no track, and no playlist but a master.
LEMMA NewDatabase ==
    LET new == create_new_db(VERSION5_0)
    IN  /\ IsDatabase(new) /\ Tracks(new) = <<>>
        /\ Len(Playlists(new)) = 1 /\ Playlists(new)[1].hidden = 1
<1> DEFINE new == create_new_db(VERSION5_0)
           iPod == new_mhod_string(TITLE, <<105, 80, 111, 100>>)
           keys == <<3, 4, 5, 7, 18>>
           Indices == [i \in 1..5 |-> new_mhod_library_index(keys[i])]
           master == new_mhyp(1, 500, 1, <<iPod>> \o Indices)
           S1 == [index |-> 1, child |-> [tag |-> MHLT, children |-> <<>>]]
           S2 == [index |-> 2, child |-> [tag |-> MHLP, children |-> <<master>>]]
           S3 == [index |-> 3, child |-> [tag |-> MHLP, children |-> <<master>>]]
           stores == <<S1, S3, S2>>
<1>1. new = [version |-> VERSION5_0, children |-> <<S1>> \o <<S3, S2>>]
  <2>1. ~(VERSION5_0 < VERSION4_9)
    BY DEF VERSION5_0, VERSION4_9
  <2> QED BY <2>1 DEF create_new_db
<1>2. master \in Mhyps /\ master.hidden = 1
  <2>1. iPod \in Mhods
    BY DEF new_mhod_string, Mhods, TITLE, Kind, Strings, SMARTPLAYLIST_PREF, ENCLOSUREURL,
           RSSURL, CHAPTER, File
  <2>2. \A i \in 1..5 : keys[i] \in Int
    OBVIOUS
  <2>3. \A i \in 1..5 : new_mhod_library_index(keys[i]) \in Mhods
    <3> TAKE i \in 1..5
    <3> DEFINE k == keys[i]
    <3>1. k \in Int
      BY <2>2
    <3> HIDE DEF k
    <3>2. new_mhod_library_index(k) \in Mhods
      BY <3>1 DEF new_mhod_library_index, Mhods, Kind, File
    <3> QED BY <3>2 DEF k
  <2>4. Indices \in Seq(Mhods)
    BY <2>3
  <2> HIDE DEF iPod, Indices
  <2>5. <<iPod>> \in Seq(Mhods)
    BY <2>1
  <2>6. <<iPod>> \o Indices \in Seq(Mhods)
    BY <2>4, <2>5
  <2> QED BY <2>6 DEF new_mhyp, Mhyps
<1> HIDE DEF new, master
<1>3. S1 \in Mhsds /\ S2 \in Mhsds /\ S3 \in Mhsds
  <2>1. <<master>> \in Seq(Mhyps) /\ <<>> \in Seq(Mhits)
    BY <1>2
  <2>2. [tag |-> MHLT, children |-> <<>>] \in Mhls /\ [tag |-> MHLP, children |-> <<master>>] \in Mhls
    BY <2>1 DEF Mhls
  <2> QED BY <2>2 DEF Mhsds
<1>4. /\ S1.index = 1 /\ S2.index = 2 /\ S3.index = 3 /\ S1.child.children = <<>>
      /\ S2.child.children = <<master>>
      /\ S1.child.tag = MHLT /\ S2.child.tag = MHLP /\ S3.child.tag = MHLP
  OBVIOUS
<1> HIDE DEF S1, S2, S3
<1>5. /\ stores \in Seq(Mhsds) /\ Len(stores) = 3 /\ DOMAIN stores = 1..3
      /\ stores[1] = S1 /\ stores[2] = S3 /\ stores[3] = S2
  BY <1>3
<1>6. new \in Mhbds /\ new.children = stores
  <2> DEFINE a == <<S1>>
             b == <<S3, S2>>
  <2>1. /\ a \in Seq(Mhsds) /\ b \in Seq(Mhsds) /\ Len(a) = 1 /\ Len(b) = 2
        /\ a[1] = S1 /\ b[1] = S3 /\ b[2] = S2
    BY <1>3
  <2>2. new = [version |-> VERSION5_0, children |-> a \o b]
    BY <1>1
  <2> HIDE DEF a, b, stores
  <2> DEFINE c == a \o b
  <2>3. /\ c \in Seq(Mhsds) /\ Len(c) = Len(a) + Len(b)
        /\ \A k \in 1..Len(a) + Len(b) : c[k] = IF k <= Len(a) THEN a[k] ELSE b[k - Len(a)]
    BY <2>1, Joined
  <2> HIDE DEF c
  <2>4. c \in Seq(Mhsds) /\ Len(c) = 3
    BY <2>1, <2>3
  <2>5. c[1] = S1 /\ c[2] = S3 /\ c[3] = S2
    BY <2>1, <2>3
  <2>6. c = stores
    <3>1. \A i \in 1..3 : c[i] = stores[i]
      <4>1. \A i \in 1..3 : i = 1 \/ i = 2 \/ i = 3
        OBVIOUS
      <4> QED BY <1>5, <2>5, <4>1
    <3> QED BY <1>5, <2>4, <3>1
  <2>7. new = [version |-> VERSION5_0, children |-> stores]
    BY <2>2, <2>6 DEF c
  <2> QED BY <1>5, <2>7 DEF Mhbds, VERSION5_0
<1> HIDE DEF stores
<1>7. ASSUME NEW i \in 1..3 PROVE i = 1 \/ i = 2 \/ i = 3
  OBVIOUS
<1>8. StoreAt(new, 1) = 1 /\ StoreAt(new, 2) = 3
  <2>1. DOMAIN new.children = 1..3 /\ Len(new.children) = 3 /\ 3 \in Nat
    BY <1>5, <1>6
  <2>2. /\ StoreAt(new, 1) \in 0..3
        /\ StoreAt(new, 1) # 0 => new.children[StoreAt(new, 1)].index = 1
        /\ StoreAt(new, 1) = 0 => \A j \in 1..3 : new.children[j].index # 1
    BY <2>1, StoreAtIs
  <2>3. /\ StoreAt(new, 2) \in 0..3
        /\ StoreAt(new, 2) # 0 => new.children[StoreAt(new, 2)].index = 2
        /\ StoreAt(new, 2) = 0 => \A j \in 1..3 : new.children[j].index # 2
    BY <2>1, StoreAtIs
  <2>4. new.children[1].index = 1 /\ new.children[2].index = 3 /\ new.children[3].index = 2
    BY <1>4, <1>5, <1>6
  <2> QED BY <1>7, <2>2, <2>3, <2>4
<1>9. Tracks(new) = <<>>
  BY <1>4, <1>5, <1>6, <1>8 DEF Tracks
<1>10. IsTrackList(Tracks(new))
  BY <1>9 DEF IsTrackList
<1>11. \A i \in DOMAIN new.children :
          new.children[i].child.tag = IF new.children[i].index = 1 THEN MHLT ELSE MHLP
  BY <1>4, <1>5, <1>6, <1>7
<1>12. \A i, j \in DOMAIN new.children :
          new.children[i].index = new.children[j].index => i = j
  BY <1>4, <1>5, <1>6, <1>7
<1>13. StoreAt(new, 1) # 0
  BY <1>8
<1>14. IsDatabase(new)
  BY <1>6, <1>8, <1>10, <1>11, <1>12, <1>13 DEF IsDatabase
<1>15. Playlists(new) = <<master>>
  BY <1>4, <1>5, <1>6, <1>8 DEF Playlists
<1>16. Len(Playlists(new)) = 1 /\ Playlists(new)[1].hidden = 1
  BY <1>2, <1>15
<1> QED BY <1>9, <1>14, <1>16 DEF new

-----------------------------------------------------------------------------
(* What a flush leaves in the tree                                         *)

\* The lists of a database that was prepared.
LEMMA FlushedLists ==
    ASSUME NEW tree, IsDatabase(tree), NEW new, new = prepare_mhbd(tree)
    PROVE  /\ IsDatabase(new) /\ new.version = tree.version
           /\ Tracks(new) = PreparedTracks(Tracks(tree))
           /\ Playlists(new) = PreparedPlaylists(Playlists(tree), Tracks(tree))
           /\ StoreAt(new, 3) # 0 =>
                 /\ StoreAt(new, 3) \in DOMAIN new.children
                 /\ new.children[StoreAt(new, 3)].index = 3
                 /\ new.children[StoreAt(new, 3)].child.children
                       = PreparedPlaylists(KeptPlaylists(Playlists(tree)), Tracks(tree))
<1> DEFINE c == copy_playlists(tree)
           lists == PreparedLists(c, Tracks(c))
           q == StoreAt(new, 3)
<1>1. PICK n \in Nat, t, p \in Nat :
         /\ n = Len(tree.children) /\ DOMAIN tree.children = 1..n
         /\ tree.children \in Seq(Mhsds)
         /\ t = StoreAt(tree, 1) /\ p = StoreAt(tree, 2) /\ t \in 1..n /\ p \in 1..n
         /\ tree.children[t].index = 1 /\ tree.children[p].index = 2
  BY Parts
<1>2. /\ IsDatabase(c) /\ Tracks(c) = Tracks(tree) /\ Len(c.children) = n
      /\ c.version = tree.version
      /\ \A index : StoreAt(c, index) = StoreAt(tree, index)
      /\ \A i \in DOMAIN tree.children :
            /\ c.children[i].index = tree.children[i].index
            /\ i # StoreAt(tree, 3) => c.children[i] = tree.children[i]
      /\ StoreAt(tree, 3) # 0 =>
            c.children[StoreAt(tree, 3)].child.children = KeptPlaylists(Playlists(tree))
  BY <1>1, PodcastsCopied DEF KeptPlaylists
<1>3. IsDatabase(new) /\ HasLists(new, c, lists)
  BY DatabasePrepared
<1>4. DOMAIN c.children = 1..n
  BY <1>1, <1>2, Parts
<1>5. StoreAt(tree, 3) \in 0..n
      /\ (StoreAt(tree, 3) # 0 => tree.children[StoreAt(tree, 3)].index = 3)
  BY <1>1, StoreAtIs
<1>6. q = StoreAt(tree, 3)
  BY <1>2, <1>3 DEF HasLists
<1>7. c.children[t].index = 1 /\ c.children[p].index = 2
  BY <1>1, <1>2
<1>8. c.children[p] = tree.children[p]
  <2>1. p # StoreAt(tree, 3)
    BY <1>1, <1>5
  <2> QED BY <1>1, <1>2, <2>1
<1>9. \A i \in 1..n :
        lists[i] = IF c.children[i].index = 1 THEN PreparedTracks(c.children[i].child.children)
                   ELSE PreparedPlaylists(c.children[i].child.children, Tracks(tree))
  BY <1>2, <1>4 DEF PreparedLists
<1> HIDE DEF c, lists
<1>10. Tracks(new) = PreparedTracks(Tracks(tree))
  <2>1. Tracks(new) = lists[t]
    BY <1>1, <1>2, <1>3 DEF HasLists
  <2>2. c.children[t].child.children = Tracks(tree)
    BY <1>1, <1>2 DEF Tracks
  <2> QED BY <1>1, <1>7, <1>9, <2>1, <2>2
<1>11. Playlists(new) = PreparedPlaylists(Playlists(tree), Tracks(tree))
  <2>1. Playlists(new) = lists[p]
    BY <1>1, <1>2, <1>3 DEF HasLists
  <2>2. c.children[p].child.children = Playlists(tree)
    BY <1>1, <1>8 DEF Playlists
  <2>3. c.children[p].index # 1
    BY <1>7
  <2> QED BY <1>1, <1>9, <2>1, <2>2, <2>3
<1>12. ASSUME q # 0
       PROVE  /\ q \in DOMAIN new.children /\ new.children[q].index = 3
              /\ new.children[q].child.children
                    = PreparedPlaylists(KeptPlaylists(Playlists(tree)), Tracks(tree))
  <2>1. q \in 1..n /\ tree.children[q].index = 3
    BY <1>1, <1>5, <1>6, <1>12
  <2>2. c.children[q].index = 3 /\ c.children[q].child.children = KeptPlaylists(Playlists(tree))
    BY <1>1, <1>2, <1>6, <1>12, <2>1
  <2>3. lists[q] = PreparedPlaylists(KeptPlaylists(Playlists(tree)), Tracks(tree))
    BY <1>9, <2>1, <2>2
  <2> QED BY <1>3, <1>4, <2>1, <2>2, <2>3 DEF HasLists
<1>13. new.version = tree.version
  BY <1>2, <1>3 DEF HasLists
<1> QED BY <1>3, <1>10, <1>11, <1>12, <1>13

\* A tree that is prepared and read back: the counts of a track agree, its
\* library indices are in order, and the podcasts are the playlists.
LEMMA DerivedPrepared ==
    ASSUME NEW tree, IsDatabase(tree), NEW new, new = prepare_mhbd(tree)
    PROVE  /\ \A i \in DOMAIN Tracks(new) : Tracks(new)[i].playCount2 = Tracks(new)[i].playCount
           /\ \A i \in DOMAIN Playlists(new) : \A k \in DOMAIN Playlists(new)[i].mhods :
                 Playlists(new)[i].mhods[k].type = LIBRARYPLAYLIST_INDEX =>
                    InOrderUpTo(Playlists(new)[i].mhods[k].cells, Len(Tracks(new)),
                                Keys(Tracks(new), Playlists(new)[i].mhods[k].sort))
           /\ StoreAt(new, 3) # 0 =>
                 Kept(new).children[StoreAt(new, 3)].child
                   = Kept(new).children[StoreAt(new, 2)].child
<1> DEFINE s == Tracks(tree)
           tracks == Tracks(new)
           lists == Playlists(tree)
<1>1. s \in TrackLists /\ s \in Seq(Mhits) /\ lists \in Seq(Mhyps)
  BY Parts DEF IsDatabase, TrackLists
<1>2. /\ IsDatabase(new) /\ tracks = PreparedTracks(s)
      /\ Playlists(new) = PreparedPlaylists(lists, s)
      /\ StoreAt(new, 3) # 0 =>
            /\ StoreAt(new, 3) \in DOMAIN new.children
            /\ new.children[StoreAt(new, 3)].index = 3
            /\ new.children[StoreAt(new, 3)].child.children = PreparedPlaylists(KeptPlaylists(lists), s)
  BY FlushedLists
<1> HIDE DEF s, tracks, lists
<1>3. /\ DOMAIN tracks = DOMAIN s /\ Len(tracks) = Len(s)
      /\ \A i \in DOMAIN s : tracks[i].mhods = s[i].mhods
      /\ \A i \in DOMAIN tracks : tracks[i].playCount2 = tracks[i].playCount
  BY <1>1, <1>2, TracksPrepared
<1>4. \A sort : Keys(tracks, sort) = Keys(s, sort)
  <2> TAKE sort
  <2>1. \A i \in 0..Len(s) - 1 : SortKey(tracks[i + 1], sort) = SortKey(s[i + 1], sort)
    <3> TAKE i \in 0..Len(s) - 1
    <3>1. i + 1 \in DOMAIN s
      BY <1>1
    <3>2. tracks[i + 1].mhods = s[i + 1].mhods
      BY <1>3, <3>1
    <3> QED BY <3>2 DEF SortKey
  <2> QED BY <1>3, <2>1 DEF Keys
<1>5. ASSUME NEW i \in DOMAIN Playlists(new), NEW k \in DOMAIN Playlists(new)[i].mhods,
             Playlists(new)[i].mhods[k].type = LIBRARYPLAYLIST_INDEX
      PROVE  InOrderUpTo(Playlists(new)[i].mhods[k].cells, Len(tracks),
                         Keys(tracks, Playlists(new)[i].mhods[k].sort))
  <2> DEFINE a == lists[i]
             m == a.mhods[k]
             new_m == prepare_mhod(m, s)
  <2>1. i \in DOMAIN lists /\ Playlists(new)[i] = prepare_mhyp(a, s)
    BY <1>2 DEF PreparedPlaylists
  <2>2. a \in Mhyps
    BY <1>1, <2>1
  <2> HIDE DEF a
  <2>3. Playlists(new)[i].mhods = PreparedMhods(a.mhods, s) /\ a.mhods \in Seq(Mhods)
    BY <1>1, <2>1, <2>2, PlaylistPrepared DEF Mhyps
  <2>4. k \in DOMAIN a.mhods /\ Playlists(new)[i].mhods[k] = new_m
    BY <2>3 DEF PreparedMhods
  <2>5. m \in Mhods
    BY <2>3, <2>4
  <2> HIDE DEF m
  <2>6. new_m.type = m.type /\ (m.type = LIBRARYPLAYLIST_INDEX => new_m.cells = Sorted(s, new_m.sort))
    BY <1>1, <2>5, MhodPrepared
  <2> HIDE DEF new_m
  <2>7. new_m.cells = Sorted(s, new_m.sort)
    BY <1>5, <2>4, <2>6
  <2>8. InOrderUpTo(Sorted(s, new_m.sort), Len(s), Keys(s, new_m.sort))
    BY <1>1, SortedIs
  <2> QED BY <1>3, <1>4, <2>4, <2>7, <2>8
<1>6. ASSUME StoreAt(new, 3) # 0
      PROVE  Kept(new).children[StoreAt(new, 3)].child = Kept(new).children[StoreAt(new, 2)].child
  <2> DEFINE q == StoreAt(new, 3)
             p == StoreAt(new, 2)
             kept == KeptLists(new)
             Child(i) == [tag |-> new.children[i].child.tag, children |-> kept[i]]
  <2>1. Kept(new) = Replaced(new, kept)
    BY <1>2, DatabaseKept
  <2>2. p \in DOMAIN new.children /\ new.children[p].index = 2 /\ new.children[p].child.tag = MHLP
    BY <1>2, Parts
  <2>3. /\ q \in DOMAIN new.children /\ new.children[q].index = 3
        /\ new.children[q].child.children = PreparedPlaylists(KeptPlaylists(lists), s)
    BY <1>2, <1>6
  <2>4. new.children[q].child.tag = MHLP
    BY <1>2, <2>3 DEF IsDatabase
  <2>5. kept[p] = KeptPlaylists(PreparedPlaylists(lists, s))
    BY <1>2, <2>2 DEF KeptLists, Playlists
  <2>6. kept[q] = KeptPlaylists(PreparedPlaylists(KeptPlaylists(lists), s))
    BY <2>3 DEF KeptLists
  <2> HIDE DEF q, p, kept
  <2>7. KeptPlaylists(PreparedPlaylists(KeptPlaylists(lists), s)) = KeptPlaylists(PreparedPlaylists(lists, s))
    <3>1. ASSUME NEW i \in DOMAIN lists
          PROVE  copy_mhyp(prepare_mhyp(copy_mhyp(lists[i]), s)) = copy_mhyp(prepare_mhyp(lists[i], s))
      <4>1. lists[i] \in Mhyps
        BY <1>1
      <4> QED BY <1>1, <4>1, PlaylistCopied
    <3>2. KeptPlaylists(PreparedPlaylists(KeptPlaylists(lists), s))
            = [i \in DOMAIN lists |-> copy_mhyp(prepare_mhyp(copy_mhyp(lists[i]), s))]
      BY DEF KeptPlaylists, PreparedPlaylists
    <3>3. KeptPlaylists(PreparedPlaylists(lists, s))
            = [i \in DOMAIN lists |-> copy_mhyp(prepare_mhyp(lists[i], s))]
      BY DEF KeptPlaylists, PreparedPlaylists
    <3> QED BY <3>1, <3>2, <3>3
  <2>8. Replaced(new, kept).children[q].child = Child(q)
        /\ Replaced(new, kept).children[p].child = Child(p)
    BY <2>2, <2>3 DEF Replaced
  <2>9. Child(q) = Child(p)
    BY <2>2, <2>4, <2>5, <2>6, <2>7
  <2> QED BY <2>1, <2>8, <2>9 DEF q, p
<1> QED BY <1>3, <1>5, <1>6 DEF tracks

-----------------------------------------------------------------------------
(* The invariant                                                           *)

\* There is a database in a file.
HoldsDatabase(cells) ==
    cells # <<>> => read_mhbd(cells).ok /\ IsDatabase(read_mhbd(cells).atom)

\* The tree is a database while the iPod is open, the file always holds one, and
\* "disk" is what the file holds.
IInv ==
    /\ db_dirty \in BOOLEAN /\ eq_dirty \in BOOLEAN
    /\ root # NULL => IsDatabase(root)
    /\ HoldsDatabase(file) /\ disk = OnDisk(file)

\* What is written of a database is a file that holds one, and not its mutation.
LEMMA WrittenHolds ==
    ASSUME NEW tree, IsDatabase(tree)
    PROVE  /\ write_mhbd(tree) # <<>> /\ HoldsDatabase(write_mhbd(tree))
           /\ read_mhbd(write_mhbd(tree)).ok /\ read_mhbd(write_mhbd(tree)).atom = Kept(tree)
           /\ OnDisk(write_mhbd(tree)) = Kept(tree)
<1> DEFINE s == write_mhbd(tree)
<1>1. tree \in Mhbds
  BY DEF IsDatabase
<1>2. s \in File /\ Len(s) >= 1 /\ read_mhbd(s) = Good(ReadDatabase(tree), 1 + Len(s))
  BY <1>1, RoundTrip
<1> HIDE DEF s
<1>3. s # <<>>
  BY <1>2
<1>4. read_mhbd(s).ok /\ read_mhbd(s).atom = ReadDatabase(tree)
  BY <1>2 DEF Good, Got
<1>5. ReadDatabase(tree) = Kept(tree) /\ IsDatabase(Kept(tree))
  BY DatabaseKept
<1> QED BY <1>3, <1>4, <1>5 DEF s, HoldsDatabase, OnDisk

\* A client's track list is one with different ids.
LEMMA TracksListed ==
    ASSUME NEW tree, IsDatabase(tree)
    PROVE  Tracks(tree) \in TrackLists /\ Tracks(tree) \in Seq(Mhits) /\ Playlists(tree) \in Seq(Mhyps)
  BY Parts DEF IsDatabase, TrackLists

\* A change of the tracks leaves a database.
LEMMA TrackCalls ==
    ASSUME IInv, TrackNext
    PROVE  root # NULL /\ IsDatabase(root') /\ db_dirty' \in BOOLEAN /\ UNCHANGED <<file, sd, eq_dirty>>
<1>1. root # NULL
  BY DEF TrackNext, ipod_track_add
<1>2. IsDatabase(root)
  BY <1>1 DEF IInv
<1> DEFINE s == Tracks(root)
<1>3. s \in TrackLists /\ \A new \in TrackLists : IsDatabase(WithTracks(root, new))
  BY <1>2, TracksListed, TracksSet DEF TrackLists
<1>4. CASE ipod_track_add
  <2> DEFINE new == Append(s, NewTrack(s))
  <2>1. new \in TrackLists
    BY <1>3, TrackMade
  <2>2. root' = WithTracks(root, new)
    BY <1>4 DEF ipod_track_add, TrackIds, NewTrack
  <2> HIDE DEF new
  <2> QED BY <1>1, <1>3, <1>4, <2>1, <2>2 DEF ipod_track_add
<1>5. ASSUME NEW i \in DOMAIN s, ipod_track_remove(i)
      PROVE  IsDatabase(root') /\ db_dirty' \in BOOLEAN /\ UNCHANGED <<file, sd, eq_dirty>>
  <2>1. RemoveAt(s, i) \in TrackLists
    BY <1>3, TrackRemoved
  <2> QED BY <1>3, <1>5, <2>1 DEF ipod_track_remove
<1>6. ASSUME NEW i \in DOMAIN s, NEW tag \in {TITLE, RSSURL}, NEW text \in Texts,
             ipod_track_set_text(i, tag, text)
      PROVE  IsDatabase(root') /\ db_dirty' \in BOOLEAN /\ UNCHANGED <<file, sd, eq_dirty>>
  <2> DEFINE new == [s EXCEPT ![i].mhods = set_text(@, tag, text)]
  <2>1. text \in File
    BY InputAssumption
  <2>2. new \in TrackLists
    BY <1>3, <2>1, TrackTextSet
  <2>3. root' = WithTracks(root, new)
    BY <1>6 DEF ipod_track_set_text
  <2> HIDE DEF new
  <2> QED BY <1>3, <1>6, <2>2, <2>3 DEF ipod_track_set_text
<1>7. ASSUME NEW i \in DOMAIN s, NEW value \in Ratings, ipod_track_set_attribute(i, "rating", value)
      PROVE  IsDatabase(root') /\ db_dirty' \in BOOLEAN /\ UNCHANGED <<file, sd, eq_dirty>>
  <2> DEFINE new == [s EXCEPT ![i] = set_attribute(@, "rating", value)]
  <2>1. value \in Int
    BY InputAssumption
  <2>2. new \in TrackLists
    BY <1>3, <2>1, TrackRated
  <2>3. root' = WithTracks(root, new)
    BY <1>7 DEF ipod_track_set_attribute
  <2> HIDE DEF new
  <2> QED BY <1>3, <1>7, <2>2, <2>3 DEF ipod_track_set_attribute
<1>8. ASSUME NEW i \in DOMAIN s, NEW extension \in Extensions, ipod_track_upload(i, extension)
      PROVE  IsDatabase(root') /\ db_dirty' \in BOOLEAN /\ UNCHANGED <<file, sd, eq_dirty>>
  <2>1. CASE root' = root
    BY <1>2, <1>8, <2>1 DEF ipod_track_upload, IInv
  <2>2. CASE root' # root
    <3>1. PICK location \in unique_track_locations(extension) :
             root' = WithTracks(root, [s EXCEPT ![i].mhods = set_text(@, LOCATION, location)])
      BY <1>8, <2>2 DEF ipod_track_upload
    <3> DEFINE new == [s EXCEPT ![i].mhods = set_text(@, LOCATION, location)]
    <3>2. location \in File
      <4>1. PICK name \in Names : location = <<Colon, name, extension>>
        BY DEF unique_track_locations
      <4>2. Colon \in Int /\ name \in Int /\ extension \in Int
        BY InputAssumption DEF Colon
      <4> QED BY <4>1, <4>2 DEF File
    <3>3. new \in TrackLists
      BY <1>3, <3>2, TrackTextSet
    <3> HIDE DEF new
    <3> QED BY <1>3, <1>8, <3>1, <3>3 DEF ipod_track_upload, IInv, new
  <2> QED BY <2>1, <2>2
<1> HIDE DEF s
<1>9. \/ ipod_track_add
      \/ \E i \in DOMAIN s :
            \/ ipod_track_remove(i)
            \/ \E tag \in {TITLE, RSSURL}, text \in Texts : ipod_track_set_text(i, tag, text)
            \/ \E value \in Ratings : ipod_track_set_attribute(i, "rating", value)
            \/ \E extension \in Extensions : ipod_track_upload(i, extension)
  BY DEF TrackNext, s
<1> QED BY <1>1, <1>4, <1>5, <1>6, <1>7, <1>8, <1>9

\* So does a change of the playlists and their items.
LEMMA PlaylistCalls ==
    ASSUME IInv, PlaylistNext
    PROVE  root # NULL /\ IsDatabase(root') /\ db_dirty' \in BOOLEAN /\ UNCHANGED <<file, sd, eq_dirty>>
<1>1. root # NULL
  BY DEF PlaylistNext, ipod_playlist_add
<1>2. IsDatabase(root)
  BY <1>1 DEF IInv
<1> DEFINE s == Playlists(root)
           Fine == IsDatabase(root') /\ db_dirty' \in BOOLEAN /\ UNCHANGED <<file, sd, eq_dirty>>
<1>3. s \in Seq(Mhyps) /\ \A new \in Seq(Mhyps) : IsDatabase(WithPlaylists(root, new))
  BY <1>2, TracksListed, PlaylistsSet
<1>4. ASSUME ipod_playlist_add PROVE Fine
  <2> DEFINE new == Append(s, new_mhyp(0, unique_id(10, [i \in DOMAIN s |-> s[i].id]), 0, <<>>))
  <2>1. new \in Seq(Mhyps)
    BY <1>3, PlaylistMade
  <2>2. root' = WithPlaylists(root, new)
    BY <1>4 DEF ipod_playlist_add, ListIds
  <2> HIDE DEF new
  <2> QED BY <1>1, <1>3, <1>4, <2>1, <2>2 DEF ipod_playlist_add
<1>5. ASSUME NEW p \in DOMAIN s, ipod_playlist_remove(p) PROVE Fine
  <2>1. RemoveAt(s, p) \in Seq(Mhyps)
    <3>1. p \in 1..Len(s)
      BY <1>3
    <3> QED BY <1>3, <3>1, Removed
  <2> QED BY <1>3, <1>5, <2>1 DEF ipod_playlist_remove
<1>6. ASSUME NEW p \in DOMAIN s, NEW text \in Texts, ipod_playlist_set_text(p, text) PROVE Fine
  <2> DEFINE new == [s EXCEPT ![p].mhods = set_text(@, TITLE, text)]
  <2>1. text \in File
    BY InputAssumption
  <2>2. new \in Seq(Mhyps)
    BY <1>3, <2>1, PlaylistTextSet
  <2>3. root' = WithPlaylists(root, new)
    BY <1>6 DEF ipod_playlist_set_text
  <2> HIDE DEF new
  <2> QED BY <1>3, <1>6, <2>2, <2>3 DEF ipod_playlist_set_text
<1>7. ASSUME NEW p \in DOMAIN s, NEW value \in {0, 1}, ipod_playlist_set_attribute(p, "hidden", value)
      PROVE  Fine
  <2> DEFINE new == [s EXCEPT ![p] = set_list_attribute(@, "hidden", value)]
  <2>1. new \in Seq(Mhyps)
    BY <1>3, PlaylistHidden
  <2>2. root' = WithPlaylists(root, new)
    BY <1>7 DEF ipod_playlist_set_attribute
  <2> HIDE DEF new
  <2> QED BY <1>3, <1>7, <2>1, <2>2 DEF ipod_playlist_set_attribute
<1>8. ASSUME NEW p \in DOMAIN s, ipod_track_item_add(p) PROVE Fine
  <2> DEFINE new == [s EXCEPT ![p].mhips = Append(@, new_mhip(0))]
  <2>1. new \in Seq(Mhyps)
    BY <1>3, ItemMade
  <2>2. root' = WithPlaylists(root, new)
    BY <1>8 DEF ipod_track_item_add
  <2> HIDE DEF new
  <2> QED BY <1>3, <1>8, <2>1, <2>2 DEF ipod_track_item_add
<1>9. ASSUME NEW p \in DOMAIN s, NEW k \in DOMAIN s[p].mhips, ipod_track_item_remove(p, k) PROVE Fine
  <2> DEFINE new == [s EXCEPT ![p].mhips = RemoveAt(@, k)]
  <2>1. new \in Seq(Mhyps)
    BY <1>3, ItemRemoved
  <2>2. root' = WithPlaylists(root, new)
    BY <1>9 DEF ipod_track_item_remove
  <2> HIDE DEF new
  <2> QED BY <1>3, <1>9, <2>1, <2>2 DEF ipod_track_item_remove
<1>10. ASSUME NEW p \in DOMAIN s, NEW k \in DOMAIN s[p].mhips, NEW tag \in {"trackID", "groupID"},
              NEW value \in Int, ipod_track_item_set_attribute(p, k, tag, value)
       PROVE  Fine
  <2> DEFINE new == [s EXCEPT ![p].mhips[k] = set_item_attribute(@, tag, value)]
  <2>1. new \in Seq(Mhyps)
    BY <1>3, ItemSet
  <2>2. root' = WithPlaylists(root, new)
    BY <1>10 DEF ipod_track_item_set_attribute
  <2> HIDE DEF new
  <2> QED BY <1>3, <1>10, <2>1, <2>2 DEF ipod_track_item_set_attribute
<1>11. ToSet(TrackIds(root)) \subseteq Int /\ Ratings \subseteq Int
  <2>1. \A i \in DOMAIN Tracks(root) : Tracks(root)[i].trackID \in Int
    <3> TAKE i \in DOMAIN Tracks(root)
    <3>1. Tracks(root) \in Seq(Mhits)
      BY <1>2, TracksListed
    <3>2. Tracks(root)[i] \in Mhits
      BY <3>1
    <3> QED BY <3>2 DEF Mhits
  <2> QED BY <2>1, InputAssumption DEF TrackIds, ToSet
<1> HIDE DEF s, Fine
<1>12. \/ ipod_playlist_add
       \/ \E p \in DOMAIN s :
             \/ ipod_playlist_remove(p)
             \/ \E text \in Texts : ipod_playlist_set_text(p, text)
             \/ \E value \in {0, 1} : ipod_playlist_set_attribute(p, "hidden", value)
             \/ ipod_track_item_add(p)
             \/ \E k \in DOMAIN s[p].mhips :
                   \/ ipod_track_item_remove(p, k)
                   \/ \E id \in ToSet(TrackIds(root)) : ipod_track_item_set_attribute(p, k, "trackID", id)
                   \/ \E value \in Ratings : ipod_track_item_set_attribute(p, k, "groupID", value)
  BY DEF PlaylistNext, s
<1>13. ASSUME NEW p \in DOMAIN s, NEW k \in DOMAIN s[p].mhips,
              \/ ipod_track_item_remove(p, k)
              \/ \E id \in ToSet(TrackIds(root)) : ipod_track_item_set_attribute(p, k, "trackID", id)
              \/ \E value \in Ratings : ipod_track_item_set_attribute(p, k, "groupID", value)
       PROVE  Fine
  <2>1. \A id \in ToSet(TrackIds(root)) : ipod_track_item_set_attribute(p, k, "trackID", id) => Fine
    BY <1>10, <1>11
  <2>2. \A value \in Ratings : ipod_track_item_set_attribute(p, k, "groupID", value) => Fine
    BY <1>10, <1>11
  <2> QED BY <1>9, <1>13, <2>1, <2>2
<1>14. Fine
  BY <1>4, <1>5, <1>6, <1>7, <1>8, <1>12, <1>13
<1> QED BY <1>1, <1>14 DEF Fine

\* A change of the presets leaves the tree and the files.
LEMMA PresetCalls ==
    ASSUME IInv, PresetNext
    PROVE  /\ db_dirty' \in BOOLEAN /\ eq_dirty' \in BOOLEAN /\ UNCHANGED <<root, file, sd>>
<1>1. CASE ipod_eq_preset_add
  BY <1>1 DEF ipod_eq_preset_add, IInv
<1>2. ASSUME NEW e \in DOMAIN eq, NEW text \in Texts, ipod_eq_preset_set_text(e, text)
      PROVE  db_dirty' \in BOOLEAN /\ eq_dirty' \in BOOLEAN /\ UNCHANGED <<root, file, sd>>
  BY <1>2 DEF ipod_eq_preset_set_text, IInv
<1>3. ASSUME NEW e \in DOMAIN eq, NEW value \in Ratings, ipod_eq_preset_set_attribute(e, value)
      PROVE  db_dirty' \in BOOLEAN /\ eq_dirty' \in BOOLEAN /\ UNCHANGED <<root, file, sd>>
  BY <1>3 DEF ipod_eq_preset_set_attribute, IInv
<1> QED BY <1>1, <1>2, <1>3 DEF PresetNext

\* What every step keeps, but for the file.
Stepped ==
    /\ db_dirty' \in BOOLEAN /\ eq_dirty' \in BOOLEAN
    /\ root' # NULL => IsDatabase(root')

\* A flush prepares the tree and may write it.
LEMMA FlushStep ==
    ASSUME IInv, ipod_flush
    PROVE  /\ Stepped /\ IsDatabase(root) /\ IsDatabase(root') /\ root' = prepare_mhbd(root)
           /\ file' = IF db_dirty THEN write_mhbd(root') ELSE file
<1>1. IsDatabase(root) /\ root' = prepare_mhbd(root)
  BY DEF ipod_flush, IInv
<1>2. IsDatabase(root')
  BY <1>1, FlushedLists
<1> QED BY <1>1, <1>2 DEF ipod_flush, Stepped, IInv

\* No other step writes.
LEMMA OtherSteps ==
    ASSUME IInv, [Next]_vars
    PROVE  ipod_flush \/ (Stepped /\ UNCHANGED <<file, sd>>)
<1>1. CASE ipod_new
  <2>1. CASE file = <<>>
    BY <1>1, <2>1, NewDatabase DEF ipod_new, Stepped
  <2>2. CASE file # <<>>
    BY <1>1, <2>2 DEF ipod_new, Stepped, IInv, HoldsDatabase
  <2> QED BY <1>1, <2>1, <2>2 DEF ipod_new
<1>2. CASE ipod_free
  BY <1>2 DEF ipod_free, Stepped
<1>3. CASE TrackNext
  BY <1>3, TrackCalls DEF Stepped, IInv
<1>4. CASE PlaylistNext
  BY <1>4, PlaylistCalls DEF Stepped, IInv
<1>5. CASE PresetNext
  BY <1>5, PresetCalls DEF Stepped, IInv
<1>6. CASE UNCHANGED vars
  BY <1>6 DEF Stepped, IInv, vars
<1>7. Next => ipod_new \/ ipod_flush \/ ipod_free \/ TrackNext \/ PlaylistNext \/ PresetNext
  BY DEF Next
<1> QED BY <1>1, <1>2, <1>3, <1>4, <1>5, <1>6, <1>7

\* The paths in the shuffle's file are those of the tracks.
LEMMA ShufflePaths ==
    ASSUME NEW tree
    PROVE  [i \in DOMAIN write_shuffle_db(tree) |-> write_shuffle_db(tree)[i].path]
              = [i \in DOMAIN Tracks(tree) |-> FullPath(Tracks(tree)[i])]
  BY DEF write_shuffle_db

\* The iPod starts in the invariant.
LEMMA InitInv ==
    ASSUME Init
    PROVE  IInv /\ ShuffleFollows
<1>1. root = NULL /\ db_dirty = FALSE /\ eq_dirty = FALSE /\ disk = OnDisk(file)
  BY DEF Init
<1>2. CASE file = <<>> /\ sd \in {NULL, <<>>}
  <2>1. HoldsDatabase(file)
    BY <1>2 DEF HoldsDatabase
  <2>2. sd # NULL => [i \in DOMAIN sd |-> sd[i].path] = <<>>
    <3>1. [i \in DOMAIN <<>> |-> <<>>[i].path] = <<>>
      OBVIOUS
    <3> QED BY <1>2, <3>1
  <2> QED BY <1>1, <1>2, <2>1, <2>2 DEF IInv, ShuffleFollows
<1>3. CASE itunes \in ForeignTrees /\ file = ForeignFile(itunes) /\ sd \in {NULL, write_shuffle_db(itunes)}
  <2>1. /\ IsDatabase(itunes) /\ file # <<>> /\ read_mhbd(file).ok /\ read_mhbd(file).atom = itunes
    BY <1>3, ForeignAssumption
  <2>2. disk = itunes
    BY <1>1, <2>1 DEF OnDisk
  <2>3. HoldsDatabase(file)
    BY <2>1 DEF HoldsDatabase
  <2>4. sd # NULL => [i \in DOMAIN sd |-> sd[i].path]
                        = [i \in DOMAIN Tracks(itunes) |-> FullPath(Tracks(itunes)[i])]
    BY <1>3, ShufflePaths
  <2> QED BY <1>1, <2>1, <2>2, <2>3, <2>4 DEF IInv, ShuffleFollows
<1> QED BY <1>2, <1>3 DEF Init

\* Every step keeps the invariant.
LEMMA StepInv ==
    ASSUME IInv, [Next]_vars
    PROVE  IInv'
<1>1. disk' = OnDisk(file')
  <2>1. CASE Next
    BY <2>1 DEF Next, IInv
  <2>2. CASE UNCHANGED vars
    BY <2>2 DEF vars, IInv
  <2> QED BY <2>1, <2>2
<1>2. CASE ipod_flush
  <2>1. /\ Stepped /\ IsDatabase(root') /\ file' = IF db_dirty THEN write_mhbd(root') ELSE file
    BY <1>2, FlushStep
  <2>2. HoldsDatabase(write_mhbd(root'))
    BY <2>1, WrittenHolds
  <2>3. HoldsDatabase(file')
    BY <2>1, <2>2 DEF IInv
  <2> QED BY <1>1, <2>1, <2>3 DEF IInv, Stepped
<1>3. CASE Stepped /\ UNCHANGED <<file, sd>>
  BY <1>1, <1>3 DEF IInv, Stepped
<1> QED BY <1>2, <1>3, OtherSteps

\* The two files are written together.
LEMMA StepShuffle ==
    ASSUME IInv, ShuffleFollows, [Next]_vars
    PROVE  ShuffleFollows'
<1>1. IInv'
  BY StepInv
<1>2. CASE ipod_flush /\ db_dirty
  <2>1. /\ IsDatabase(root') /\ file' = write_mhbd(root')
        /\ sd' = IF sd # NULL THEN write_shuffle_db(root') ELSE sd
    <3>1. sd' = IF db_dirty /\ sd # NULL THEN write_shuffle_db(root') ELSE sd
      BY <1>2 DEF ipod_flush
    <3> QED BY <1>2, <3>1, FlushStep
  <2>2. file' # <<>> /\ disk' = Kept(root')
    BY <1>1, <2>1, WrittenHolds DEF IInv
  <2> DEFINE s == Tracks(root')
             v == root'.version
  <2>3. Tracks(Kept(root')) = KeptTracks(s, v)
    <3>1. /\ HasLists(Kept(root'), root', KeptLists(root'))
          /\ StoreAt(root', 1) \in DOMAIN root'.children
          /\ root'.children[StoreAt(root', 1)].index = 1
      BY <2>1, DatabaseKept, Parts
    <3> QED BY <3>1 DEF HasLists, KeptLists, Tracks
  <2>4. s \in TrackLists /\ v \in Int
    BY <2>1, TracksListed, Parts
  <2> HIDE DEF s, v
  <2>5. /\ DOMAIN KeptTracks(s, v) = DOMAIN s
        /\ \A i \in DOMAIN s : KeptTracks(s, v)[i].mhods = s[i].mhods
    BY <2>4, TracksKept
  <2>6. \A i \in DOMAIN s : FullPath(KeptTracks(s, v)[i]) = FullPath(s[i])
    BY <2>5 DEF FullPath
  <2>7. [i \in DOMAIN KeptTracks(s, v) |-> FullPath(KeptTracks(s, v)[i])]
           = [i \in DOMAIN s |-> FullPath(s[i])]
    BY <2>5, <2>6
  <2>8. sd # NULL => [i \in DOMAIN sd' |-> sd'[i].path] = [i \in DOMAIN s |-> FullPath(s[i])]
    BY <2>1, ShufflePaths DEF s
  <2>9. sd = NULL => sd' = NULL
    BY <2>1
  <2> QED BY <2>2, <2>3, <2>7, <2>8, <2>9 DEF ShuffleFollows
<1>3. CASE file' = file /\ sd' = sd
  <2>1. disk' = disk
    BY <1>1, <1>3 DEF IInv
  <2> QED BY <1>3, <2>1 DEF ShuffleFollows
<1>4. CASE ipod_flush /\ ~db_dirty
  BY <1>3, <1>4 DEF ipod_flush
<1> QED BY <1>2, <1>3, <1>4, OtherSteps

-----------------------------------------------------------------------------
(* The properties                                                          *)

\* The tree that is written is a prepared one.
LEMMA Written ==
    ASSUME IInv, [Next]_vars, file' # file
    PROVE  /\ IsDatabase(root) /\ root' = prepare_mhbd(root)
           /\ IsDatabase(root') /\ file' = write_mhbd(root')
<1>1. ipod_flush
  BY OtherSteps
<1> QED BY <1>1, FlushStep

\* In a prepared tree the derived data agree.
LEMMA PreparedAgrees ==
    ASSUME NEW tree, IsDatabase(tree), NEW new, new = prepare_mhbd(tree)
    PROVE  Agrees(new)
<1> DEFINE tracks == Tracks(new)
           lists == Playlists(new)
<1>1. /\ \A i \in DOMAIN tracks : tracks[i].playCount2 = tracks[i].playCount
      /\ \A i \in DOMAIN lists : \A k \in DOMAIN lists[i].mhods :
            lists[i].mhods[k].type = LIBRARYPLAYLIST_INDEX =>
               InOrderUpTo(lists[i].mhods[k].cells, Len(tracks),
                           Keys(tracks, lists[i].mhods[k].sort))
      /\ StoreAt(new, 3) # 0 =>
            Kept(new).children[StoreAt(new, 3)].child = Kept(new).children[StoreAt(new, 2)].child
  BY DerivedPrepared
<1>2. tracks \in Seq(Mhits)
  BY FlushedLists, TracksListed
<1> HIDE DEF tracks, lists
<1>3. ASSUME NEW m, InOrderUpTo(m.cells, Len(tracks), Keys(tracks, m.sort))
      PROVE  /\ Len(m.cells) = Len(tracks) /\ ToSet(m.cells) = {i - 1 : i \in DOMAIN tracks}
             /\ \A i, j \in DOMAIN m.cells : i < j =>
                   compare_utf16(SortKey(tracks[m.cells[i] + 1], m.sort),
                                 SortKey(tracks[m.cells[j] + 1], m.sort)) <= 0
  <2> DEFINE s == m.cells
             n == Len(tracks)
             key == Keys(tracks, m.sort)
  <2>1. /\ s \in File /\ Len(s) = n /\ n \in Nat /\ DOMAIN tracks = 1..n
        /\ \A j \in 1..n : s[j] \in 0..n - 1
        /\ \A v \in 0..n - 1 : \E j \in 1..n : s[j] = v
        /\ \A i, j \in 1..n : i < j => NotAfter(key, s[i], s[j])
    <3>1. n \in Nat /\ DOMAIN tracks = 1..n
      BY <1>2
    <3>2. InOrderUpTo(s, n, key)
      BY <1>3
    <3> HIDE DEF s, n, key
    <3> QED BY <3>1, <3>2 DEF InOrderUpTo
  <2>2. DOMAIN s = 1..n
    BY <2>1 DEF File
  <2>3. ToSet(s) = {i - 1 : i \in DOMAIN tracks}
    <3>1. ToSet(s) = 0..n - 1
      <4>1. ToSet(s) = {s[j] : j \in 1..n}
        BY <2>2 DEF ToSet
      <4> HIDE DEF n, s
      <4> QED BY <2>1, <4>1
    <3>2. {i - 1 : i \in 1..n} = 0..n - 1
      <4> HIDE DEF n
      <4>1. ASSUME NEW v \in 0..n - 1 PROVE \E i \in 1..n : v = i - 1
        <5>1. v + 1 \in 1..n /\ v = (v + 1) - 1
          BY <2>1
        <5> QED BY <5>1
      <4>2. \A i \in 1..n : i - 1 \in 0..n - 1
        BY <2>1
      <4> QED BY <4>1, <4>2
    <3> QED BY <2>1, <3>1, <3>2
  <2>4. ASSUME NEW i \in 1..n, NEW j \in 1..n, i < j
        PROVE  compare_utf16(SortKey(tracks[s[i] + 1], m.sort), SortKey(tracks[s[j] + 1], m.sort)) <= 0
    <3>1. NotAfter(key, s[i], s[j])
      BY <2>1, <2>4
    <3>2. s[i] \in 0..n - 1 /\ s[j] \in 0..n - 1
      BY <2>1
    <3>3. key[s[i]] = SortKey(tracks[s[i] + 1], m.sort) /\ key[s[j]] = SortKey(tracks[s[j] + 1], m.sort)
      BY <3>2 DEF Keys
    <3> QED BY <3>1, <3>3 DEF NotAfter
  <2> QED BY <2>1, <2>2, <2>3, <2>4
<1>4. ASSUME NEW i \in DOMAIN lists, NEW k \in DOMAIN lists[i].mhods,
             lists[i].mhods[k].type = LIBRARYPLAYLIST_INDEX
      PROVE  LET m == lists[i].mhods[k]
             IN  /\ Len(m.cells) = Len(tracks) /\ ToSet(m.cells) = {j - 1 : j \in DOMAIN tracks}
                 /\ \A h, j \in DOMAIN m.cells : h < j =>
                       compare_utf16(SortKey(tracks[m.cells[h] + 1], m.sort),
                                     SortKey(tracks[m.cells[j] + 1], m.sort)) <= 0
  <2> DEFINE m == lists[i].mhods[k]
  <2>1. InOrderUpTo(m.cells, Len(tracks), Keys(tracks, m.sort))
    BY <1>1, <1>4
  <2> HIDE DEF m
  <2>2. /\ Len(m.cells) = Len(tracks) /\ ToSet(m.cells) = {j - 1 : j \in DOMAIN tracks}
        /\ \A h, j \in DOMAIN m.cells : h < j =>
              compare_utf16(SortKey(tracks[m.cells[h] + 1], m.sort),
                            SortKey(tracks[m.cells[j] + 1], m.sort)) <= 0
    BY <1>3, <2>1
  <2> QED BY <2>2 DEF m
<1> QED BY <1>1, <1>4 DEF Agrees, tracks, lists

\* The invariant, and the shuffle's file with it.
THEOREM Invariance ==
    Spec => [](IInv /\ ShuffleFollows)
<1>1. Init => IInv /\ ShuffleFollows
  BY InitInv
<1>2. IInv /\ ShuffleFollows /\ [Next]_vars => (IInv /\ ShuffleFollows)'
  BY StepInv, StepShuffle
<1> QED BY <1>1, <1>2, PTL DEF Spec

\* Through all calls of ipod.h the tree is a database, and so is what the file
\* holds: its stores are found, its data are of their types, and no two tracks
\* ever have the same id, though ids are given by a search of the list and tracks
\* are removed and added again (ipod.c:220-236).
THEOREM TypeCorrect ==
    Spec => []TypeOK
<1>1. IInv => TypeOK
  <2>1. IInv /\ disk # NULL => IsDatabase(disk)
    BY DEF IInv, HoldsDatabase, OnDisk
  <2> QED BY <2>1 DEF IInv, TypeOK
<1> QED BY <1>1, Invariance, PTL

\* The shuffle plays what the database lists, in the same order, through all
\* calls (ipod.c:157-175).
THEOREM ShuffleCorrect ==
    Spec => []ShuffleFollows
  BY Invariance, PTL

\* What is written is what is read, whatever the client did before
\* (ipod_atom_*.c: the write and the read of each atom, written apart).
THEOREM ReadBackCorrect ==
    Spec => ReadBack
<1>1. IInv /\ [Next]_vars =>
         [file' # file => read_mhbd(file').ok /\ read_mhbd(file').atom = Kept(root')]_vars
  BY Written, WrittenHolds
<1> QED BY <1>1, Invariance, PTL DEF Spec, ReadBack

\* Whatever the client did since the database was read, its library indices,
\* podcasts and repeated counts agree with its tracks and playlists when it is
\* written (ipod_atom_mhod.c:177-223, ipod_atom_mhbd.c:143-172,
\* ipod_atom_mhit.c:193).
THEOREM DerivedCorrect ==
    Spec => DerivedAgrees
<1>1. IInv /\ [Next]_vars => [file' # file => Agrees(root')]_vars
  BY Written, PreparedAgrees
<1> QED BY <1>1, Invariance, PTL DEF Spec, DerivedAgrees
-----------------------------------------------------------------------------
(* What is not understood                                                  *)

\* What no call touches of a list of mhods is the same when what differs is of
\* another kind.
LEMMA OpaqueSame ==
    ASSUME NEW ms \in Seq(Mhods), NEW ns \in Seq(Mhods), Len(ns) = Len(ms),
           \A k \in 1..Len(ms) :
              ns[k].type = ms[k].type /\ (Kind(ms[k].type) = "rest" => ns[k] = ms[k])
    PROVE  Opaque(ns) = Opaque(ms)
<1> DEFINE S == {m \in ToSet(ms) : Kind(m.type) = "rest"}
           T == {m \in ToSet(ns) : Kind(m.type) = "rest"}
<1>1. \A k \in 1..Len(ms) : (ms[k] \in S <=> ns[k] \in T) /\ (ms[k] \in S => ms[k] = ns[k])
  <2>1. DOMAIN ms = 1..Len(ms) /\ DOMAIN ns = 1..Len(ms)
    OBVIOUS
  <2> QED BY <2>1 DEF ToSet
<1> HIDE DEF S, T
<1>2. Only(ms, S) = Only(ns, T)
  BY <1>1, OnlySame
<1> QED BY <1>2 DEF Opaque, S, T

\* So it is when one of another kind is appended,
LEMMA OpaqueMore ==
    ASSUME NEW ms \in Seq(Mhods), NEW m \in Mhods, Kind(m.type) # "rest"
    PROVE  Opaque(Append(ms, m)) = Opaque(ms)
<1> DEFINE ns == Append(ms, m)
           n == Len(ms)
           S == {x \in ToSet(ns) : Kind(x.type) = "rest"}
           T == {x \in ToSet(ms) : Kind(x.type) = "rest"}
<1>1. /\ n \in Nat /\ ns \in Seq(Mhods) /\ Len(ns) = n + 1 /\ DOMAIN ms = 1..n
      /\ DOMAIN ns = 1..n + 1 /\ ns[n + 1] = m /\ \A k \in 1..n : ns[k] = ms[k]
  OBVIOUS
<1>2. ns[n + 1] \notin S /\ \A k \in 1..n : (ns[k] \in S <=> ms[k] \in T)
  BY <1>1 DEF ToSet
<1> HIDE DEF S, T, ns, n
<1>3. \A k \in 1..Len(ms) : LET l == IF k < n + 1 THEN k ELSE k + 1
                            IN  ms[k] = ns[l] /\ (ns[l] \in S <=> ms[k] \in T)
  <2> TAKE k \in 1..Len(ms)
  <2>1. k \in 1..n /\ k < n + 1
    BY <1>1 DEF n
  <2> QED BY <1>1, <1>2, <2>1
<1>4. n + 1 \in 1..Len(ns) /\ Len(ms) = Len(ns) - 1
  BY <1>1 DEF n
<1>5. Only(ns, S) = Only(ms, T)
  BY <1>1, <1>2, <1>3, <1>4, OnlyWithout
<1> QED BY <1>5 DEF Opaque, S, T, ns

\* and so when a text is set,
LEMMA OpaqueText ==
    ASSUME NEW ms \in Seq(Mhods), NEW type, NEW text \in File
    PROVE  Opaque(set_text(ms, type, text)) = Opaque(ms)
<1> DEFINE at == TextAt(ms, type)
           ns == set_text(ms, type, text)
           m == new_mhod_string(type, text)
<1>1. CASE type \notin TITLE..DESCRIPTION
  BY <1>1 DEF set_text
<1>2. CASE type \in TITLE..DESCRIPTION
  <2>1. type \in Int /\ type # 0 /\ Kind(type) = "string"
    BY <1>2 DEF TITLE, DESCRIPTION, Kind, Strings, SMARTPLAYLIST_PREF, ENCLOSUREURL, RSSURL,
                CHAPTER
  <2>2. CASE has_text(ms, type)
    <3>1. at \in DOMAIN ms /\ ms[at].type = type
      BY <2>2, TextAtIs DEF has_text
    <3>2. ns = [ms EXCEPT ![at].cells = text]
      BY <1>2, <2>2 DEF set_text
    <3>3. ns \in Seq(Mhods)
      BY TextSet
    <3> HIDE DEF at, ns
    <3>4. Len(ns) = Len(ms) /\ DOMAIN ms = 1..Len(ms)
      BY <3>2
    <3>5. \A k \in 1..Len(ms) :
             ns[k].type = ms[k].type /\ (Kind(ms[k].type) = "rest" => ns[k] = ms[k])
      <4> TAKE k \in 1..Len(ms)
      <4>1. CASE k # at
        BY <3>2, <3>4, <4>1
      <4>2. CASE k = at
        <5>1. ns[at] = [ms[at] EXCEPT !.cells = text] /\ ms[at] \in Mhods
          BY <3>1, <3>2
        <5>2. ns[at].type = ms[at].type
          BY <5>1 DEF Mhods
        <5> QED BY <2>1, <3>1, <4>2, <5>2
      <4> QED BY <4>1, <4>2
    <3> QED BY <3>3, <3>4, <3>5, OpaqueSame DEF ns
  <2>3. CASE ~has_text(ms, type)
    <3>1. ns = Append(ms, m)
      BY <1>2, <2>3 DEF set_text
    <3>2. m \in Mhods /\ Kind(m.type) # "rest"
      BY <2>1 DEF new_mhod_string, Mhods
    <3> HIDE DEF m
    <3> QED BY <3>1, <3>2, OpaqueMore
  <2> QED BY <2>2, <2>3
<1> QED BY <1>1, <1>2

\* when an index is made again, and when what has no type is copied.
LEMMA OpaqueFlushed ==
    ASSUME NEW ms \in Seq(Mhods), NEW tracks \in Seq(Mhits)
    PROVE  /\ Opaque(PreparedMhods(ms, tracks)) = Opaque(ms)
           /\ Opaque(Copies(ms)) = Opaque(ms)
<1>1. DOMAIN ms = 1..Len(ms) /\ Len(ms) \in Nat
  OBVIOUS
<1>2. Opaque(PreparedMhods(ms, tracks)) = Opaque(ms)
  <2> DEFINE ns == PreparedMhods(ms, tracks)
  <2>1. /\ DOMAIN ns = 1..Len(ms)
        /\ \A k \in 1..Len(ms) : ns[k] = prepare_mhod(ms[k], tracks)
    BY <1>1 DEF PreparedMhods
  <2>2. \A k \in 1..Len(ms) : ns[k] \in Mhods /\ ns[k].type = ms[k].type
                              /\ (Kind(ms[k].type) = "rest" => ns[k] = ms[k])
    <3> TAKE k \in 1..Len(ms)
    <3>1. ms[k] \in Mhods
      OBVIOUS
    <3>2. prepare_mhod(ms[k], tracks) \in Mhods /\ prepare_mhod(ms[k], tracks).type = ms[k].type
      BY <3>1, MhodPrepared
    <3>3. Kind(ms[k].type) = "rest" => prepare_mhod(ms[k], tracks) = ms[k]
      BY DEF prepare_mhod, Kind, LIBRARYPLAYLIST_INDEX, Strings
    <3> QED BY <2>1, <3>2, <3>3
  <2>3. ns = [k \in 1..Len(ms) |-> ns[k]]
    BY <1>1 DEF PreparedMhods
  <2> HIDE DEF ns
  <2>4. ns \in Seq(Mhods) /\ Len(ns) = Len(ms)
    BY <1>1, <2>2, <2>3
  <2>5. Opaque(ns) = Opaque(ms)
    BY <2>2, <2>4, OpaqueSame
  <2> QED BY <2>5 DEF ns
<1>3. Opaque(Copies(ms)) = Opaque(ms)
  <2> DEFINE ns == Copies(ms)
  <2>1. /\ DOMAIN ns = 1..Len(ms)
        /\ \A k \in 1..Len(ms) : ns[k] = copy_mhod(ms[k])
    BY <1>1 DEF Copies
  <2>2. \A k \in 1..Len(ms) : ns[k] \in Mhods /\ ns[k].type = ms[k].type
                              /\ (Kind(ms[k].type) = "rest" => ns[k] = ms[k])
    <3> TAKE k \in 1..Len(ms)
    <3>1. ms[k] \in Mhods
      OBVIOUS
    <3>2. copy_mhod(ms[k]) \in Mhods /\ copy_mhod(ms[k]).type = ms[k].type
      BY <3>1 DEF copy_mhod, Mhods, Kind
    <3>3. Kind(ms[k].type) = "rest" => copy_mhod(ms[k]) = ms[k]
      BY DEF copy_mhod, Kind
    <3> QED BY <2>1, <3>2, <3>3
  <2>3. ns = [k \in 1..Len(ms) |-> ns[k]]
    BY <1>1 DEF Copies
  <2> HIDE DEF ns
  <2>4. ns \in Seq(Mhods) /\ Len(ns) = Len(ms)
    BY <1>1, <2>2, <2>3
  <2>5. Opaque(ns) = Opaque(ms)
    BY <2>2, <2>4, OpaqueSame
  <2> QED BY <2>5 DEF ns
<1> QED BY <1>2, <1>3

\* The tracks that have the data of "old" if they are tracks of "old".
FaithfulTracks(old) ==
    {t \in Mhits : \A i \in DOMAIN Tracks(old) :
        t.trackID = Tracks(old)[i].trackID /\ t.addedTime = Tracks(old)[i].addedTime =>
            /\ Opaque(t.mhods) = Opaque(Tracks(old)[i].mhods)
            /\ t.sampleCount = Tracks(old)[i].sampleCount}

FaithfulPlaylists(old) ==
    {a \in Mhyps : \A i \in DOMAIN Playlists(old) :
        a.id = Playlists(old)[i].id /\ a.sortOrder = Playlists(old)[i].sortOrder =>
            Opaque(a.mhods) = Opaque(Playlists(old)[i].mhods)}

Faithful(tree, old) ==
    /\ tree.version = old.version
    /\ Tracks(tree) \in Seq(FaithfulTracks(old))
    /\ Playlists(tree) \in Seq(FaithfulPlaylists(old))

\* It is so of what iTunes left,
LEMMA ForeignIsFaithful ==
    ASSUME NEW old \in ForeignTrees
    PROVE  Faithful(old, old)
<1> DEFINE s == Tracks(old)
           l == Playlists(old)
<1>1. IsDatabase(old)
  BY ForeignAssumption
<1>2. s \in TrackLists /\ s \in Seq(Mhits) /\ l \in Seq(Mhyps)
  BY <1>1, TracksListed
<1>3. \A i, j \in DOMAIN s : s[i].trackID = s[j].trackID => i = j
  BY <1>2 DEF TrackLists, IsTrackList
<1>4. \A i, j \in DOMAIN l : l[i].id = l[j].id => i = j
  BY ForeignDataAssumption
<1>5. s \in Seq(FaithfulTracks(old))
  <2>1. \A i \in DOMAIN s : s[i] \in FaithfulTracks(old)
    BY <1>2, <1>3 DEF FaithfulTracks
  <2> HIDE DEF s
  <2> QED BY <1>2, <2>1
<1>6. l \in Seq(FaithfulPlaylists(old))
  <2>1. \A i \in DOMAIN l : l[i] \in FaithfulPlaylists(old)
    BY <1>2, <1>4 DEF FaithfulPlaylists
  <2> HIDE DEF l
  <2> QED BY <1>2, <2>1
<1> QED BY <1>5, <1>6 DEF Faithful

\* of a track or playlist that differs in other things,
LEMMA FaithfulSame ==
    ASSUME NEW old
    PROVE  /\ \A t \in FaithfulTracks(old), u \in Mhits :
                 /\ u.trackID = t.trackID /\ u.addedTime = t.addedTime
                 /\ Opaque(u.mhods) = Opaque(t.mhods) /\ u.sampleCount = t.sampleCount
                 => u \in FaithfulTracks(old)
           /\ \A a \in FaithfulPlaylists(old), b \in Mhyps :
                 b.id = a.id /\ b.sortOrder = a.sortOrder /\ Opaque(b.mhods) = Opaque(a.mhods)
                 => b \in FaithfulPlaylists(old)
  BY DEF FaithfulTracks, FaithfulPlaylists

\* and of a new one.
LEMMA NewIsFaithful ==
    ASSUME NEW old \in ForeignTrees
    PROVE  /\ \A t \in Mhits : t.addedTime = MAC_EPOCH_OFFSET + 1 => t \in FaithfulTracks(old)
           /\ \A a \in Mhyps : a.sortOrder = 0 => a \in FaithfulPlaylists(old)
<1>1. /\ \A i \in DOMAIN Tracks(old) : Tracks(old)[i].addedTime # MAC_EPOCH_OFFSET + 1
      /\ \A i \in DOMAIN Playlists(old) : Playlists(old)[i].sortOrder # 0
  BY ForeignDataAssumption
<1> QED BY <1>1 DEF FaithfulTracks, FaithfulPlaylists

\* What calls and a flush do to one track,
LEMMA TrackStaysFaithful ==
    ASSUME NEW old, NEW t \in FaithfulTracks(old)
    PROVE  /\ \A type : \A text \in File :
                 [t EXCEPT !.mhods = set_text(@, type, text)] \in FaithfulTracks(old)
           /\ \A value \in Int : set_attribute(t, "rating", value) \in FaithfulTracks(old)
           /\ prepare_mhit(t) \in FaithfulTracks(old)
<1>1. t \in Mhits
  BY DEF FaithfulTracks
<1>2. t.mhods \in Seq(Mhods)
  BY <1>1 DEF Mhits
<1>3. ASSUME NEW type, NEW text \in File
      PROVE  [t EXCEPT !.mhods = set_text(@, type, text)] \in FaithfulTracks(old)
  <2> DEFINE ms == set_text(t.mhods, type, text)
             u == [t EXCEPT !.mhods = ms]
  <2>1. ms \in Seq(Mhods)
    BY <1>2, TextSet
  <2>2. Opaque(ms) = Opaque(t.mhods)
    BY <1>2, OpaqueText
  <2> HIDE DEF ms
  <2>3. /\ u \in Mhits /\ u.trackID = t.trackID /\ u.addedTime = t.addedTime
        /\ u.mhods = ms /\ u.sampleCount = t.sampleCount
    BY <1>1, <2>1 DEF Mhits
  <2> HIDE DEF u
  <2>4. u \in FaithfulTracks(old)
    BY <2>2, <2>3, FaithfulSame
  <2> QED BY <2>4 DEF u, ms
<1>4. ASSUME NEW value \in Int PROVE set_attribute(t, "rating", value) \in FaithfulTracks(old)
  <2> DEFINE u == set_attribute(t, "rating", value)
  <2>1. value % 256 \in Int
    OBVIOUS
  <2>2. u = [t EXCEPT !.rating = value % 256]
    BY DEF set_attribute, Field, Stored
  <2>3. /\ u \in Mhits /\ u.trackID = t.trackID /\ u.addedTime = t.addedTime
        /\ u.mhods = t.mhods /\ u.sampleCount = t.sampleCount
    BY <1>1, <2>1, <2>2 DEF Mhits
  <2> HIDE DEF u
  <2>4. u \in FaithfulTracks(old)
    BY <2>3, FaithfulSame
  <2> QED BY <2>4 DEF u
<1>5. prepare_mhit(t) \in FaithfulTracks(old)
  <2> DEFINE u == prepare_mhit(t)
  <2>1. /\ u \in Mhits /\ u.trackID = t.trackID /\ u.addedTime = t.addedTime
        /\ u.mhods = t.mhods /\ u.sampleCount = t.sampleCount
    BY <1>1 DEF Mhits, prepare_mhit
  <2> HIDE DEF u
  <2>2. u \in FaithfulTracks(old)
    BY <2>1, FaithfulSame
  <2> QED BY <2>2 DEF u
<1> QED BY <1>3, <1>4, <1>5

\* and the file to it: before 4.8 iTunes left nothing of what is not kept.
LEMMA KeptTrackFaithful ==
    ASSUME NEW old \in ForeignTrees, NEW t \in FaithfulTracks(old), IsTrack(t), NEW v \in Int,
           v = old.version
    PROVE  ReadTrack(t, v) \in FaithfulTracks(old)
<1> DEFINE u == ReadTrack(t, v)
<1>1. u \in Mhits /\ u.trackID = t.trackID /\ u.mhods = t.mhods
  BY TrackKept DEF IsTrack
<1>2. u.addedTime = t.addedTime /\ u.sampleCount = IF v >= VERSION4_8 THEN t.sampleCount ELSE 0
  BY DEF ReadTrack
<1>3. \A i \in DOMAIN Tracks(old) : v >= VERSION4_8 \/ Tracks(old)[i].sampleCount = 0
  <2>1. VERSION4_8 \in Int
    BY DEF VERSION4_8
  <2> QED BY <2>1, ForeignDataAssumption
<1> HIDE DEF u
<1>4. u \in FaithfulTracks(old)
  BY <1>1, <1>2, <1>3 DEF FaithfulTracks
<1> QED BY <1>4 DEF u

\* The same of a playlist.
LEMMA PlaylistStaysFaithful ==
    ASSUME NEW old, NEW a \in FaithfulPlaylists(old)
    PROVE  /\ \A text \in File :
                 [a EXCEPT !.mhods = set_text(@, TITLE, text)] \in FaithfulPlaylists(old)
           /\ \A mhips \in Seq(Mhips) : [a EXCEPT !.mhips = mhips] \in FaithfulPlaylists(old)
           /\ \A value \in Int : set_list_attribute(a, "hidden", value) \in FaithfulPlaylists(old)
           /\ \A tracks \in Seq(Mhits) : prepare_mhyp(a, tracks) \in FaithfulPlaylists(old)
           /\ copy_mhyp(a) \in FaithfulPlaylists(old)
<1>1. a \in Mhyps
  BY DEF FaithfulPlaylists
<1>2. a.mhods \in Seq(Mhods)
  BY <1>1 DEF Mhyps
<1>3. ASSUME NEW text \in File
      PROVE  [a EXCEPT !.mhods = set_text(@, TITLE, text)] \in FaithfulPlaylists(old)
  <2> DEFINE ms == set_text(a.mhods, TITLE, text)
             b == [a EXCEPT !.mhods = ms]
  <2>1. ms \in Seq(Mhods)
    BY <1>2, TextSet
  <2>2. Opaque(ms) = Opaque(a.mhods)
    BY <1>2, OpaqueText
  <2> HIDE DEF ms
  <2>3. b \in Mhyps /\ b.id = a.id /\ b.sortOrder = a.sortOrder /\ b.mhods = ms
    BY <1>1, <2>1 DEF Mhyps
  <2> HIDE DEF b
  <2>4. b \in FaithfulPlaylists(old)
    BY <2>2, <2>3, FaithfulSame
  <2> QED BY <2>4 DEF b, ms
<1>4. ASSUME NEW mhips \in Seq(Mhips) PROVE [a EXCEPT !.mhips = mhips] \in FaithfulPlaylists(old)
  <2> DEFINE b == [a EXCEPT !.mhips = mhips]
  <2>1. b \in Mhyps /\ b.id = a.id /\ b.sortOrder = a.sortOrder /\ b.mhods = a.mhods
    BY <1>1 DEF Mhyps
  <2> HIDE DEF b
  <2>2. b \in FaithfulPlaylists(old)
    BY <2>1, FaithfulSame
  <2> QED BY <2>2 DEF b
<1>5. ASSUME NEW value \in Int
      PROVE  set_list_attribute(a, "hidden", value) \in FaithfulPlaylists(old)
  <2> DEFINE b == set_list_attribute(a, "hidden", value)
  <2>1. b \in Mhyps /\ b.id = a.id /\ b.sortOrder = a.sortOrder /\ b.mhods = a.mhods
    BY <1>1 DEF Mhyps, set_list_attribute
  <2> HIDE DEF b
  <2>2. b \in FaithfulPlaylists(old)
    BY <2>1, FaithfulSame
  <2> QED BY <2>2 DEF b
<1>6. ASSUME NEW tracks \in Seq(Mhits) PROVE prepare_mhyp(a, tracks) \in FaithfulPlaylists(old)
  <2> DEFINE b == prepare_mhyp(a, tracks)
  <2>1. /\ b \in Mhyps
        /\ b = [hidden |-> a.hidden, id |-> a.id, sortOrder |-> a.sortOrder,
                mhods |-> PreparedMhods(a.mhods, tracks), mhips |-> PreparedItems(a, tracks)]
    BY <1>1, PlaylistPrepared
  <2>2. Opaque(PreparedMhods(a.mhods, tracks)) = Opaque(a.mhods)
    BY <1>2, OpaqueFlushed
  <2> HIDE DEF b
  <2>3. b \in Mhyps /\ b.id = a.id /\ b.sortOrder = a.sortOrder
        /\ b.mhods = PreparedMhods(a.mhods, tracks)
    BY <2>1
  <2>4. b \in FaithfulPlaylists(old)
    BY <2>2, <2>3, FaithfulSame
  <2> QED BY <2>4 DEF b
<1>7. copy_mhyp(a) \in FaithfulPlaylists(old)
  <2> DEFINE b == copy_mhyp(a)
  <2>1. /\ b \in Mhyps
        /\ b = [hidden |-> a.hidden, id |-> a.id, sortOrder |-> a.sortOrder,
                mhods |-> Copies(a.mhods), mhips |-> a.mhips]
    BY <1>1, PlaylistCopied
  <2>2. Opaque(Copies(a.mhods)) = Opaque(a.mhods)
    <3>1. <<>> \in Seq(Mhits)
      OBVIOUS
    <3> QED BY <1>2, <3>1, OpaqueFlushed
  <2> HIDE DEF b
  <2>3. b \in Mhyps /\ b.id = a.id /\ b.sortOrder = a.sortOrder /\ b.mhods = Copies(a.mhods)
    BY <2>1
  <2>4. b \in FaithfulPlaylists(old)
    BY <2>2, <2>3, FaithfulSame
  <2> QED BY <2>4 DEF b
<1> QED BY <1>3, <1>4, <1>5, <1>6, <1>7

\* Lists of tracks and playlists, put back.
LEMMA FaithfulSet ==
    ASSUME NEW old, NEW tree, IsDatabase(tree), Faithful(tree, old)
    PROVE  /\ \A new \in TrackLists :
                 new \in Seq(FaithfulTracks(old)) => Faithful(WithTracks(tree, new), old)
           /\ \A new \in Seq(FaithfulPlaylists(old)) : Faithful(WithPlaylists(tree, new), old)
<1>1. ASSUME NEW new \in TrackLists, new \in Seq(FaithfulTracks(old))
      PROVE  Faithful(WithTracks(tree, new), old)
  <2>1. new \in Seq(Mhits) /\ IsTrackList(new)
    BY DEF TrackLists
  <2>2. /\ Tracks(WithTracks(tree, new)) = new
        /\ Playlists(WithTracks(tree, new)) = Playlists(tree)
        /\ WithTracks(tree, new).version = tree.version
    BY <2>1, TracksSet
  <2> QED BY <1>1, <2>2 DEF Faithful
<1>2. ASSUME NEW new \in Seq(FaithfulPlaylists(old))
      PROVE  Faithful(WithPlaylists(tree, new), old)
  <2>1. new \in Seq(Mhyps)
    <3>1. FaithfulPlaylists(old) \subseteq Mhyps
      BY DEF FaithfulPlaylists
    <3> QED BY <3>1
  <2>2. /\ Tracks(WithPlaylists(tree, new)) = Tracks(tree)
        /\ Playlists(WithPlaylists(tree, new)) = new
        /\ WithPlaylists(tree, new).version = tree.version
    BY <2>1, PlaylistsSet
  <2> QED BY <2>2 DEF Faithful
<1> QED BY <1>1, <1>2

\* The calls on tracks keep what is not understood.
LEMMA TrackCallsFaithful ==
    ASSUME IInv, TrackNext, itunes \in ForeignTrees, Faithful(root, itunes)
    PROVE  Faithful(root', itunes)
<1> DEFINE s == Tracks(root)
           F == FaithfulTracks(itunes)
<1>1. root # NULL /\ IsDatabase(root)
  BY DEF TrackNext, ipod_track_add, IInv
<1>2. s \in TrackLists /\ s \in Seq(Mhits) /\ s \in Seq(F)
  BY <1>1, TracksListed DEF Faithful
<1>3. \A new \in TrackLists : new \in Seq(F) => Faithful(WithTracks(root, new), itunes)
  BY <1>1, FaithfulSet
<1> HIDE DEF F
<1>4. ASSUME NEW i \in DOMAIN s, NEW t \in F PROVE [s EXCEPT ![i] = t] \in Seq(F)
  BY <1>2, <1>4, ElementChanged
<1>5. CASE ipod_track_add
  <2> DEFINE t == NewTrack(s)
             new == Append(s, t)
  <2>1. new \in TrackLists
    BY <1>2, TrackMade
  <2>2. root' = WithTracks(root, new)
    BY <1>5 DEF ipod_track_add, TrackIds, NewTrack
  <2>3. t \in Mhits
    <3> HIDE DEF t
    <3>1. new \in Seq(Mhits) /\ new[Len(s) + 1] = t /\ Len(s) + 1 \in 1..Len(new)
      BY <1>2, <2>1 DEF TrackLists
    <3> QED BY <3>1
  <2>4. t.addedTime = MAC_EPOCH_OFFSET + 1
    BY DEF NewTrack, set_attribute, new_mhit, Field, Stored, Offset, MAC_EPOCH_OFFSET
  <2> HIDE DEF t
  <2>5. t \in F
    BY <2>3, <2>4, NewIsFaithful DEF F
  <2>6. new \in Seq(F)
    BY <1>2, <2>5
  <2> HIDE DEF new
  <2> QED BY <1>3, <2>1, <2>2, <2>6
<1>6. ASSUME NEW i \in DOMAIN s, ipod_track_remove(i) PROVE Faithful(root', itunes)
  <2> DEFINE new == RemoveAt(s, i)
  <2>1. new \in TrackLists
    BY <1>2, TrackRemoved
  <2>2. new \in Seq(F)
    <3>1. i \in 1..Len(s)
      BY <1>2
    <3> QED BY <1>2, <3>1, Removed
  <2>3. root' = WithTracks(root, new)
    BY <1>6 DEF ipod_track_remove
  <2> HIDE DEF new
  <2> QED BY <1>3, <2>1, <2>2, <2>3
<1>7. ASSUME NEW i \in DOMAIN s, NEW tag, NEW text \in File,
             root' = WithTracks(root, [s EXCEPT ![i].mhods = set_text(@, tag, text)])
      PROVE  Faithful(root', itunes)
  <2> DEFINE new == [s EXCEPT ![i].mhods = set_text(@, tag, text)]
             t == [s[i] EXCEPT !.mhods = set_text(@, tag, text)]
  <2>1. new \in TrackLists
    BY <1>2, TrackTextSet
  <2>2. new = [s EXCEPT ![i] = t]
    OBVIOUS
  <2>3. t \in F
    <3>1. s[i] \in F
      BY <1>2
    <3> QED BY <3>1, TrackStaysFaithful DEF F
  <2> HIDE DEF t
  <2>4. new \in Seq(F)
    BY <1>4, <2>2, <2>3
  <2> HIDE DEF new
  <2> QED BY <1>3, <1>7, <2>1, <2>4 DEF new
<1>8. ASSUME NEW i \in DOMAIN s, NEW value \in Ratings, ipod_track_set_attribute(i, "rating", value)
      PROVE  Faithful(root', itunes)
  <2> DEFINE new == [s EXCEPT ![i] = set_attribute(@, "rating", value)]
             t == set_attribute(s[i], "rating", value)
  <2>1. value \in Int
    BY InputAssumption
  <2>2. new \in TrackLists
    BY <1>2, <2>1, TrackRated
  <2>3. root' = WithTracks(root, new)
    BY <1>8 DEF ipod_track_set_attribute
  <2>4. new = [s EXCEPT ![i] = t]
    OBVIOUS
  <2>5. t \in F
    <3>1. s[i] \in F
      BY <1>2
    <3> QED BY <2>1, <3>1, TrackStaysFaithful DEF F
  <2> HIDE DEF t
  <2>6. new \in Seq(F)
    BY <1>4, <2>4, <2>5
  <2> HIDE DEF new
  <2> QED BY <1>3, <2>2, <2>3, <2>6
<1>9. ASSUME NEW i \in DOMAIN s, NEW extension \in Extensions, ipod_track_upload(i, extension)
      PROVE  Faithful(root', itunes)
  <2>1. CASE root' = root
    BY <2>1
  <2>2. CASE root' # root
    <3>1. PICK location \in unique_track_locations(extension) :
             root' = WithTracks(root, [s EXCEPT ![i].mhods = set_text(@, LOCATION, location)])
      BY <1>9, <2>2 DEF ipod_track_upload
    <3>2. location \in File
      <4>1. PICK name \in Names : location = <<Colon, name, extension>>
        BY DEF unique_track_locations
      <4>2. Colon \in Int /\ name \in Int /\ extension \in Int
        BY InputAssumption DEF Colon
      <4> QED BY <4>1, <4>2 DEF File
    <3> QED BY <1>7, <3>1, <3>2
  <2> QED BY <2>1, <2>2
<1>10. ASSUME NEW i \in DOMAIN s, NEW tag, NEW text \in Texts, ipod_track_set_text(i, tag, text)
       PROVE  Faithful(root', itunes)
  <2>1. text \in File
    BY InputAssumption
  <2>2. root' = WithTracks(root, [s EXCEPT ![i].mhods = set_text(@, tag, text)])
    BY <1>10 DEF ipod_track_set_text
  <2> QED BY <1>7, <2>1, <2>2
<1> HIDE DEF s
<1>11. \/ ipod_track_add
       \/ \E i \in DOMAIN s :
             \/ ipod_track_remove(i)
             \/ \E tag \in {TITLE, RSSURL}, text \in Texts : ipod_track_set_text(i, tag, text)
             \/ \E value \in Ratings : ipod_track_set_attribute(i, "rating", value)
             \/ \E extension \in Extensions : ipod_track_upload(i, extension)
  BY DEF TrackNext, s
<1> QED BY <1>5, <1>6, <1>8, <1>9, <1>10, <1>11

\* A playlist whose items change.
LEMMA ItemsFaithful ==
    ASSUME NEW old, NEW s \in Seq(FaithfulPlaylists(old)), NEW p \in DOMAIN s,
           NEW new \in Seq(Mhyps), \E mhips : new = [s EXCEPT ![p].mhips = mhips]
    PROVE  new \in Seq(FaithfulPlaylists(old))
<1> DEFINE F == FaithfulPlaylists(old)
           a == s[p]
           b == new[p]
<1>1. PICK mhips : new = [s EXCEPT ![p].mhips = mhips]
  OBVIOUS
<1>2. a \in F /\ a \in Mhyps
  <2>1. F \subseteq Mhyps
    BY DEF FaithfulPlaylists
  <2> QED BY <2>1
<1>3. p \in DOMAIN new /\ b = [a EXCEPT !.mhips = mhips] /\ new = [s EXCEPT ![p] = b]
  BY <1>1
<1>4. b \in Mhyps
  BY <1>3
<1> HIDE DEF a, b, F
<1>5. b.id = a.id /\ b.sortOrder = a.sortOrder /\ b.mhods = a.mhods
  BY <1>2, <1>3 DEF Mhyps
<1>6. b \in F
  BY <1>2, <1>4, <1>5, FaithfulSame DEF F
<1> QED BY <1>3, <1>6, ElementChanged DEF F

\* The calls on playlists and their items keep it too.
LEMMA PlaylistCallsFaithful ==
    ASSUME IInv, PlaylistNext, itunes \in ForeignTrees, Faithful(root, itunes)
    PROVE  Faithful(root', itunes)
<1> DEFINE s == Playlists(root)
           F == FaithfulPlaylists(itunes)
           Fine == Faithful(root', itunes)
<1>1. root # NULL /\ IsDatabase(root)
  BY DEF PlaylistNext, ipod_playlist_add, IInv
<1>2. s \in Seq(Mhyps) /\ s \in Seq(F)
  BY <1>1, TracksListed DEF Faithful
<1>3. \A new \in Seq(F) : Faithful(WithPlaylists(root, new), itunes)
  BY <1>1, FaithfulSet
<1>4. ASSUME NEW p \in DOMAIN s, NEW new \in Seq(Mhyps),
             \E mhips : new = [s EXCEPT ![p].mhips = mhips]
      PROVE  new \in Seq(F)
  BY <1>2, <1>4, ItemsFaithful
<1> HIDE DEF F
<1>5. ASSUME NEW p \in DOMAIN s, NEW a \in F PROVE [s EXCEPT ![p] = a] \in Seq(F)
  BY <1>2, <1>5, ElementChanged
<1>6. \A p \in DOMAIN s : s[p] \in F
  BY <1>2
<1>7. ASSUME ipod_playlist_add PROVE Fine
  <2> DEFINE a == new_mhyp(0, unique_id(10, [i \in DOMAIN s |-> s[i].id]), 0, <<>>)
             new == Append(s, a)
  <2>1. new \in Seq(Mhyps)
    BY <1>2, PlaylistMade
  <2>2. root' = WithPlaylists(root, new)
    BY <1>7 DEF ipod_playlist_add, ListIds
  <2>3. a.sortOrder = 0
    BY DEF new_mhyp
  <2> HIDE DEF a
  <2>4. a \in Mhyps
    <3>1. new[Len(s) + 1] = a /\ Len(s) + 1 \in 1..Len(new)
      BY <1>2
    <3> QED BY <2>1, <3>1
  <2>5. a \in F
    BY <2>3, <2>4, NewIsFaithful DEF F
  <2>6. new \in Seq(F)
    BY <1>2, <2>5
  <2> HIDE DEF new
  <2> QED BY <1>3, <2>2, <2>6
<1>8. ASSUME NEW p \in DOMAIN s, ipod_playlist_remove(p) PROVE Fine
  <2>1. RemoveAt(s, p) \in Seq(F)
    <3>1. p \in 1..Len(s)
      BY <1>2
    <3> QED BY <1>2, <3>1, Removed
  <2> QED BY <1>3, <1>8, <2>1 DEF ipod_playlist_remove
<1>9. ASSUME NEW p \in DOMAIN s, NEW text \in Texts, ipod_playlist_set_text(p, text) PROVE Fine
  <2> DEFINE new == [s EXCEPT ![p].mhods = set_text(@, TITLE, text)]
             a == [s[p] EXCEPT !.mhods = set_text(@, TITLE, text)]
  <2>1. text \in File
    BY InputAssumption
  <2>2. new = [s EXCEPT ![p] = a]
    OBVIOUS
  <2>3. a \in F
    BY <1>6, <2>1, PlaylistStaysFaithful DEF F
  <2>4. root' = WithPlaylists(root, new)
    BY <1>9 DEF ipod_playlist_set_text
  <2> HIDE DEF a
  <2>5. new \in Seq(F)
    BY <1>5, <2>2, <2>3
  <2> HIDE DEF new
  <2> QED BY <1>3, <2>4, <2>5
<1>10. ASSUME NEW p \in DOMAIN s, NEW value \in {0, 1},
              ipod_playlist_set_attribute(p, "hidden", value)
       PROVE  Fine
  <2> DEFINE new == [s EXCEPT ![p] = set_list_attribute(@, "hidden", value)]
             a == set_list_attribute(s[p], "hidden", value)
  <2>1. new = [s EXCEPT ![p] = a]
    OBVIOUS
  <2>2. a \in F
    <3>1. s[p] \in F /\ value \in Int
      BY <1>6
    <3> QED BY <3>1, PlaylistStaysFaithful DEF F
  <2>3. root' = WithPlaylists(root, new)
    BY <1>10 DEF ipod_playlist_set_attribute
  <2> HIDE DEF a
  <2>4. new \in Seq(F)
    BY <1>5, <2>1, <2>2
  <2> HIDE DEF new
  <2> QED BY <1>3, <2>3, <2>4
<1>11. ASSUME NEW p \in DOMAIN s, ipod_track_item_add(p) PROVE Fine
  <2> DEFINE new == [s EXCEPT ![p].mhips = Append(@, new_mhip(0))]
  <2>1. new \in Seq(Mhyps)
    BY <1>2, ItemMade
  <2>2. new = [s EXCEPT ![p].mhips = Append(s[p].mhips, new_mhip(0))]
    OBVIOUS
  <2>3. root' = WithPlaylists(root, new)
    BY <1>11 DEF ipod_track_item_add
  <2> HIDE DEF new
  <2> QED BY <1>3, <1>4, <2>1, <2>2, <2>3
<1>12. ASSUME NEW p \in DOMAIN s, NEW k \in DOMAIN s[p].mhips, ipod_track_item_remove(p, k)
       PROVE  Fine
  <2> DEFINE new == [s EXCEPT ![p].mhips = RemoveAt(@, k)]
  <2>1. new \in Seq(Mhyps)
    BY <1>2, ItemRemoved
  <2>2. new = [s EXCEPT ![p].mhips = RemoveAt(s[p].mhips, k)]
    OBVIOUS
  <2>3. root' = WithPlaylists(root, new)
    BY <1>12 DEF ipod_track_item_remove
  <2> HIDE DEF new
  <2> QED BY <1>3, <1>4, <2>1, <2>2, <2>3
<1>13. ASSUME NEW p \in DOMAIN s, NEW k \in DOMAIN s[p].mhips, NEW tag \in {"trackID", "groupID"},
              NEW value \in Int, ipod_track_item_set_attribute(p, k, tag, value)
       PROVE  Fine
  <2> DEFINE new == [s EXCEPT ![p].mhips[k] = set_item_attribute(@, tag, value)]
             x == [s[p].mhips EXCEPT ![k] = set_item_attribute(@, tag, value)]
  <2>1. new \in Seq(Mhyps)
    BY <1>2, ItemSet
  <2>2. new = [s EXCEPT ![p].mhips = x]
    OBVIOUS
  <2>3. root' = WithPlaylists(root, new)
    BY <1>13 DEF ipod_track_item_set_attribute
  <2> HIDE DEF new, x
  <2> QED BY <1>3, <1>4, <2>1, <2>2, <2>3
<1>14. ToSet(TrackIds(root)) \subseteq Int /\ Ratings \subseteq Int
  <2>1. \A i \in DOMAIN Tracks(root) : Tracks(root)[i].trackID \in Int
    <3> TAKE i \in DOMAIN Tracks(root)
    <3>1. Tracks(root) \in Seq(Mhits)
      BY <1>1, TracksListed
    <3>2. Tracks(root)[i] \in Mhits
      BY <3>1
    <3> QED BY <3>2 DEF Mhits
  <2> QED BY <2>1, InputAssumption DEF TrackIds, ToSet
<1> HIDE DEF s, Fine
<1>15. \/ ipod_playlist_add
       \/ \E p \in DOMAIN s :
             \/ ipod_playlist_remove(p)
             \/ \E text \in Texts : ipod_playlist_set_text(p, text)
             \/ \E value \in {0, 1} : ipod_playlist_set_attribute(p, "hidden", value)
             \/ ipod_track_item_add(p)
             \/ \E k \in DOMAIN s[p].mhips :
                   \/ ipod_track_item_remove(p, k)
                   \/ \E id \in ToSet(TrackIds(root)) : ipod_track_item_set_attribute(p, k, "trackID", id)
                   \/ \E value \in Ratings : ipod_track_item_set_attribute(p, k, "groupID", value)
  BY DEF PlaylistNext, s
<1>16. ASSUME NEW p \in DOMAIN s, NEW k \in DOMAIN s[p].mhips,
              \/ ipod_track_item_remove(p, k)
              \/ \E id \in ToSet(TrackIds(root)) : ipod_track_item_set_attribute(p, k, "trackID", id)
              \/ \E value \in Ratings : ipod_track_item_set_attribute(p, k, "groupID", value)
       PROVE  Fine
  <2>1. \A id \in ToSet(TrackIds(root)) : ipod_track_item_set_attribute(p, k, "trackID", id) => Fine
    BY <1>13, <1>14
  <2>2. \A value \in Ratings : ipod_track_item_set_attribute(p, k, "groupID", value) => Fine
    BY <1>13, <1>14
  <2> QED BY <1>12, <1>16, <2>1, <2>2
<1>17. Fine
  BY <1>7, <1>8, <1>9, <1>10, <1>11, <1>15, <1>16
<1> QED BY <1>17 DEF Fine

\* A flush keeps it in the tree,
LEMMA FlushFaithful ==
    ASSUME NEW old, NEW tree, IsDatabase(tree), Faithful(tree, old), NEW new, new = prepare_mhbd(tree)
    PROVE  Faithful(new, old)
<1> DEFINE s == Tracks(tree)
           lists == Playlists(tree)
           F == FaithfulTracks(old)
           G == FaithfulPlaylists(old)
<1>1. s \in Seq(Mhits) /\ s \in Seq(F) /\ lists \in Seq(G)
  BY TracksListed DEF Faithful
<1>2. /\ new.version = tree.version /\ Tracks(new) = PreparedTracks(s)
      /\ Playlists(new) = PreparedPlaylists(lists, s)
  BY FlushedLists
<1> HIDE DEF s, lists
<1>3. PreparedTracks(s) \in Seq(F)
  <2>1. \A i \in DOMAIN s : prepare_mhit(s[i]) \in F
    <3> TAKE i \in DOMAIN s
    <3>1. s[i] \in F
      BY <1>1
    <3> QED BY <3>1, TrackStaysFaithful
  <2> HIDE DEF F
  <2> QED BY <1>1, <2>1 DEF PreparedTracks
<1>4. PreparedPlaylists(lists, s) \in Seq(G)
  <2>1. \A i \in DOMAIN lists : prepare_mhyp(lists[i], s) \in G
    <3> TAKE i \in DOMAIN lists
    <3>1. lists[i] \in G
      BY <1>1
    <3> QED BY <1>1, <3>1, PlaylistStaysFaithful
  <2> HIDE DEF G
  <2> QED BY <1>1, <2>1 DEF PreparedPlaylists
<1> QED BY <1>2, <1>3, <1>4 DEF Faithful

\* and what is written of it does.
LEMMA KeptFaithful ==
    ASSUME NEW old \in ForeignTrees, NEW tree, IsDatabase(tree), Faithful(tree, old)
    PROVE  Faithful(Kept(tree), old)
<1> DEFINE s == Tracks(tree)
           lists == Playlists(tree)
           v == tree.version
           new == Kept(tree)
           F == FaithfulTracks(old)
           G == FaithfulPlaylists(old)
<1>1. /\ s \in TrackLists /\ s \in Seq(F) /\ lists \in Seq(G) /\ v \in Int /\ v = old.version
  BY TracksListed, Parts DEF Faithful
<1>2. new.version = v /\ Tracks(new) = KeptTracks(s, v) /\ Playlists(new) = KeptPlaylists(lists)
  <2>1. /\ HasLists(new, tree, KeptLists(tree))
        /\ StoreAt(tree, 1) \in DOMAIN tree.children /\ StoreAt(tree, 2) \in DOMAIN tree.children
        /\ tree.children[StoreAt(tree, 1)].index = 1 /\ tree.children[StoreAt(tree, 2)].index = 2
    BY DatabaseKept, Parts
  <2> QED BY <2>1 DEF HasLists, KeptLists, Tracks, Playlists
<1> HIDE DEF s, lists, v, new
<1>3. KeptTracks(s, v) \in Seq(F)
  <2>1. \A i \in DOMAIN s : ReadTrack(s[i], v) \in F
    <3> TAKE i \in DOMAIN s
    <3>1. s[i] \in F
      BY <1>1
    <3>2. IsTrack(s[i])
      <4>1. DOMAIN s = 1..Len(s) /\ s \in Seq(Mhits)
        BY <1>1 DEF TrackLists
      <4> QED BY <1>1, <4>1, TrackListIs
    <3> QED BY <1>1, <3>1, <3>2, KeptTrackFaithful
  <2> HIDE DEF F
  <2> QED BY <1>1, <2>1 DEF KeptTracks
<1>4. KeptPlaylists(lists) \in Seq(G)
  <2>1. \A i \in DOMAIN lists : copy_mhyp(lists[i]) \in G
    <3> TAKE i \in DOMAIN lists
    <3>1. lists[i] \in G
      BY <1>1
    <3> QED BY <3>1, PlaylistStaysFaithful
  <2> HIDE DEF G
  <2> QED BY <1>1, <2>1 DEF KeptPlaylists
<1> QED BY <1>1, <1>2, <1>3, <1>4 DEF Faithful, new

\* The tree and the file have the data that iTunes left, as long as there are its
\* tracks and playlists.
FInv ==
    itunes # NULL =>
        /\ itunes \in ForeignTrees /\ file # <<>> /\ Faithful(disk, itunes)
        /\ root # NULL => Faithful(root, itunes)

\* It is so at the start,
LEMMA InitFaithful ==
    ASSUME Init
    PROVE  FInv
<1>1. CASE itunes = NULL
  BY <1>1 DEF FInv
<1>2. CASE itunes # NULL
  <2>1. itunes \in ForeignTrees /\ file = ForeignFile(itunes) /\ root = NULL /\ disk = OnDisk(file)
    BY <1>2 DEF Init
  <2>2. file # <<>> /\ disk = itunes
    BY <2>1, ForeignAssumption DEF OnDisk
  <2> QED BY <2>1, <2>2, ForeignIsFaithful DEF FInv
<1> QED BY <1>1, <1>2

\* and after every step.
LEMMA StepFaithful ==
    ASSUME IInv, FInv, [Next]_vars
    PROVE  FInv'
<1> SUFFICES ASSUME itunes' # NULL
             PROVE  /\ itunes' \in ForeignTrees /\ file' # <<>> /\ Faithful(disk', itunes')
                    /\ root' # NULL => Faithful(root', itunes')
  BY DEF FInv
<1>1. itunes' = itunes
  BY DEF Next, vars
<1>2. /\ itunes \in ForeignTrees /\ file # <<>> /\ Faithful(disk, itunes)
      /\ root # NULL => Faithful(root, itunes)
  BY <1>1 DEF FInv
<1>3. disk' = IF file' = file THEN disk ELSE OnDisk(file')
  BY DEF Next, vars
<1>4. CASE ipod_flush
  <2>1. /\ IsDatabase(root) /\ root # NULL /\ root' = prepare_mhbd(root) /\ IsDatabase(root')
        /\ file' = file \/ file' = write_mhbd(root')
    BY <1>4, FlushStep DEF ipod_flush
  <2>2. Faithful(root', itunes)
    BY <1>2, <2>1, FlushFaithful
  <2>3. write_mhbd(root') # <<>> /\ OnDisk(write_mhbd(root')) = Kept(root')
    BY <2>1, WrittenHolds
  <2>4. Faithful(Kept(root'), itunes)
    BY <1>2, <2>1, <2>2, KeptFaithful
  <2> QED BY <1>1, <1>2, <1>3, <2>1, <2>2, <2>3, <2>4
<1>5. ASSUME UNCHANGED file, root' # NULL => Faithful(root', itunes)
      PROVE  /\ itunes' \in ForeignTrees /\ file' # <<>> /\ Faithful(disk', itunes')
             /\ root' # NULL => Faithful(root', itunes')
  BY <1>1, <1>2, <1>3, <1>5
<1>6. CASE ipod_new
  <2>1. UNCHANGED file /\ root' = read_mhbd(file).atom
    BY <1>2, <1>6 DEF ipod_new
  <2>2. root' = disk
    BY <1>2, <2>1 DEF IInv, OnDisk
  <2> QED BY <1>2, <1>5, <2>1, <2>2
<1>7. CASE ipod_free
  BY <1>5, <1>7 DEF ipod_free
<1>8. CASE TrackNext
  <2>1. root # NULL /\ UNCHANGED file
    BY <1>8, TrackCalls
  <2>2. Faithful(root', itunes)
    BY <1>2, <1>8, <2>1, TrackCallsFaithful
  <2> QED BY <1>5, <2>1, <2>2
<1>9. CASE PlaylistNext
  <2>1. root # NULL /\ UNCHANGED file
    BY <1>9, PlaylistCalls
  <2>2. Faithful(root', itunes)
    BY <1>2, <1>9, <2>1, PlaylistCallsFaithful
  <2> QED BY <1>5, <2>1, <2>2
<1>10. CASE PresetNext
  <2>1. root' = root /\ UNCHANGED file
    BY <1>10, PresetCalls
  <2> QED BY <1>2, <1>5, <2>1
<1>11. CASE UNCHANGED vars
  BY <1>2, <1>5, <1>11 DEF vars
<1>12. Next => ipod_new \/ ipod_flush \/ ipod_free \/ TrackNext \/ PlaylistNext \/ PresetNext
  BY DEF Next
<1> QED BY <1>4, <1>6, <1>7, <1>8, <1>9, <1>10, <1>11, <1>12

\* Through all calls, the tracks and playlists that iTunes left and that are still
\* in the file have the data that no call makes or changes: those the library does
\* not understand (ipod_atom_mhod.c:100-130, 249-278).
THEOREM ForeignDataKept ==
    Spec => []ForeignDataSurvives
<1>1. Init => IInv /\ FInv
  BY InitInv, InitFaithful
<1>2. IInv /\ FInv /\ [Next]_vars => (IInv /\ FInv)'
  BY StepInv, StepFaithful
<1>3. FInv => ForeignDataSurvives
  <2> SUFFICES ASSUME FInv, itunes # NULL
               PROVE  /\ \A i \in DOMAIN Tracks(itunes), j \in DOMAIN Tracks(disk) :
                            LET old == Tracks(itunes)[i]
                                new == Tracks(disk)[j]
                            IN  new.trackID = old.trackID /\ new.addedTime = old.addedTime =>
                                    /\ Opaque(new.mhods) = Opaque(old.mhods)
                                    /\ new.sampleCount = old.sampleCount
                      /\ \A i \in DOMAIN Playlists(itunes), j \in DOMAIN Playlists(disk) :
                            LET old == Playlists(itunes)[i]
                                new == Playlists(disk)[j]
                            IN  new.id = old.id /\ new.sortOrder = old.sortOrder =>
                                    Opaque(new.mhods) = Opaque(old.mhods)
    BY DEF ForeignDataSurvives
  <2>1. /\ \A j \in DOMAIN Tracks(disk) : Tracks(disk)[j] \in FaithfulTracks(itunes)
        /\ \A j \in DOMAIN Playlists(disk) : Playlists(disk)[j] \in FaithfulPlaylists(itunes)
    BY DEF FInv, Faithful
  <2> QED BY <2>1 DEF FaithfulTracks, FaithfulPlaylists
<1> QED BY <1>1, <1>2, <1>3, PTL DEF Spec

-----------------------------------------------------------------------------
(* What the library calls one change                                       *)

\* Only() is the same for both.
LEMMA OthersAre ==
    ASSUME NEW s, NEW id
    PROVE  Promise!Others(s, id) = Only(s, {x \in ToSet(s) : x.id # id})
  BY DEF Promise!Others, Promise!Only, Only, Promise!ToSet, ToSet

\* One element in place of another with its id.
LEMMA OneReplaced ==
    ASSUME NEW A, NEW s \in Seq(A), NEW B, NEW t \in Seq(B), Len(s) = Len(t),
           NEW k \in 1..Len(s), s[k].id = t[k].id, \A n \in 1..Len(s) : n # k => s[n] = t[n]
    PROVE  Promise!OneChanged(s, t)
<1> DEFINE id == s[k].id
           S == {x \in ToSet(s) : x.id # id}
           T == {x \in ToSet(t) : x.id # id}
<1>1. Len(s) \in Nat /\ DOMAIN s = 1..Len(s) /\ DOMAIN t = 1..Len(s)
  OBVIOUS
<1>2. \A n \in 1..Len(s) : (s[n] \in S <=> s[n].id # id) /\ (t[n] \in T <=> t[n].id # id)
  BY <1>1 DEF ToSet
<1>3. t[k].id = id
  OBVIOUS
<1> HIDE DEF S, T, id
<1>4. ASSUME NEW n \in 1..Len(s) PROVE (s[n] \in S <=> t[n] \in T) /\ (s[n] \in S => s[n] = t[n])
  <2>1. CASE n = k
    BY <1>2, <1>3, <2>1 DEF id
  <2>2. CASE n # k
    BY <1>2, <2>2
  <2> QED BY <2>1, <2>2
<1>5. Only(s, S) = Only(t, T)
  BY <1>4, OnlySame
<1>6. Promise!Others(s, id) = Promise!Others(t, id)
  BY <1>5, OthersAre DEF S, T
<1>7. id \in Promise!Ids(s)
  BY <1>1 DEF Promise!Ids, id
<1> QED BY <1>6, <1>7 DEF Promise!OneChanged

\* One element out.
LEMMA OneLess ==
    ASSUME NEW A, NEW s \in Seq(A), NEW B, NEW t \in Seq(B),
           NEW i \in 1..Len(s), Len(t) = Len(s) - 1,
           \A n \in 1..Len(s) - 1 : t[n] = s[IF n < i THEN n ELSE n + 1]
    PROVE  Promise!OneChanged(s, t) /\ Promise!OneChanged(t, s)
<1> DEFINE id == s[i].id
           S == {x \in ToSet(s) : x.id # id}
           T == {x \in ToSet(t) : x.id # id}
<1>1. /\ Len(s) \in Nat /\ DOMAIN s = 1..Len(s) /\ DOMAIN t = 1..Len(s) - 1
      /\ i \in Nat /\ 1 <= i /\ i <= Len(s)
  OBVIOUS
<1>2. /\ \A n \in 1..Len(s) : s[n] \in S <=> s[n].id # id
      /\ \A n \in 1..Len(s) - 1 : t[n] \in T <=> t[n].id # id
  BY <1>1 DEF ToSet
<1>3. s[i] \notin S
  BY <1>2
<1> HIDE DEF S, T, id
<1>4. ASSUME NEW n \in 1..Len(t), NEW m, m = IF n < i THEN n ELSE n + 1
      PROVE  t[n] = s[m] /\ (s[m] \in S <=> t[n] \in T)
  <2>1. n \in 1..Len(s) - 1 /\ m \in 1..Len(s) /\ t[n] = s[m]
    BY <1>1, <1>4
  <2> QED BY <1>2, <2>1
<1>5. Only(s, S) = Only(t, T)
  <2>1. \A n \in 1..Len(t) : LET m == IF n < i THEN n ELSE n + 1
                             IN  t[n] = s[m] /\ (s[m] \in S <=> t[n] \in T)
    BY <1>4
  <2> QED BY <1>3, <2>1, OnlyWithout
<1>6. Promise!Others(s, id) = Promise!Others(t, id)
  BY <1>5, OthersAre DEF S, T
<1>7. id \in Promise!Ids(s)
  BY <1>1 DEF Promise!Ids, id
<1> QED BY <1>6, <1>7 DEF Promise!OneChanged

\* One element behind the others.
LEMMA OneMore ==
    ASSUME NEW A, NEW s \in Seq(A), NEW B, NEW t \in Seq(B),
           Len(t) = Len(s) + 1, \A n \in 1..Len(s) : t[n] = s[n]
    PROVE  Promise!OneChanged(s, t)
<1>1. Len(s) \in Nat
  OBVIOUS
<1>2. Len(t) \in 1..Len(t) /\ Len(s) = Len(t) - 1
  BY <1>1
<1>3. \A n \in 1..Len(t) - 1 : s[n] = t[IF n < Len(t) THEN n ELSE n + 1]
  BY <1>1
<1> QED BY <1>2, <1>3, OneLess

-----------------------------------------------------------------------------
(* What a client sees of lists                                             *)

\* The ids of tracks or items.
IdsOf(s) == [i \in DOMAIN s |-> s[i].trackID]

\* A part of a list has a part of its ids.
LEMMA OnlyIds ==
    ASSUME NEW A, NEW s \in Seq(A), NEW S, NEW T,
           \A n \in 1..Len(s) : s[n] \in S <=> s[n].trackID \in T
    PROVE  Only(IdsOf(s), T) = IdsOf(Only(s, S))
<1> DEFINE N == Len(s)
           ids == IdsOf(s)
           B == {s[i].trackID : i \in 1..N}
<1>1. N \in Nat /\ \A n \in 1..N : s[n] \in A
  OBVIOUS
<1>2. ids \in Seq(B) /\ Len(ids) = N /\ \A n \in 1..N : ids[n] = s[n].trackID
  BY DEF IdsOf
<1>3. PICK g \in [0..N -> Seq(A)] : OnlySteps(g, s, S)
  BY OnlyWalks
<1> HIDE DEF ids, B
<1>4. PICK k \in [0..Len(ids) -> Seq(B)] : OnlySteps(k, ids, T)
  BY <1>2, OnlyWalks
<1>5. /\ g[0] = <<>> /\ Only(s, S) = g[N]
      /\ \A n \in 1..N : g[n] = IF s[n] \in S THEN Append(g[n - 1], s[n]) ELSE g[n - 1]
  BY <1>3 DEF OnlySteps
<1>6. /\ k[0] = <<>> /\ Only(ids, T) = k[N]
      /\ \A n \in 1..N : k[n] = IF ids[n] \in T THEN Append(k[n - 1], ids[n]) ELSE k[n - 1]
  BY <1>2, <1>4 DEF OnlySteps
<1>7. \A n \in 1..N : s[n] \in S <=> ids[n] \in T
  BY <1>2
<1> HIDE DEF N
<1> DEFINE I == {n \in 0..N : k[n] = IdsOf(g[n])}
<1>8. 0 \in I
  <2>1. IdsOf(<<>>) = <<>>
    BY DEF IdsOf
  <2> QED BY <1>1, <1>5, <1>6, <2>1
<1>9. ASSUME NEW n \in 1..N, n - 1 \in I PROVE n \in I
  <2>1. n \in 0..N /\ n - 1 \in 0..N
    BY <1>1
  <2>2. g[n - 1] \in Seq(A) /\ s[n] \in A /\ k[n - 1] = IdsOf(g[n - 1])
    BY <1>1, <1>9, <2>1
  <2>3. ASSUME NEW x \in Seq(A), NEW e \in A
        PROVE  IdsOf(Append(x, e)) = Append(IdsOf(x), e.trackID)
    BY DEF IdsOf
  <2>4. IdsOf(Append(g[n - 1], s[n])) = Append(k[n - 1], ids[n])
    BY <1>2, <2>2, <2>3 DEF N
  <2> QED BY <1>5, <1>6, <1>7, <2>1, <2>2, <2>4
<1>10. N \in I
  <2>1. N \in 0..N
    BY <1>1
  <2> HIDE DEF I
  <2>2. \A i \in 1..N : i - 1 \in I => i \in I
    BY <1>9
  <2>3. \A i \in 0..N : i \in I
    BY <1>1, <1>8, <2>2, Induction
  <2> QED BY <2>1, <2>3
<1> QED BY <1>5, <1>6, <1>10 DEF ids

\* Where a text is depends on the types.
LEMMA TextSame ==
    ASSUME NEW ms \in Seq(Mhods), NEW ns \in Seq(Mhods), NEW type, Len(ns) = Len(ms),
           \A i \in 1..Len(ms) :
              ns[i].type = ms[i].type /\ (ms[i].type = type => ns[i].cells = ms[i].cells)
    PROVE  get_text(ns, type) = get_text(ms, type)
<1> DEFINE I == {i \in 1..Len(ms) : ms[i].type = type}
           J == {i \in 1..Len(ns) : ns[i].type = type}
           k == TextAt(ms, type)
<1>1. I = J
  OBVIOUS
<1>2. TextAt(ms, type) = IF I # {} THEN Min(I) ELSE 0
  BY DEF TextAt, SelectInSeq
<1>3. TextAt(ns, type) = IF J # {} THEN Min(J) ELSE 0
  BY DEF TextAt, SelectInSeq
<1> HIDE DEF I, J
<1>4. TextAt(ns, type) = k
  BY <1>1, <1>2, <1>3
<1>5. k # 0 => k \in 1..Len(ms) /\ ms[k].type = type
  BY TextAtIs
<1> HIDE DEF k
<1>6. k # 0 => ns[k].cells = ms[k].cells
  BY <1>5
<1> QED BY <1>4, <1>6 DEF get_text, has_text, k

\* A text is of cells.
LEMMA TextTyped ==
    ASSUME NEW ms \in Seq(Mhods), NEW type
    PROVE  get_text(ms, type) \in File
<1> DEFINE k == TextAt(ms, type)
<1>1. k # 0 => k \in DOMAIN ms
  BY TextAtIs
<1> HIDE DEF k
<1>2. k # 0 => ms[k].cells \in File
  <2>1. k # 0 => ms[k] \in Mhods
    BY <1>1
  <2> QED BY <2>1 DEF Mhods
<1>3. <<>> \in File
  BY DEF File
<1> QED BY <1>2, <1>3 DEF get_text, has_text, NoText, k

\* What a client sees of a track, and of a playlist.
LEMMA ViewsTyped ==
    /\ \A t \in Mhits : TrackView(t) \in TrackViews
    /\ \A a \in Mhyps : PlaylistView(a) \in PlaylistViews
<1>1. ASSUME NEW t \in Mhits PROVE TrackView(t) \in TrackViews
  <2> DEFINE rest == Only(t.mhods, {m \in ToSet(t.mhods) : m.type # LOCATION})
             text == get_text(t.mhods, LOCATION)
             time == get_attribute(t, "addedTimeNative")
  <2>1. t.mhods \in Seq(Mhods) /\ t.rating \in Int /\ t.playCount \in Int /\ t.trackID \in Int
        /\ t.addedTime \in Int
    BY DEF Mhits
  <2>2. rest \in Seq(Mhods)
    <3> DEFINE S == {m \in ToSet(t.mhods) : m.type # LOCATION}
    <3> HIDE DEF S
    <3>1. Only(t.mhods, S) \in Seq(Mhods)
      BY <2>1, OnlyTyped
    <3> QED BY <3>1 DEF S
  <2>3. text \in File
    BY <2>1, TextTyped
  <2>4. time \in Int
    BY <2>1 DEF get_attribute, Field, Offset, MAC_EPOCH_OFFSET
  <2>5. TrackView(t) = [id |-> t.trackID, location |-> text,
                        data |-> <<t.rating, t.playCount, time, rest>>]
    BY DEF TrackView
  <2> HIDE DEF rest, text, time
  <2> QED BY <2>1, <2>2, <2>3, <2>4, <2>5 DEF TrackViews
<1>2. ASSUME NEW a \in Mhyps PROVE PlaylistView(a) \in PlaylistViews
  <2>1. a.mhods \in Seq(Mhods) /\ a.mhips \in Seq(Mhips) /\ a.id \in Int /\ a.hidden \in Int
    BY DEF Mhyps
  <2>2. get_text(a.mhods, TITLE) \in File
    BY <2>1, TextTyped
  <2>3. ItemsView(a) \in Seq(Int)
    <3>1. \A k \in DOMAIN a.mhips : a.mhips[k].trackID \in Int
      <4> TAKE k \in DOMAIN a.mhips
      <4>1. a.mhips[k] \in Mhips
        BY <2>1
      <4> QED BY <4>1 DEF Mhips
    <3> QED BY <2>1, <3>1 DEF ItemsView
  <2> QED BY <2>1, <2>2, <2>3 DEF PlaylistView, PlaylistViews
<1> QED BY <1>1, <1>2

SeenTracks(s) == [i \in DOMAIN s |-> TrackView(s[i])]
SeenPlaylists(s) == [i \in DOMAIN s |-> PlaylistView(s[i])]

\* Lists as a client sees them.
LEMMA SeenIs ==
    /\ \A s \in Seq(Mhits) :
          /\ SeenTracks(s) \in Seq(TrackViews) /\ Len(SeenTracks(s)) = Len(s)
          /\ \A i \in 1..Len(s) :
                SeenTracks(s)[i] = TrackView(s[i]) /\ SeenTracks(s)[i].id = s[i].trackID
    /\ \A s \in Seq(Mhyps) :
          /\ SeenPlaylists(s) \in Seq(PlaylistViews) /\ Len(SeenPlaylists(s)) = Len(s)
          /\ \A i \in 1..Len(s) :
                SeenPlaylists(s)[i] = PlaylistView(s[i]) /\ SeenPlaylists(s)[i].id = s[i].id
<1>1. ASSUME NEW s \in Seq(Mhits)
      PROVE  /\ SeenTracks(s) \in Seq(TrackViews) /\ Len(SeenTracks(s)) = Len(s)
             /\ \A i \in 1..Len(s) :
                   SeenTracks(s)[i] = TrackView(s[i]) /\ SeenTracks(s)[i].id = s[i].trackID
  <2>1. DOMAIN s = 1..Len(s) /\ Len(s) \in Nat
    OBVIOUS
  <2>2. \A i \in 1..Len(s) : TrackView(s[i]) \in TrackViews
    <3> TAKE i \in 1..Len(s)
    <3>1. s[i] \in Mhits
      OBVIOUS
    <3> QED BY <3>1, ViewsTyped
  <2>3. \A i \in 1..Len(s) : TrackView(s[i]).id = s[i].trackID
    BY DEF TrackView
  <2>4. SeenTracks(s) = [i \in 1..Len(s) |-> TrackView(s[i])]
    BY <2>1 DEF SeenTracks
  <2> QED BY <2>1, <2>2, <2>3, <2>4
<1>2. ASSUME NEW s \in Seq(Mhyps)
      PROVE  /\ SeenPlaylists(s) \in Seq(PlaylistViews) /\ Len(SeenPlaylists(s)) = Len(s)
             /\ \A i \in 1..Len(s) :
                   SeenPlaylists(s)[i] = PlaylistView(s[i]) /\ SeenPlaylists(s)[i].id = s[i].id
  <2>1. DOMAIN s = 1..Len(s) /\ Len(s) \in Nat
    OBVIOUS
  <2>2. \A i \in 1..Len(s) : PlaylistView(s[i]) \in PlaylistViews
    <3> TAKE i \in 1..Len(s)
    <3>1. s[i] \in Mhyps
      OBVIOUS
    <3> QED BY <3>1, ViewsTyped
  <2>3. \A i \in 1..Len(s) : PlaylistView(s[i]).id = s[i].id
    BY DEF PlaylistView
  <2>4. SeenPlaylists(s) = [i \in 1..Len(s) |-> PlaylistView(s[i])]
    BY <2>1 DEF SeenPlaylists
  <2> QED BY <2>1, <2>2, <2>3, <2>4
<1> QED BY <1>1, <1>2

\* An open iPod has a library.
LEMMA ViewIs ==
    ASSUME NEW tree, IsDatabase(tree)
    PROVE  /\ View(tree) = [tracks |-> SeenTracks(Tracks(tree)),
                            playlists |-> SeenPlaylists(Playlists(tree))]
           /\ tree # NULL /\ View(tree) # NULL
<1>1. Tracks(tree) \in Seq(Mhits) /\ Playlists(tree) \in Seq(Mhyps)
  BY TracksListed
<1>2. tree # NULL
  BY NullAssumption DEF IsDatabase
<1>3. View(tree) = [tracks |-> SeenTracks(Tracks(tree)),
                    playlists |-> SeenPlaylists(Playlists(tree))]
  BY <1>2 DEF View, TracksView, PlaylistsView, SeenTracks, SeenPlaylists
<1>4. SeenTracks(Tracks(tree)) \in Seq(TrackViews)
      /\ SeenPlaylists(Playlists(tree)) \in Seq(PlaylistViews)
  BY <1>1, SeenIs
<1>5. View(tree) \in Libraries
  BY <1>3, <1>4 DEF Libraries
<1> QED BY <1>2, <1>3, <1>5, NullAssumption

\* One track changed, added or removed.
LEMMA TracksSeen ==
    ASSUME NEW s \in Seq(Mhits), NEW new \in Seq(Mhits),
           \/ \E i \in DOMAIN s, t \in Mhits : t.trackID = s[i].trackID /\ new = [s EXCEPT ![i] = t]
           \/ \E i \in DOMAIN s : new = RemoveAt(s, i)
           \/ \E t \in Mhits : new = Append(s, t)
    PROVE  Promise!OneChanged(SeenTracks(s), SeenTracks(new))
<1> DEFINE v == SeenTracks(s)
           w == SeenTracks(new)
<1>1. /\ v \in Seq(TrackViews) /\ Len(v) = Len(s)
      /\ \A i \in 1..Len(s) : v[i] = TrackView(s[i]) /\ v[i].id = s[i].trackID
  BY SeenIs
<1>2. /\ w \in Seq(TrackViews) /\ Len(w) = Len(new)
      /\ \A i \in 1..Len(new) : w[i] = TrackView(new[i]) /\ w[i].id = new[i].trackID
  BY SeenIs
<1>3. DOMAIN s = 1..Len(s) /\ Len(s) \in Nat
  OBVIOUS
<1> HIDE DEF v, w
<1>4. ASSUME NEW i \in DOMAIN s, NEW t \in Mhits, t.trackID = s[i].trackID, new = [s EXCEPT ![i] = t]
      PROVE  Promise!OneChanged(v, w)
  <2>1. Len(new) = Len(s) /\ new[i] = t /\ \A n \in 1..Len(s) : n # i => new[n] = s[n]
    BY <1>4
  <2>2. Len(v) = Len(w) /\ i \in 1..Len(v) /\ v[i].id = w[i].id
    BY <1>1, <1>2, <1>3, <1>4, <2>1
  <2>3. \A n \in 1..Len(v) : n # i => v[n] = w[n]
    BY <1>1, <1>2, <2>1
  <2> QED BY <1>1, <1>2, <2>2, <2>3, OneReplaced
<1>5. ASSUME NEW i \in DOMAIN s, new = RemoveAt(s, i) PROVE Promise!OneChanged(v, w)
  <2>1. i \in 1..Len(s)
    BY <1>3
  <2>2. Len(new) = Len(s) - 1
        /\ \A k \in 1..Len(s) - 1 : new[k] = s[IF k < i THEN k ELSE k + 1]
    BY <1>5, <2>1, Removed
  <2>3. ASSUME NEW n \in 1..Len(v) - 1 PROVE w[n] = v[IF n < i THEN n ELSE n + 1]
    <3> DEFINE m == IF n < i THEN n ELSE n + 1
    <3>1. n \in 1..Len(s) - 1 /\ n \in 1..Len(new) /\ m \in 1..Len(s)
      BY <1>1, <1>3, <2>2
    <3>2. new[n] = s[m]
      BY <2>2, <3>1
    <3> HIDE DEF m
    <3>3. w[n] = v[m]
      BY <1>1, <1>2, <3>1, <3>2
    <3> QED BY <3>3 DEF m
  <2>4. Len(w) = Len(v) - 1 /\ i \in 1..Len(v)
    BY <1>1, <1>2, <2>1, <2>2
  <2> QED BY <1>1, <1>2, <2>3, <2>4, OneLess
<1>6. ASSUME NEW t \in Mhits, new = Append(s, t) PROVE Promise!OneChanged(v, w)
  <2>1. Len(new) = Len(s) + 1 /\ \A n \in 1..Len(s) : new[n] = s[n]
    BY <1>6
  <2>2. Len(w) = Len(v) + 1 /\ \A n \in 1..Len(v) : w[n] = v[n]
    BY <1>1, <1>2, <1>3, <2>1
  <2> QED BY <1>1, <1>2, <2>2, OneMore
<1>7. Promise!OneChanged(v, w)
  BY <1>4, <1>5, <1>6
<1> QED BY <1>7 DEF v, w

\* One playlist changed, added or removed.
LEMMA PlaylistsSeen ==
    ASSUME NEW s \in Seq(Mhyps), NEW new \in Seq(Mhyps),
           \/ \E i \in DOMAIN s, t \in Mhyps : t.id = s[i].id /\ new = [s EXCEPT ![i] = t]
           \/ \E i \in DOMAIN s : new = RemoveAt(s, i)
           \/ \E t \in Mhyps : new = Append(s, t)
    PROVE  Promise!OneChanged(SeenPlaylists(s), SeenPlaylists(new))
<1> DEFINE v == SeenPlaylists(s)
           w == SeenPlaylists(new)
<1>1. /\ v \in Seq(PlaylistViews) /\ Len(v) = Len(s)
      /\ \A i \in 1..Len(s) : v[i] = PlaylistView(s[i]) /\ v[i].id = s[i].id
  BY SeenIs
<1>2. /\ w \in Seq(PlaylistViews) /\ Len(w) = Len(new)
      /\ \A i \in 1..Len(new) : w[i] = PlaylistView(new[i]) /\ w[i].id = new[i].id
  BY SeenIs
<1>3. DOMAIN s = 1..Len(s) /\ Len(s) \in Nat
  OBVIOUS
<1> HIDE DEF v, w
<1>4. ASSUME NEW i \in DOMAIN s, NEW t \in Mhyps, t.id = s[i].id, new = [s EXCEPT ![i] = t]
      PROVE  Promise!OneChanged(v, w)
  <2>1. Len(new) = Len(s) /\ new[i] = t /\ \A n \in 1..Len(s) : n # i => new[n] = s[n]
    BY <1>4
  <2>2. Len(v) = Len(w) /\ i \in 1..Len(v) /\ v[i].id = w[i].id
    BY <1>1, <1>2, <1>3, <1>4, <2>1
  <2>3. \A n \in 1..Len(v) : n # i => v[n] = w[n]
    BY <1>1, <1>2, <2>1
  <2> QED BY <1>1, <1>2, <2>2, <2>3, OneReplaced
<1>5. ASSUME NEW i \in DOMAIN s, new = RemoveAt(s, i) PROVE Promise!OneChanged(v, w)
  <2>1. i \in 1..Len(s)
    BY <1>3
  <2>2. Len(new) = Len(s) - 1
        /\ \A k \in 1..Len(s) - 1 : new[k] = s[IF k < i THEN k ELSE k + 1]
    BY <1>5, <2>1, Removed
  <2>3. ASSUME NEW n \in 1..Len(v) - 1 PROVE w[n] = v[IF n < i THEN n ELSE n + 1]
    <3> DEFINE m == IF n < i THEN n ELSE n + 1
    <3>1. n \in 1..Len(s) - 1 /\ n \in 1..Len(new) /\ m \in 1..Len(s)
      BY <1>1, <1>3, <2>2
    <3>2. new[n] = s[m]
      BY <2>2, <3>1
    <3> HIDE DEF m
    <3>3. w[n] = v[m]
      BY <1>1, <1>2, <3>1, <3>2
    <3> QED BY <3>3 DEF m
  <2>4. Len(w) = Len(v) - 1 /\ i \in 1..Len(v)
    BY <1>1, <1>2, <2>1, <2>2
  <2> QED BY <1>1, <1>2, <2>3, <2>4, OneLess
<1>6. ASSUME NEW t \in Mhyps, new = Append(s, t) PROVE Promise!OneChanged(v, w)
  <2>1. Len(new) = Len(s) + 1 /\ \A n \in 1..Len(s) : new[n] = s[n]
    BY <1>6
  <2>2. Len(w) = Len(v) + 1 /\ \A n \in 1..Len(v) : w[n] = v[n]
    BY <1>1, <1>2, <1>3, <2>1
  <2> QED BY <1>1, <1>2, <2>2, OneMore
<1>7. Promise!OneChanged(v, w)
  BY <1>4, <1>5, <1>6
<1> QED BY <1>7 DEF v, w

\* Then the library is edited.
LEMMA ListEdited ==
    ASSUME NEW tree, IsDatabase(tree), NEW new, IsDatabase(new),
           \/ /\ Playlists(new) = Playlists(tree)
              /\ Promise!OneChanged(SeenTracks(Tracks(tree)), SeenTracks(Tracks(new)))
           \/ /\ Tracks(new) = Tracks(tree)
              /\ Promise!OneChanged(SeenPlaylists(Playlists(tree)), SeenPlaylists(Playlists(new)))
    PROVE  Promise!Edited(View(tree), View(new))
<1>1. View(tree) = [tracks |-> SeenTracks(Tracks(tree)),
                    playlists |-> SeenPlaylists(Playlists(tree))]
  BY ViewIs
<1>2. View(new) = [tracks |-> SeenTracks(Tracks(new)),
                   playlists |-> SeenPlaylists(Playlists(new))]
  BY ViewIs
<1> QED BY <1>1, <1>2 DEF Promise!Edited

\* So does a change of one track,
LEMMA TracksEdited ==
    ASSUME NEW tree, IsDatabase(tree), NEW s, s = Tracks(tree), NEW new \in TrackLists,
           \/ \E i \in DOMAIN s : \E t : t.trackID = s[i].trackID /\ new = [s EXCEPT ![i] = t]
           \/ \E i \in DOMAIN s : new = RemoveAt(s, i)
           \/ \E t : new = Append(s, t)
    PROVE  Promise!Edited(View(tree), View(WithTracks(tree, new)))
<1>1. s \in Seq(Mhits) /\ new \in Seq(Mhits) /\ IsTrackList(new)
  BY TracksListed DEF TrackLists
<1>2. /\ IsDatabase(WithTracks(tree, new)) /\ Tracks(WithTracks(tree, new)) = new
      /\ Playlists(WithTracks(tree, new)) = Playlists(tree)
  BY <1>1, TracksSet
<1>3. Promise!OneChanged(SeenTracks(s), SeenTracks(new))
  <2>1. ASSUME NEW i \in DOMAIN s, NEW t, new = [s EXCEPT ![i] = t] PROVE t \in Mhits
    <3>1. new[i] = t /\ i \in DOMAIN new
      BY <1>1, <2>1
    <3> QED BY <1>1, <3>1
  <2>2. ASSUME NEW t, new = Append(s, t) PROVE t \in Mhits
    <3>1. new[Len(s) + 1] = t /\ Len(s) + 1 \in DOMAIN new
      BY <1>1, <2>2
    <3> QED BY <1>1, <3>1
  <2>3. ASSUME NEW i \in DOMAIN s, NEW t, t.trackID = s[i].trackID, new = [s EXCEPT ![i] = t]
        PROVE  Promise!OneChanged(SeenTracks(s), SeenTracks(new))
    <3>1. t \in Mhits
      BY <2>1, <2>3
    <3> QED BY <1>1, <2>3, <3>1, TracksSeen
  <2>4. ASSUME NEW i \in DOMAIN s, new = RemoveAt(s, i)
        PROVE  Promise!OneChanged(SeenTracks(s), SeenTracks(new))
    BY <1>1, <2>4, TracksSeen
  <2>5. ASSUME NEW t, new = Append(s, t)
        PROVE  Promise!OneChanged(SeenTracks(s), SeenTracks(new))
    <3>1. t \in Mhits
      BY <2>2, <2>5
    <3> QED BY <1>1, <2>5, <3>1, TracksSeen
  <2> QED BY <2>3, <2>4, <2>5
<1> QED BY <1>2, <1>3, ListEdited

\* and of one playlist.
LEMMA PlaylistsEdited ==
    ASSUME NEW tree, IsDatabase(tree), NEW s, s = Playlists(tree), NEW new \in Seq(Mhyps),
           \/ \E i \in DOMAIN s : \E t : t.id = s[i].id /\ new = [s EXCEPT ![i] = t]
           \/ \E i \in DOMAIN s : new = RemoveAt(s, i)
           \/ \E t : new = Append(s, t)
    PROVE  Promise!Edited(View(tree), View(WithPlaylists(tree, new)))
<1>1. s \in Seq(Mhyps)
  BY TracksListed
<1>2. /\ IsDatabase(WithPlaylists(tree, new)) /\ Playlists(WithPlaylists(tree, new)) = new
      /\ Tracks(WithPlaylists(tree, new)) = Tracks(tree)
  BY PlaylistsSet
<1>3. Promise!OneChanged(SeenPlaylists(s), SeenPlaylists(new))
  <2>1. ASSUME NEW i \in DOMAIN s, NEW t, new = [s EXCEPT ![i] = t] PROVE t \in Mhyps
    <3>1. new[i] = t /\ i \in DOMAIN new
      BY <1>1, <2>1
    <3> QED BY <3>1
  <2>2. ASSUME NEW t, new = Append(s, t) PROVE t \in Mhyps
    <3>1. new[Len(s) + 1] = t /\ Len(s) + 1 \in DOMAIN new
      BY <1>1, <2>2
    <3> QED BY <3>1
  <2>3. ASSUME NEW i \in DOMAIN s, NEW t, t.id = s[i].id, new = [s EXCEPT ![i] = t]
        PROVE  Promise!OneChanged(SeenPlaylists(s), SeenPlaylists(new))
    <3>1. t \in Mhyps
      BY <2>1, <2>3
    <3> QED BY <1>1, <2>3, <3>1, PlaylistsSeen
  <2>4. ASSUME NEW i \in DOMAIN s, new = RemoveAt(s, i)
        PROVE  Promise!OneChanged(SeenPlaylists(s), SeenPlaylists(new))
    BY <1>1, <2>4, PlaylistsSeen
  <2>5. ASSUME NEW t, new = Append(s, t)
        PROVE  Promise!OneChanged(SeenPlaylists(s), SeenPlaylists(new))
    <3>1. t \in Mhyps
      BY <2>2, <2>5
    <3> QED BY <1>1, <2>5, <3>1, PlaylistsSeen
  <2> QED BY <2>3, <2>4, <2>5
<1> QED BY <1>2, <1>3, ListEdited

\* A track with a location it had not.
LEMMA TrackLocated ==
    ASSUME NEW t \in Mhits, ~has_text(t.mhods, LOCATION), NEW location \in File,
           NEW u, u = [t EXCEPT !.mhods = set_text(@, LOCATION, location)]
    PROVE  /\ TrackView(t).location = <<>>
           /\ TrackView(u) = [TrackView(t) EXCEPT !.location = TrackView(u).location]
<1> DEFINE ms == t.mhods
           e == new_mhod_string(LOCATION, location)
           ns == Append(ms, e)
           S == {m \in ToSet(ns) : m.type # LOCATION}
           T == {m \in ToSet(ms) : m.type # LOCATION}
<1>1. ms \in Seq(Mhods)
  BY DEF Mhits
<1>2. e \in Mhods /\ e.type = LOCATION
  BY DEF new_mhod_string, Mhods, Kind, Strings, LOCATION, SMARTPLAYLIST_PREF, ENCLOSUREURL,
         RSSURL, CHAPTER
<1>3. u = [t EXCEPT !.mhods = ns]
  BY DEF set_text, LOCATION, TITLE, DESCRIPTION
<1>4. u.mhods = ns /\ u.trackID = t.trackID /\ u.rating = t.rating
      /\ u.playCount = t.playCount /\ u.addedTime = t.addedTime
  <2> HIDE DEF ns
  <2> QED BY <1>3 DEF Mhits
<1> HIDE DEF ms, e
<1>5. /\ ns \in Seq(Mhods) /\ Len(ns) = Len(ms) + 1 /\ ns[Len(ns)] = e /\ Len(ms) \in Nat
      /\ \A n \in 1..Len(ms) : ns[n] = ms[n]
  BY <1>1, <1>2
<1> HIDE DEF ns
<1>6. /\ \A n \in 1..Len(ns) : ns[n] \in S <=> ns[n].type # LOCATION
      /\ \A n \in 1..Len(ms) : ms[n] \in T <=> ms[n].type # LOCATION
  BY <1>1, <1>5 DEF ToSet
<1> HIDE DEF S, T
<1>7. Only(ns, S) = Only(ms, T)
  <2>1. Len(ns) \in 1..Len(ns) /\ Len(ms) = Len(ns) - 1
    BY <1>5
  <2>2. ns[Len(ns)] \notin S
    BY <1>2, <1>5, <1>6, <2>1
  <2>3. ASSUME NEW n \in 1..Len(ms), NEW m, m = IF n < Len(ns) THEN n ELSE n + 1
        PROVE  ms[n] = ns[m] /\ (ns[m] \in S <=> ms[n] \in T)
    <3>1. m = n /\ n \in 1..Len(ns)
      BY <1>5, <2>3
    <3> QED BY <1>5, <1>6, <3>1
  <2> QED BY <1>1, <1>5, <2>1, <2>2, <2>3, OnlyWithout
<1>8. get_attribute(u, "addedTimeNative") = get_attribute(t, "addedTimeNative")
  BY <1>4 DEF get_attribute, Field
<1> DEFINE d == <<t.rating, t.playCount, get_attribute(t, "addedTimeNative"), Only(ms, T)>>
           l == get_text(ns, LOCATION)
<1>9. TrackView(t) = [id |-> t.trackID, location |-> <<>>, data |-> d]
  BY DEF TrackView, get_text, NoText, T, ms
<1>10. TrackView(u) = [id |-> t.trackID, location |-> l, data |-> d]
  <2>1. TrackView(u) = [id |-> u.trackID, location |-> get_text(u.mhods, LOCATION),
                        data |-> <<u.rating, u.playCount, get_attribute(u, "addedTimeNative"),
                                   Only(u.mhods, {m \in ToSet(u.mhods) : m.type # LOCATION})>>]
    BY DEF TrackView
  <2>2. Only(u.mhods, {m \in ToSet(u.mhods) : m.type # LOCATION}) = Only(ms, T)
    BY <1>4, <1>7 DEF S
  <2> QED BY <1>4, <1>8, <2>1, <2>2
<1> HIDE DEF d, l
<1> QED BY <1>9, <1>10

\* The calls on tracks, as a client sees them.
LEMMA TrackEdits ==
    ASSUME IInv, TrackNext
    PROVE  \/ db_dirty' = TRUE /\ Promise!Edited(View(root), View(root'))
           \/ UNCHANGED db_dirty /\ Promise!Located(View(root), View(root'))
           \/ UNCHANGED <<root, db_dirty>>
<1> DEFINE s == Tracks(root)
           Edits == db_dirty' = TRUE /\ Promise!Edited(View(root), View(root'))
           Locates == UNCHANGED db_dirty /\ Promise!Located(View(root), View(root'))
<1>1. root # NULL
  BY DEF TrackNext, ipod_track_add
<1>2. IsDatabase(root)
  BY <1>1 DEF IInv
<1>3. s \in TrackLists /\ s \in Seq(Mhits)
  BY <1>2, TracksListed
<1>4. CASE ipod_track_add
  <2> DEFINE t == NewTrack(s)
             new == Append(s, t)
  <2>1. new \in TrackLists
    BY <1>3, TrackMade
  <2>2. root' = WithTracks(root, new) /\ db_dirty' = TRUE
    BY <1>4 DEF ipod_track_add, TrackIds, NewTrack
  <2> HIDE DEF t
  <2>3. Promise!Edited(View(root), View(WithTracks(root, new)))
    BY <1>2, <2>1, TracksEdited
  <2> QED BY <2>2, <2>3
<1>5. ASSUME NEW i \in DOMAIN s, ipod_track_remove(i) PROVE Edits
  <2> DEFINE new == RemoveAt(s, i)
  <2>1. new \in TrackLists
    BY <1>3, TrackRemoved
  <2>2. Promise!Edited(View(root), View(WithTracks(root, new)))
    BY <1>2, <2>1, TracksEdited
  <2> QED BY <1>5, <2>2 DEF ipod_track_remove
<1>6. ASSUME NEW i \in DOMAIN s, NEW tag \in {TITLE, RSSURL}, NEW text \in Texts,
             ipod_track_set_text(i, tag, text)
      PROVE  Edits
  <2> DEFINE new == [s EXCEPT ![i].mhods = set_text(@, tag, text)]
             t == [s[i] EXCEPT !.mhods = set_text(@, tag, text)]
  <2>1. text \in File
    BY InputAssumption
  <2>2. new \in TrackLists
    BY <1>3, <2>1, TrackTextSet
  <2>3. root' = WithTracks(root, new) /\ db_dirty' = TRUE
    BY <1>6 DEF ipod_track_set_text
  <2>4. new = [s EXCEPT ![i] = t]
    OBVIOUS
  <2>5. t.trackID = s[i].trackID
    <3>1. s[i] \in Mhits
      BY <1>3
    <3> QED BY <3>1 DEF Mhits
  <2> HIDE DEF new, t
  <2>6. Promise!Edited(View(root), View(WithTracks(root, new)))
    BY <1>2, <2>2, <2>4, <2>5, TracksEdited
  <2> QED BY <2>3, <2>6
<1>7. ASSUME NEW i \in DOMAIN s, NEW value \in Ratings, ipod_track_set_attribute(i, "rating", value)
      PROVE  Edits
  <2> DEFINE new == [s EXCEPT ![i] = set_attribute(@, "rating", value)]
             t == set_attribute(s[i], "rating", value)
  <2>1. value \in Int
    BY InputAssumption
  <2>2. new \in TrackLists
    BY <1>3, <2>1, TrackRated
  <2>3. root' = WithTracks(root, new) /\ db_dirty' = TRUE
    BY <1>7 DEF ipod_track_set_attribute
  <2>4. new = [s EXCEPT ![i] = t]
    OBVIOUS
  <2>5. t.trackID = s[i].trackID
    <3>1. s[i] \in Mhits
      BY <1>3
    <3> QED BY <3>1 DEF Mhits, set_attribute, Field
  <2> HIDE DEF new, t
  <2>6. Promise!Edited(View(root), View(WithTracks(root, new)))
    BY <1>2, <2>2, <2>4, <2>5, TracksEdited
  <2> QED BY <2>3, <2>6
<1>8. ASSUME NEW i \in DOMAIN s, NEW extension \in Extensions, ipod_track_upload(i, extension)
      PROVE  Locates \/ UNCHANGED <<root, db_dirty>>
  <2>1. CASE root' = root
    BY <1>8, <2>1 DEF ipod_track_upload
  <2>2. CASE root' # root
    <3>1. PICK location \in unique_track_locations(extension) :
             root' = WithTracks(root, [s EXCEPT ![i].mhods = set_text(@, LOCATION, location)])
      BY <1>8, <2>2 DEF ipod_track_upload
    <3>2. ~has_text(s[i].mhods, LOCATION) /\ db_dirty' = db_dirty
      BY <1>8, <2>2 DEF ipod_track_upload
    <3> DEFINE new == [s EXCEPT ![i].mhods = set_text(@, LOCATION, location)]
               t == s[i]
               u == [t EXCEPT !.mhods = set_text(@, LOCATION, location)]
    <3>3. location \in File
      <4>1. PICK name \in Names : location = <<Colon, name, extension>>
        BY DEF unique_track_locations
      <4>2. Colon \in Int /\ name \in Int /\ extension \in Int
        BY InputAssumption DEF Colon
      <4> QED BY <4>1, <4>2 DEF File
    <3>4. new \in TrackLists
      BY <1>3, <3>3, TrackTextSet
    <3>5. new = [s EXCEPT ![i] = u] /\ t \in Mhits
      BY <1>3
    <3>6. TrackView(t).location = <<>>
          /\ TrackView(u) = [TrackView(t) EXCEPT !.location = TrackView(u).location]
      <4> HIDE DEF t
      <4> QED BY <3>2, <3>3, <3>5, TrackLocated DEF t
    <3>7. /\ Tracks(root') = new /\ Playlists(root') = Playlists(root) /\ IsDatabase(root')
      BY <1>2, <3>1, <3>4, TracksSet DEF TrackLists
    <3> HIDE DEF new, u
    <3> DEFINE v == SeenTracks(s)
               w == SeenTracks(new)
    <3>8. /\ View(root) = [tracks |-> v, playlists |-> SeenPlaylists(Playlists(root))]
          /\ View(root') = [tracks |-> w, playlists |-> SeenPlaylists(Playlists(root))]
      BY <1>2, <3>7, ViewIs
    <3>9. i \in DOMAIN v /\ v[i] = TrackView(t) /\ w = [v EXCEPT ![i] = TrackView(u)]
      BY <3>5 DEF SeenTracks
    <3> HIDE DEF v, w, t
    <3>10. /\ v[i].location = <<>>
           /\ w = [v EXCEPT ![i].location = w[i].location]
      <4>1. w[i] = TrackView(u)
        BY <3>9
      <4> QED BY <3>6, <3>9, <4>1
    <3>11. Promise!Located(View(root), View(root'))
      <4> DEFINE l == SeenPlaylists(Playlists(root))
                 x == w[i].location
      <4>1. View(root).tracks = v /\ View(root').tracks = w
        BY <3>8
      <4>2. [View(root) EXCEPT !.tracks[i].location = x] = View(root')
        <5> HIDE DEF l, x
        <5>1. View(root) = [tracks |-> v, playlists |-> l]
              /\ View(root') = [tracks |-> w, playlists |-> l]
          BY <3>8 DEF l
        <5>2. w = [v EXCEPT ![i].location = x]
          BY <3>10 DEF x
        <5> QED BY <5>1, <5>2
      <4> QED BY <3>9, <3>10, <4>1, <4>2 DEF Promise!Located
    <3> QED BY <3>2, <3>11
  <2> QED BY <2>1, <2>2
<1> HIDE DEF s
<1>9. \/ ipod_track_add
      \/ \E i \in DOMAIN s :
            \/ ipod_track_remove(i)
            \/ \E tag \in {TITLE, RSSURL}, text \in Texts : ipod_track_set_text(i, tag, text)
            \/ \E value \in Ratings : ipod_track_set_attribute(i, "rating", value)
            \/ \E extension \in Extensions : ipod_track_upload(i, extension)
  BY DEF TrackNext, s
<1> QED BY <1>4, <1>5, <1>6, <1>7, <1>8, <1>9

\* A playlist whose texts, items or mark as a master change keeps its id.
LEMMA PlaylistIdKept ==
    ASSUME NEW a \in Mhyps, NEW x
    PROVE  /\ [a EXCEPT !.mhods = x].id = a.id /\ [a EXCEPT !.mhips = x].id = a.id
           /\ set_list_attribute(a, "hidden", x).id = a.id
  BY DEF Mhyps, set_list_attribute

\* The calls on playlists and items, as a client sees them.
LEMMA PlaylistEdits ==
    ASSUME IInv, PlaylistNext
    PROVE  db_dirty' = TRUE /\ Promise!Edited(View(root), View(root'))
<1> DEFINE s == Playlists(root)
           Edits == db_dirty' = TRUE /\ Promise!Edited(View(root), View(root'))
<1>1. root # NULL
  BY DEF PlaylistNext, ipod_playlist_add
<1>2. IsDatabase(root)
  BY <1>1 DEF IInv
<1>3. s \in Seq(Mhyps) /\ \A p \in DOMAIN s : s[p] \in Mhyps
  BY <1>2, TracksListed
<1>4. ASSUME NEW p \in DOMAIN s, NEW new \in Seq(Mhyps), NEW a,
             new = [s EXCEPT ![p] = a], a.id = s[p].id,
             root' = WithPlaylists(root, new), db_dirty' = TRUE
      PROVE  Edits
  BY <1>2, <1>4, PlaylistsEdited
<1>5. ASSUME ipod_playlist_add PROVE Edits
  <2> DEFINE a == new_mhyp(0, unique_id(10, [i \in DOMAIN s |-> s[i].id]), 0, <<>>)
             new == Append(s, a)
  <2>1. new \in Seq(Mhyps)
    BY <1>3, PlaylistMade
  <2>2. root' = WithPlaylists(root, new) /\ db_dirty' = TRUE
    BY <1>5 DEF ipod_playlist_add, ListIds
  <2> HIDE DEF a
  <2>3. Promise!Edited(View(root), View(WithPlaylists(root, new)))
    BY <1>2, <2>1, PlaylistsEdited
  <2> QED BY <2>2, <2>3
<1>6. ASSUME NEW p \in DOMAIN s, ipod_playlist_remove(p) PROVE Edits
  <2> DEFINE new == RemoveAt(s, p)
  <2>1. new \in Seq(Mhyps)
    <3>1. p \in 1..Len(s)
      BY <1>3
    <3> QED BY <1>3, <3>1, Removed
  <2>2. Promise!Edited(View(root), View(WithPlaylists(root, new)))
    BY <1>2, <2>1, PlaylistsEdited
  <2> QED BY <1>6, <2>2 DEF ipod_playlist_remove
<1>7. ASSUME NEW p \in DOMAIN s, NEW text \in Texts, ipod_playlist_set_text(p, text) PROVE Edits
  <2> DEFINE new == [s EXCEPT ![p].mhods = set_text(@, TITLE, text)]
             a == [s[p] EXCEPT !.mhods = set_text(@, TITLE, text)]
  <2>1. text \in File
    BY InputAssumption
  <2>2. new \in Seq(Mhyps)
    BY <1>3, <2>1, PlaylistTextSet
  <2>3. new = [s EXCEPT ![p] = a]
    OBVIOUS
  <2>4. a.id = s[p].id
    BY <1>3, PlaylistIdKept
  <2>5. root' = WithPlaylists(root, new) /\ db_dirty' = TRUE
    BY <1>7 DEF ipod_playlist_set_text
  <2> HIDE DEF new, a, s
  <2> QED BY <1>4, <2>2, <2>3, <2>4, <2>5
<1>8. ASSUME NEW p \in DOMAIN s, NEW value \in {0, 1}, ipod_playlist_set_attribute(p, "hidden", value)
      PROVE  Edits
  <2> DEFINE new == [s EXCEPT ![p] = set_list_attribute(@, "hidden", value)]
             a == set_list_attribute(s[p], "hidden", value)
  <2>1. new \in Seq(Mhyps)
    BY <1>3, PlaylistHidden
  <2>2. new = [s EXCEPT ![p] = a]
    OBVIOUS
  <2>3. a.id = s[p].id
    BY <1>3, PlaylistIdKept
  <2>4. root' = WithPlaylists(root, new) /\ db_dirty' = TRUE
    BY <1>8 DEF ipod_playlist_set_attribute
  <2> HIDE DEF new, a, s
  <2> QED BY <1>4, <2>1, <2>2, <2>3, <2>4
<1>9. ASSUME NEW p \in DOMAIN s, NEW new \in Seq(Mhyps), NEW items,
             new = [s EXCEPT ![p].mhips = items], root' = WithPlaylists(root, new), db_dirty' = TRUE
      PROVE  Edits
  <2> DEFINE a == [s[p] EXCEPT !.mhips = items]
  <2>1. new = [s EXCEPT ![p] = a]
    BY <1>9
  <2>2. a.id = s[p].id
    BY <1>3, PlaylistIdKept
  <2> HIDE DEF a, s
  <2> QED BY <1>4, <1>9, <2>1, <2>2
<1>10. ASSUME NEW p \in DOMAIN s, ipod_track_item_add(p) PROVE Edits
  <2> DEFINE items == Append(s[p].mhips, new_mhip(0))
             new == [s EXCEPT ![p].mhips = Append(@, new_mhip(0))]
  <2>1. new \in Seq(Mhyps)
    BY <1>3, ItemMade
  <2>2. new = [s EXCEPT ![p].mhips = items]
    OBVIOUS
  <2>3. root' = WithPlaylists(root, new) /\ db_dirty' = TRUE
    BY <1>10 DEF ipod_track_item_add
  <2> HIDE DEF new, items, s
  <2> QED BY <1>9, <2>1, <2>2, <2>3
<1>11. ASSUME NEW p \in DOMAIN s, NEW k \in DOMAIN s[p].mhips, ipod_track_item_remove(p, k)
       PROVE  Edits
  <2> DEFINE items == RemoveAt(s[p].mhips, k)
             new == [s EXCEPT ![p].mhips = RemoveAt(@, k)]
  <2>1. new \in Seq(Mhyps)
    BY <1>3, ItemRemoved
  <2>2. new = [s EXCEPT ![p].mhips = items]
    OBVIOUS
  <2>3. root' = WithPlaylists(root, new) /\ db_dirty' = TRUE
    BY <1>11 DEF ipod_track_item_remove
  <2> HIDE DEF new, items, s
  <2> QED BY <1>9, <2>1, <2>2, <2>3
<1>12. ASSUME NEW p \in DOMAIN s, NEW k \in DOMAIN s[p].mhips, NEW tag \in {"trackID", "groupID"},
              NEW value \in Int, ipod_track_item_set_attribute(p, k, tag, value)
       PROVE  Edits
  <2> DEFINE items == [s[p].mhips EXCEPT ![k] = set_item_attribute(@, tag, value)]
             new == [s EXCEPT ![p].mhips[k] = set_item_attribute(@, tag, value)]
  <2>1. new \in Seq(Mhyps)
    BY <1>3, ItemSet
  <2>2. new = [s EXCEPT ![p].mhips = items]
    OBVIOUS
  <2>3. root' = WithPlaylists(root, new) /\ db_dirty' = TRUE
    BY <1>12 DEF ipod_track_item_set_attribute
  <2> HIDE DEF new, items, s
  <2> QED BY <1>9, <2>1, <2>2, <2>3
<1>13. ToSet(TrackIds(root)) \subseteq Int /\ Ratings \subseteq Int
  <2>1. \A i \in DOMAIN Tracks(root) : Tracks(root)[i].trackID \in Int
    <3> TAKE i \in DOMAIN Tracks(root)
    <3>1. Tracks(root) \in Seq(Mhits)
      BY <1>2, TracksListed
    <3>2. Tracks(root)[i] \in Mhits
      BY <3>1
    <3> QED BY <3>2 DEF Mhits
  <2> QED BY <2>1, InputAssumption DEF TrackIds, ToSet
<1> HIDE DEF s, Edits
<1>14. \/ ipod_playlist_add
       \/ \E p \in DOMAIN s :
             \/ ipod_playlist_remove(p)
             \/ \E text \in Texts : ipod_playlist_set_text(p, text)
             \/ \E value \in {0, 1} : ipod_playlist_set_attribute(p, "hidden", value)
             \/ ipod_track_item_add(p)
             \/ \E k \in DOMAIN s[p].mhips :
                   \/ ipod_track_item_remove(p, k)
                   \/ \E id \in ToSet(TrackIds(root)) : ipod_track_item_set_attribute(p, k, "trackID", id)
                   \/ \E value \in Ratings : ipod_track_item_set_attribute(p, k, "groupID", value)
  BY DEF PlaylistNext, s
<1>15. ASSUME NEW p \in DOMAIN s, NEW k \in DOMAIN s[p].mhips,
              \/ ipod_track_item_remove(p, k)
              \/ \E id \in ToSet(TrackIds(root)) : ipod_track_item_set_attribute(p, k, "trackID", id)
              \/ \E value \in Ratings : ipod_track_item_set_attribute(p, k, "groupID", value)
       PROVE  Edits
  <2>1. \A id \in ToSet(TrackIds(root)) : ipod_track_item_set_attribute(p, k, "trackID", id) => Edits
    BY <1>12, <1>13
  <2>2. \A value \in Ratings : ipod_track_item_set_attribute(p, k, "groupID", value) => Edits
    BY <1>12, <1>13
  <2> QED BY <1>11, <1>15, <2>1, <2>2
<1>16. Edits
  BY <1>5, <1>6, <1>7, <1>8, <1>10, <1>14, <1>15
<1> QED BY <1>16 DEF Edits

-----------------------------------------------------------------------------
(* What a flush does to what a client sees                                 *)

\* The ids of the tracks that a master playlist has not.
MissingIds(a, tracks) ==
    Only(IdsOf(tracks), {tracks[i].trackID : i \in DOMAIN tracks} \ ToSet(IdsOf(a.mhips)))

\* The ids of items.
LEMMA IdsTyped ==
    ASSUME NEW w \in Seq(Mhips)
    PROVE  /\ IdsOf(w) \in Seq(Int) /\ Len(IdsOf(w)) = Len(w)
           /\ \A k \in 1..Len(w) : IdsOf(w)[k] = w[k].trackID
<1> DEFINE n == Len(w)
           u == IdsOf(w)
<1>1. n \in Nat /\ DOMAIN w = 1..n
  OBVIOUS
<1>2. \A i \in 1..n : w[i].trackID \in Int
  <2> TAKE i \in 1..n
  <2>1. w[i] \in Mhips
    OBVIOUS
  <2> QED BY <2>1 DEF Mhips
<1>3. u = [k \in 1..n |-> w[k].trackID]
  BY <1>1 DEF IdsOf
<1> HIDE DEF n, u
<1>4. u \in Seq(Int) /\ Len(u) = n /\ \A k \in 1..n : u[k] = w[k].trackID
  BY <1>1, <1>2, <1>3
<1> QED BY <1>4 DEF n, u

\* Those of one list behind the other.
LEMMA IdsJoined ==
    ASSUME NEW x \in Seq(Mhips), NEW y \in Seq(Mhips)
    PROVE  IdsOf(x \o y) = IdsOf(x) \o IdsOf(y)
<1> DEFINE z == x \o y
           u == IdsOf(x)
           v == IdsOf(y)
           m == Len(x)
           n == Len(y)
           p == IdsOf(z)
           q == u \o v
<1>1. /\ z \in Seq(Mhips) /\ Len(z) = m + n
      /\ \A k \in 1..m + n : z[k] = IF k <= m THEN x[k] ELSE y[k - m]
  BY Joined
<1>2. m \in Nat /\ n \in Nat
  OBVIOUS
<1>3. u \in Seq(Int) /\ Len(u) = m /\ \A k \in 1..m : u[k] = x[k].trackID
  BY IdsTyped
<1>4. v \in Seq(Int) /\ Len(v) = n /\ \A k \in 1..n : v[k] = y[k].trackID
  BY IdsTyped
<1> HIDE DEF z, u, v, m, n
<1>5. p \in Seq(Int) /\ Len(p) = m + n /\ \A k \in 1..m + n : p[k] = z[k].trackID
  <2>1. p \in Seq(Int) /\ Len(p) = Len(z) /\ \A k \in 1..Len(z) : p[k] = z[k].trackID
    BY <1>1, IdsTyped
  <2> HIDE DEF p
  <2> QED BY <1>1, <2>1
<1>6. /\ q \in Seq(Int) /\ Len(q) = m + n
      /\ \A k \in 1..m + n : q[k] = IF k <= m THEN u[k] ELSE v[k - m]
  <2>1. u \in Seq(Int) /\ v \in Seq(Int)
    BY <1>3, <1>4
  <2>2. /\ q \in Seq(Int) /\ Len(q) = Len(u) + Len(v)
        /\ \A k \in 1..Len(u) + Len(v) : q[k] = IF k <= Len(u) THEN u[k] ELSE v[k - Len(u)]
    BY <2>1, Joined
  <2> HIDE DEF q
  <2> QED BY <1>3, <1>4, <2>2
<1> HIDE DEF p, q
<1>7. ASSUME NEW k \in 1..m + n PROVE p[k] = q[k]
  <2>1. CASE k <= m
    <3>1. k \in 1..m
      BY <1>2, <2>1
    <3> QED BY <1>1, <1>3, <1>5, <1>6, <2>1, <3>1
  <2>2. CASE ~(k <= m)
    <3>1. k - m \in 1..n
      BY <1>2, <2>2
    <3> QED BY <1>1, <1>4, <1>5, <1>6, <2>2, <3>1
  <2> QED BY <2>1, <2>2
<1>8. p = q
  BY <1>5, <1>6, <1>7, ListsEqual
<1> QED BY <1>8 DEF p, q, z, u, v

\* A master playlist gets an item for each.
LEMMA MastersItems ==
    ASSUME NEW a \in Mhyps, NEW tracks \in Seq(Mhits), NEW all,
           all = check_master_playlist(a.mhips, tracks)
    PROVE  all \in Seq(Mhips) /\ IdsOf(all) = IdsOf(a.mhips) \o MissingIds(a, tracks)
<1> DEFINE ids == {tracks[i].trackID : i \in DOMAIN tracks}
           items == a.mhips
           S == {t \in ToSet(tracks) : \A i \in DOMAIN items : items[i].trackID # t.trackID}
           T == ids \ ToSet(IdsOf(items))
           missing == Only(tracks, S)
           more == [i \in DOMAIN missing |-> new_mhip(missing[i].trackID)]
<1>1. items \in Seq(Mhips)
  BY DEF Mhyps
<1>2. all = items \o more
  BY DEF check_master_playlist
<1>3. ASSUME NEW n \in 1..Len(tracks) PROVE tracks[n] \in S <=> tracks[n].trackID \in T
  <2>1. tracks[n] \in ToSet(tracks) /\ tracks[n].trackID \in ids
    BY DEF ToSet
  <2>2. ToSet(IdsOf(items)) = {items[i].trackID : i \in DOMAIN items}
    BY DEF ToSet, IdsOf
  <2> HIDE DEF ids, items
  <2> QED BY <2>1, <2>2
<1> HIDE DEF S, T
<1>4. Only(IdsOf(tracks), T) = IdsOf(missing)
  BY <1>3, OnlyIds
<1>5. missing \in Seq(Mhits)
  BY OnlyTyped
<1> HIDE DEF missing
<1>6. \A i \in DOMAIN missing : new_mhip(missing[i].trackID) \in Mhips
  <2> TAKE i \in DOMAIN missing
  <2>1. missing[i] \in Mhits
    BY <1>5
  <2>2. missing[i].trackID \in Int
    BY <2>1 DEF Mhits
  <2> QED BY <2>2 DEF new_mhip, Mhips
<1>7. more \in Seq(Mhips) /\ Len(more) = Len(missing)
  BY <1>5, <1>6
<1>8. IdsOf(more) = IdsOf(missing)
  <2>1. \A i \in DOMAIN missing : more[i].trackID = missing[i].trackID
    BY DEF new_mhip
  <2>2. DOMAIN more = DOMAIN missing
    OBVIOUS
  <2> HIDE DEF more
  <2> QED BY <2>1, <2>2 DEF IdsOf
<1> HIDE DEF more
<1>10. IdsOf(all) = IdsOf(items) \o IdsOf(more) /\ all \in Seq(Mhips)
  BY <1>1, <1>2, <1>7, IdsJoined
<1> QED BY <1>4, <1>8, <1>10 DEF MissingIds, T

\* What is left are the items with a track.
LEMMA ItemsFlushed ==
    ASSUME NEW a \in Mhyps, NEW tracks \in Seq(Mhits),
           NEW ids, ids = {tracks[i].trackID : i \in DOMAIN tracks}
    PROVE  IdsOf(PreparedItems(a, tracks))
              = Only(IdsOf(a.mhips) \o (IF a.hidden # 0 THEN MissingIds(a, tracks) ELSE <<>>), ids)
<1> DEFINE all == IF a.hidden # 0 THEN check_master_playlist(a.mhips, tracks) ELSE a.mhips
           S == {item \in ToSet(all) : InList(item, tracks)}
<1>1. a.mhips \in Seq(Mhips)
  BY DEF Mhyps
<1>2. all \in Seq(Mhips)
      /\ IdsOf(all) = IdsOf(a.mhips) \o (IF a.hidden # 0 THEN MissingIds(a, tracks) ELSE <<>>)
  <2>1. CASE a.hidden # 0
    BY <2>1, MastersItems
  <2>2. CASE a.hidden = 0
    <3>1. IdsOf(a.mhips) \in Seq({a.mhips[i].trackID : i \in DOMAIN a.mhips})
      BY <1>1 DEF IdsOf
    <3>2. IdsOf(a.mhips) \o <<>> = IdsOf(a.mhips)
      BY <3>1
    <3> QED BY <1>1, <2>2, <3>2
  <2> QED BY <2>1, <2>2
<1>3. PreparedItems(a, tracks) = Only(all, S)
  BY DEF PreparedItems, check_playlist
<1> HIDE DEF all
<1>4. \A n \in 1..Len(all) : all[n] \in S <=> all[n].trackID \in ids
  BY <1>2 DEF ToSet, InList
<1> HIDE DEF S
<1>5. Only(IdsOf(all), ids) = IdsOf(Only(all, S))
  BY <1>2, <1>4, OnlyIds
<1> QED BY <1>2, <1>3, <1>5

\* A playlist that was prepared, as a client sees it.
LEMMA PlaylistFlushed ==
    ASSUME NEW a \in Mhyps, NEW tracks \in Seq(Mhits)
    PROVE  PlaylistView(prepare_mhyp(a, tracks))
              = [PlaylistView(a) EXCEPT !.items = IdsOf(PreparedItems(a, tracks))]
<1> DEFINE b == prepare_mhyp(a, tracks)
           items == IdsOf(PreparedItems(a, tracks))
<1>1. /\ b = [hidden |-> a.hidden, id |-> a.id, sortOrder |-> a.sortOrder,
              mhods |-> PreparedMhods(a.mhods, tracks), mhips |-> PreparedItems(a, tracks)]
      /\ b \in Mhyps
  BY PlaylistPrepared
<1> HIDE DEF b
<1>2. /\ b.hidden = a.hidden /\ b.id = a.id /\ b.mhods = PreparedMhods(a.mhods, tracks)
      /\ ItemsView(b) = items
  BY <1>1 DEF ItemsView, IdsOf
<1>3. a.mhods \in Seq(Mhods) /\ b.mhods \in Seq(Mhods)
  BY <1>1 DEF Mhyps
<1>4. get_text(b.mhods, TITLE) = get_text(a.mhods, TITLE)
  <2>1. Len(b.mhods) = Len(a.mhods)
    BY <1>2, <1>3 DEF PreparedMhods
  <2>2. ASSUME NEW i \in 1..Len(a.mhods)
        PROVE  b.mhods[i].type = a.mhods[i].type
               /\ (a.mhods[i].type = TITLE => b.mhods[i].cells = a.mhods[i].cells)
    <3>1. b.mhods[i] = prepare_mhod(a.mhods[i], tracks) /\ a.mhods[i] \in Mhods
      BY <1>2, <1>3 DEF PreparedMhods
    <3>2. prepare_mhod(a.mhods[i], tracks).type = a.mhods[i].type
      BY <3>1, MhodPrepared
    <3>3. a.mhods[i].type = TITLE => prepare_mhod(a.mhods[i], tracks) = a.mhods[i]
      BY DEF prepare_mhod, TITLE, LIBRARYPLAYLIST_INDEX
    <3> QED BY <3>1, <3>2, <3>3
  <2> QED BY <1>3, <2>1, <2>2, TextSame
<1> HIDE DEF items
<1>5. PlaylistView(b) = [id |-> a.id, hidden |-> a.hidden # 0,
                         title |-> get_text(a.mhods, TITLE), items |-> items]
  BY <1>2, <1>4 DEF PlaylistView
<1>6. [PlaylistView(a) EXCEPT !.items = items]
         = [id |-> a.id, hidden |-> a.hidden # 0,
            title |-> get_text(a.mhods, TITLE), items |-> items]
  BY DEF PlaylistView
<1> QED BY <1>5, <1>6 DEF b, items

\* A flush leaves the tracks, and in the playlists the items of Flushed().
LEMMA ViewFlushed ==
    ASSUME NEW tree, IsDatabase(tree), NEW new, new = prepare_mhbd(tree)
    PROVE  View(new) = Promise!Flushed(View(tree))
<1> DEFINE tracks == Tracks(tree)
           lists == Playlists(tree)
           v == SeenTracks(tracks)
           w == SeenPlaylists(lists)
           l == View(tree)
           ids == {tracks[i].trackID : i \in DOMAIN tracks}
<1>1. tracks \in Seq(Mhits) /\ tracks \in TrackLists /\ lists \in Seq(Mhyps)
  BY TracksListed
<1>2. /\ IsDatabase(new) /\ Tracks(new) = PreparedTracks(tracks)
      /\ Playlists(new) = PreparedPlaylists(lists, tracks)
  BY FlushedLists
<1>3. l = [tracks |-> v, playlists |-> w]
  BY ViewIs
<1>4. View(new) = [tracks |-> SeenTracks(PreparedTracks(tracks)),
                   playlists |-> SeenPlaylists(PreparedPlaylists(lists, tracks))]
  BY <1>2, ViewIs
<1> HIDE DEF tracks, lists, l
<1>5. DOMAIN tracks = 1..Len(tracks) /\ DOMAIN lists = 1..Len(lists)
  BY <1>1
<1>6. SeenTracks(PreparedTracks(tracks)) = v
  <2>1. ASSUME NEW i \in DOMAIN tracks PROVE TrackView(prepare_mhit(tracks[i])) = TrackView(tracks[i])
    <3> DEFINE t == tracks[i]
               u == prepare_mhit(t)
    <3>1. t \in Mhits
      BY <1>1
    <3> HIDE DEF t
    <3>2. /\ u.trackID = t.trackID /\ u.mhods = t.mhods /\ u.rating = t.rating
          /\ u.playCount = t.playCount /\ u.addedTime = t.addedTime
      BY <3>1 DEF prepare_mhit, Mhits
    <3> HIDE DEF u
    <3>3. TrackView(u) = TrackView(t)
      BY <3>2 DEF TrackView, get_attribute, Field
    <3> QED BY <3>3 DEF u, t
  <2> QED BY <2>1 DEF SeenTracks, PreparedTracks
<1>7. ids = Promise!Ids(v) /\ IdsOf(tracks) = [i \in DOMAIN v |-> v[i].id]
  BY DEF Promise!Ids, SeenTracks, TrackView, IdsOf
<1> DEFINE Missing(p) == Only(IdsOf(tracks), ids \ ToSet(p.items))
           Items(p) == p.items \o (IF p.hidden THEN Missing(p) ELSE <<>>)
           NewItems(p) == [p EXCEPT !.items = Only(Items(p), ids)]
<1>8. Promise!Flushed(l) = [l EXCEPT !.playlists = [i \in DOMAIN w |-> NewItems(w[i])]]
  <2>1. l.tracks = v /\ l.playlists = w
    BY <1>3
  <2>2. \A x, S : Promise!Only(x, S) = Only(x, S)
    BY DEF Promise!Only, Only
  <2>3. \A x : Promise!ToSet(x) = ToSet(x)
    BY DEF Promise!ToSet, ToSet
  <2>4. Promise!Flushed(l)
           = [l EXCEPT !.playlists = [i \in DOMAIN w |->
                [w[i] EXCEPT !.items =
                   Promise!Only(w[i].items \o (IF w[i].hidden
                                  THEN Promise!Only([k \in DOMAIN v |-> v[k].id],
                                                    Promise!Ids(v) \ Promise!ToSet(w[i].items))
                                  ELSE <<>>), Promise!Ids(v))]]]
    <3> HIDE DEF v, w
    <3> QED BY <2>1 DEF Promise!Flushed
  <2> HIDE DEF v, w, ids
  <2> QED BY <1>7, <2>2, <2>3, <2>4
<1>9. ASSUME NEW i \in DOMAIN lists
      PROVE  PlaylistView(prepare_mhyp(lists[i], tracks)) = NewItems(PlaylistView(lists[i]))
  <2> DEFINE a == lists[i]
             p == PlaylistView(a)
  <2>1. a \in Mhyps
    BY <1>1
  <2> HIDE DEF a
  <2>2. p.items = IdsOf(a.mhips) /\ p.hidden = (a.hidden # 0)
    BY DEF PlaylistView, ItemsView, IdsOf
  <2> HIDE DEF p
  <2>3. Missing(p) = MissingIds(a, tracks)
    BY <2>2 DEF MissingIds
  <2>4. PlaylistView(prepare_mhyp(a, tracks)) = [p EXCEPT !.items = IdsOf(PreparedItems(a, tracks))]
    BY <1>1, <2>1, PlaylistFlushed DEF p
  <2>5. IdsOf(PreparedItems(a, tracks))
           = Only(IdsOf(a.mhips) \o (IF a.hidden # 0 THEN MissingIds(a, tracks) ELSE <<>>), ids)
    BY <1>1, <2>1, ItemsFlushed
  <2> HIDE DEF Missing, ids
  <2>6. Items(p) = IdsOf(a.mhips) \o (IF a.hidden # 0 THEN MissingIds(a, tracks) ELSE <<>>)
    BY <2>2, <2>3
  <2> HIDE DEF Items
  <2>7. PlaylistView(prepare_mhyp(a, tracks)) = NewItems(p)
    BY <2>4, <2>5, <2>6
  <2> HIDE DEF NewItems
  <2> QED BY <2>7 DEF p, a
<1> HIDE DEF NewItems
<1>10. SeenPlaylists(PreparedPlaylists(lists, tracks)) = [i \in DOMAIN w |-> NewItems(w[i])]
  BY <1>9 DEF SeenPlaylists, PreparedPlaylists
<1> HIDE DEF v, w
<1>11. Promise!Flushed(l) = [tracks |-> v, playlists |-> [i \in DOMAIN w |-> NewItems(w[i])]]
  BY <1>3, <1>8
<1> QED BY <1>4, <1>6, <1>10, <1>11 DEF l

\* What the file keeps is what a client sees.
LEMMA ViewKept ==
    ASSUME NEW tree, IsDatabase(tree)
    PROVE  View(Kept(tree)) = View(tree)
<1> DEFINE s == Tracks(tree)
           lists == Playlists(tree)
           v == tree.version
           new == Kept(tree)
<1>1. /\ s \in Seq(Mhits) /\ s \in TrackLists /\ lists \in Seq(Mhyps) /\ v \in Int
  BY TracksListed, Parts
<1>2. IsDatabase(new) /\ Tracks(new) = KeptTracks(s, v) /\ Playlists(new) = KeptPlaylists(lists)
  <2>1. /\ HasLists(new, tree, KeptLists(tree)) /\ IsDatabase(new)
        /\ StoreAt(tree, 1) \in DOMAIN tree.children /\ StoreAt(tree, 2) \in DOMAIN tree.children
        /\ tree.children[StoreAt(tree, 1)].index = 1 /\ tree.children[StoreAt(tree, 2)].index = 2
    BY DatabaseKept, Parts
  <2> QED BY <2>1 DEF HasLists, KeptLists, Tracks, Playlists
<1>3. View(new) = [tracks |-> SeenTracks(KeptTracks(s, v)),
                   playlists |-> SeenPlaylists(KeptPlaylists(lists))]
  BY <1>2, ViewIs
<1>4. View(tree) = [tracks |-> SeenTracks(s), playlists |-> SeenPlaylists(lists)]
  BY ViewIs
<1> HIDE DEF s, v, lists, new
<1>5. SeenTracks(KeptTracks(s, v)) = SeenTracks(s)
  <2>1. ASSUME NEW i \in DOMAIN s PROVE TrackView(ReadTrack(s[i], v)) = TrackView(s[i])
    <3> DEFINE t == s[i]
               u == ReadTrack(t, v)
    <3>1. t \in Mhits /\ IsTrack(t)
      <4>1. DOMAIN s = 1..Len(s)
        BY <1>1
      <4> QED BY <1>1, <4>1, TrackListIs
    <3> HIDE DEF t
    <3>2. /\ u.trackID = t.trackID /\ u.mhods = t.mhods /\ u.playCount = t.playCount
          /\ u = IF v >= VERSION4_8 THEN t ELSE [t EXCEPT !.dbid2 = 0, !.sampleCount = 0]
      BY <1>1, <3>1, TrackKept
    <3> HIDE DEF u
    <3>3. u.rating = t.rating /\ u.addedTime = t.addedTime
      BY <3>1, <3>2 DEF Mhits
    <3>4. TrackView(u) = TrackView(t)
      BY <3>2, <3>3 DEF TrackView, get_attribute, Field
    <3> QED BY <3>4 DEF u, t
  <2> QED BY <2>1 DEF SeenTracks, KeptTracks
<1>6. SeenPlaylists(KeptPlaylists(lists)) = SeenPlaylists(lists)
  <2>1. ASSUME NEW i \in DOMAIN lists PROVE PlaylistView(copy_mhyp(lists[i])) = PlaylistView(lists[i])
    <3> DEFINE a == lists[i]
               b == copy_mhyp(a)
    <3>1. a \in Mhyps
      BY <1>1
    <3> HIDE DEF a
    <3>2. /\ b \in Mhyps /\ b = [hidden |-> a.hidden, id |-> a.id, sortOrder |-> a.sortOrder,
                                 mhods |-> Copies(a.mhods), mhips |-> a.mhips]
      BY <3>1, PlaylistCopied
    <3> HIDE DEF b
    <3>3. /\ b.hidden = a.hidden /\ b.id = a.id /\ b.mhods = Copies(a.mhods) /\ b.mhips = a.mhips
          /\ a.mhods \in Seq(Mhods) /\ b.mhods \in Seq(Mhods)
      BY <3>1, <3>2 DEF Mhyps
    <3>4. get_text(b.mhods, TITLE) = get_text(a.mhods, TITLE)
      <4>1. Len(b.mhods) = Len(a.mhods)
        BY <3>3 DEF Copies
      <4>2. ASSUME NEW k \in 1..Len(a.mhods)
            PROVE  b.mhods[k].type = a.mhods[k].type
                   /\ (a.mhods[k].type = TITLE => b.mhods[k].cells = a.mhods[k].cells)
        <5>1. b.mhods[k] = copy_mhod(a.mhods[k]) /\ a.mhods[k] \in Mhods
          BY <3>3 DEF Copies
        <5> QED BY <5>1 DEF copy_mhod, Mhods, TITLE
      <4> QED BY <3>3, <4>1, <4>2, TextSame
    <3>5. PlaylistView(b) = PlaylistView(a)
      BY <3>3, <3>4 DEF PlaylistView, ItemsView
    <3> QED BY <3>5 DEF b, a
  <2> QED BY <2>1 DEF SeenPlaylists, KeptPlaylists
<1> QED BY <1>3, <1>4, <1>5, <1>6 DEF new

-----------------------------------------------------------------------------
(* The refinement                                                          *)

\* Presets are there only while the iPod is open, also for a step.
RInv == IInv /\ (eq # NULL => root # NULL)

\* The presets come and go with the tree.
LEMMA StepRInv ==
    ASSUME RInv, [Next]_vars
    PROVE  RInv'
<1>1. IInv /\ IInv'
  BY StepInv DEF RInv
<1>2. eq' # NULL => root' # NULL
  <2>1. CASE ipod_new
    <3>1. IsDatabase(root')
      BY <1>1, <2>1, NewDatabase DEF ipod_new, IInv, HoldsDatabase
    <3> QED BY <3>1, NullAssumption DEF IsDatabase
  <2>2. CASE ipod_flush
    <3>1. IsDatabase(root')
      BY <1>1, <2>2, FlushStep
    <3> QED BY <3>1, NullAssumption DEF IsDatabase
  <2>3. CASE ipod_free
    BY <2>3 DEF ipod_free
  <2>4. CASE TrackNext
    <3>1. IsDatabase(root')
      BY <1>1, <2>4, TrackCalls
    <3> QED BY <3>1, NullAssumption DEF IsDatabase
  <2>5. CASE PlaylistNext
    <3>1. IsDatabase(root')
      BY <1>1, <2>5, PlaylistCalls
    <3> QED BY <3>1, NullAssumption DEF IsDatabase
  <2>6. CASE PresetNext
    <3>1. eq # NULL
      BY <2>6 DEF PresetNext, ipod_eq_preset_add
    <3>2. root' = root
      BY <1>1, <2>6, PresetCalls
    <3> QED BY <3>1, <3>2 DEF RInv
  <2>7. CASE UNCHANGED vars
    BY <2>7 DEF vars, RInv
  <2>8. Next => ipod_new \/ ipod_flush \/ ipod_free \/ TrackNext \/ PlaylistNext \/ PresetNext
    BY DEF Next
  <2> QED BY <2>1, <2>2, <2>3, <2>4, <2>5, <2>6, <2>7, <2>8
<1> QED BY <1>1, <1>2 DEF RInv

\* A library is open when the iPod is, and saved when there is a file.
LEMMA ViewsOf ==
    ASSUME IInv
    PROVE  /\ View(root) = NULL <=> root = NULL
           /\ View(disk) = NULL <=> disk = NULL
           /\ file = <<>> <=> disk = NULL
           /\ disk # NULL => IsDatabase(disk) /\ disk = read_mhbd(file).atom
<1>1. root # NULL => View(root) # NULL
  BY ViewIs DEF IInv
<1>2. View(NULL) = NULL
  BY DEF View
<1>3. file = <<>> => disk = NULL
  BY DEF IInv, OnDisk
<1>4. file # <<>> => IsDatabase(disk) /\ disk = read_mhbd(file).atom
  BY DEF IInv, OnDisk, HoldsDatabase
<1>5. file # <<>> => disk # NULL /\ View(disk) # NULL
  BY <1>4, ViewIs
<1> QED BY <1>1, <1>2, <1>3, <1>4, <1>5

\* What each step is to a client.
LEMMA StepImplements ==
    ASSUME RInv, RInv', [Next]_vars
    PROVE  [Promise!Open \/ Promise!Edit \/ Promise!Upload \/ Promise!Flush \/ Promise!Close]_(Promise!lvars)
<1>1. IInv /\ IInv'
  BY DEF RInv
<1>2. /\ View(root) = NULL <=> root = NULL
      /\ View(disk) = NULL <=> disk = NULL
      /\ file = <<>> <=> disk = NULL
      /\ disk # NULL => IsDatabase(disk) /\ disk = read_mhbd(file).atom
  BY <1>1, ViewsOf
<1>3. IsDatabase(root') => View(root') # NULL /\ root' # NULL
  BY ViewIs
<1>4. file' = file => disk' = disk
  BY <1>1 DEF IInv
<1>5. CASE ipod_new
  <2>1. root = NULL /\ file' = file
    BY <1>5 DEF ipod_new
  <2>2. CASE file = <<>>
    <3>1. root' = create_new_db(VERSION5_0) /\ db_dirty' = TRUE
      BY <1>5, <2>2 DEF ipod_new
    <3>2. /\ IsDatabase(root') /\ Tracks(root') = <<>>
          /\ Len(Playlists(root')) = 1 /\ Playlists(root')[1].hidden = 1
      BY <3>1, NewDatabase
    <3>3. View(root') = [tracks |-> SeenTracks(Tracks(root')),
                         playlists |-> SeenPlaylists(Playlists(root'))]
      BY <3>2, ViewIs
    <3>4. SeenTracks(Tracks(root')) = <<>>
      BY <3>2 DEF SeenTracks
    <3>5. Len(SeenPlaylists(Playlists(root'))) = 1 /\ SeenPlaylists(Playlists(root'))[1].hidden
      <4> DEFINE lists == Playlists(root')
      <4>1. lists \in Seq(Mhyps)
        BY <3>2, TracksListed
      <4>2. Len(lists) = 1 /\ lists[1].hidden = 1
        BY <3>2
      <4> HIDE DEF lists
      <4>3. Len(SeenPlaylists(lists)) = 1 /\ SeenPlaylists(lists)[1] = PlaylistView(lists[1])
        BY <4>1, <4>2, SeenIs
      <4>4. PlaylistView(lists[1]).hidden
        <5>1. PlaylistView(lists[1]).hidden = (lists[1].hidden # 0)
          BY DEF PlaylistView
        <5>2. lists[1].hidden # 0
          BY <4>2
        <5> QED BY <5>1, <5>2, Zenon
      <4> QED BY <4>3, <4>4 DEF lists
    <3>6. Promise!Empty(View(root'))
      BY <3>3, <3>4, <3>5 DEF Promise!Empty
    <3>7. Promise!Open
      BY <1>2, <1>3, <1>4, <2>1, <2>2, <3>1, <3>2, <3>6 DEF Promise!Open
    <3> QED BY <3>7
  <2>3. CASE file # <<>>
    <3>1. root' = disk /\ db_dirty' = FALSE
      BY <1>2, <1>5, <2>3 DEF ipod_new
    <3>2. Promise!Open
      BY <1>2, <1>4, <2>1, <2>3, <3>1 DEF Promise!Open
    <3> QED BY <3>2
  <2> QED BY <2>2, <2>3
<1>6. CASE ipod_flush
  <2>1. /\ IsDatabase(root) /\ IsDatabase(root') /\ root' = prepare_mhbd(root)
        /\ file' = IF db_dirty THEN write_mhbd(root') ELSE file
    BY <1>1, <1>6, FlushStep
  <2>2. View(root') = Promise!Flushed(View(root))
    BY <2>1, ViewFlushed
  <2>3. CASE db_dirty
    <3>1. disk' = Kept(root')
      BY <1>1, <2>1, <2>3, WrittenHolds DEF IInv
    <3>2. View(disk') = View(root')
      BY <2>1, <3>1, ViewKept
    <3>3. Promise!Flush
      BY <1>2, <1>3, <1>6, <2>1, <2>2, <2>3, <3>2, ViewIs DEF Promise!Flush, ipod_flush
    <3> QED BY <3>3
  <2>4. CASE ~db_dirty
    <3>1. disk' = disk
      BY <1>4, <2>1, <2>4
    <3>2. Promise!Flush
      BY <1>6, <2>1, <2>2, <2>4, <3>1, ViewIs DEF Promise!Flush, ipod_flush
    <3> QED BY <3>2
  <2> QED BY <2>3, <2>4
<1>7. CASE ipod_free
  <2>1. /\ root # NULL /\ root' = NULL /\ db_dirty' = FALSE /\ disk' = disk
    BY <1>4, <1>7 DEF ipod_free
  <2>2. View(root') = NULL
    BY <2>1 DEF View
  <2>3. Promise!Close
    BY <1>2, <2>1, <2>2 DEF Promise!Close
  <2> QED BY <2>3
<1>8. ASSUME root # NULL, IsDatabase(root'), disk' = disk, db_dirty' = TRUE,
             Promise!Edited(View(root), View(root'))
      PROVE  Promise!Edit
  BY <1>2, <1>3, <1>8 DEF Promise!Edit
<1>9. CASE TrackNext
  <2>1. root # NULL /\ IsDatabase(root') /\ disk' = disk
    BY <1>1, <1>4, <1>9, TrackCalls
  <2>2. CASE db_dirty' = TRUE /\ Promise!Edited(View(root), View(root'))
    BY <1>8, <2>1, <2>2
  <2>3. CASE UNCHANGED db_dirty /\ Promise!Located(View(root), View(root'))
    <3>1. Promise!Upload
      BY <1>2, <1>3, <2>1, <2>3 DEF Promise!Upload
    <3> QED BY <3>1
  <2>4. CASE UNCHANGED <<root, db_dirty>>
    BY <2>1, <2>4 DEF Promise!lvars
  <2> QED BY <1>1, <1>9, <2>2, <2>3, <2>4, TrackEdits
<1>10. CASE PlaylistNext
  <2>1. root # NULL /\ IsDatabase(root') /\ disk' = disk
    BY <1>1, <1>4, <1>10, PlaylistCalls
  <2>2. db_dirty' = TRUE /\ Promise!Edited(View(root), View(root'))
    BY <1>1, <1>10, PlaylistEdits
  <2> QED BY <1>8, <2>1, <2>2
<1>11. CASE PresetNext
  <2>1. eq # NULL
    BY <1>11 DEF PresetNext, ipod_eq_preset_add
  <2>2. root # NULL /\ IsDatabase(root)
    BY <1>1, <2>1 DEF RInv, IInv
  <2>3. root' = root /\ disk' = disk
    BY <1>1, <1>4, <1>11, PresetCalls
  <2>4. db_dirty' = db_dirty \/ db_dirty' = TRUE
    BY <1>11 DEF PresetNext, ipod_eq_preset_add, ipod_eq_preset_set_text, ipod_eq_preset_set_attribute
  <2>5. Promise!Edited(View(root), View(root'))
    <3>1. View(root') = View(root)
      BY <2>3
    <3> QED BY <3>1 DEF Promise!Edited, Promise!OneChanged
  <2>6. CASE db_dirty' = db_dirty
    BY <2>3, <2>6 DEF Promise!lvars
  <2>7. CASE db_dirty' = TRUE
    BY <1>8, <2>2, <2>3, <2>5, <2>7
  <2> QED BY <2>4, <2>6, <2>7
<1>12. CASE UNCHANGED vars
  BY <1>12 DEF vars, Promise!lvars
<1>13. Next => ipod_new \/ ipod_flush \/ ipod_free \/ TrackNext \/ PlaylistNext \/ PresetNext
  BY DEF Next
<1> QED BY <1>5, <1>6, <1>7, <1>9, <1>10, <1>11, <1>12, <1>13

\* Through all calls of ipod.h the tree and the file in its format are the library
\* that ipod.h promises: opening gives what was saved last, a call edits one track
\* or playlist and makes the database dirty, and nothing but a flush changes what
\* is saved (ipod.c:97-950).
THEOREM Refinement ==
    Spec => Implements
<1>1. Init => RInv /\ Promise!LibraryInit
  <2> SUFFICES ASSUME Init PROVE RInv /\ Promise!LibraryInit
    OBVIOUS
  <2>1. IInv
    BY InitInv
  <2>2. root = NULL /\ eq = NULL /\ db_dirty = FALSE
    BY DEF Init
  <2>3. View(root) = NULL
    BY <2>2 DEF View
  <2> QED BY <2>1, <2>2, <2>3 DEF RInv, Promise!LibraryInit
<1>2. RInv /\ [Next]_vars => RInv'
  BY StepRInv
<1>3. RInv /\ RInv' /\ [Next]_vars =>
         [Promise!Open \/ Promise!Edit \/ Promise!Upload \/ Promise!Flush \/ Promise!Close]_(Promise!lvars)
  BY StepImplements
<1> QED BY <1>1, <1>2, <1>3, PTL DEF Spec, Implements, Promise!LibrarySpec
=============================================================================
