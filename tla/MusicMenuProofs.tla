-------------------------- MODULE MusicMenuProofs --------------------------
(***************************************************************************)
(* No window shows what the choices on its path exclude, and a choice in a *)
(* root menu has all that match it, for any databases and however many     *)
(* windows and lists there are.                                            *)
(*                                                                         *)
(* The list of parameters a window was filled by holds more than its path: *)
(* what was chosen before and never taken out.  The invariant says that it *)
(* holds no less: for every choice on the path there is a parameter, and   *)
(* the menu that owns its value is still open below the window.            *)
(***************************************************************************)
EXTENDS MusicMenu, SequenceTheorems, TLAPS

Values == Names \cup Nat
Choices == [tag : Tags, value : Values]
Params == [tag : Tags, value : Values, owner : Nat]
Windows ==
    [id : Nat, shows : Tags \cup {"tracks"}, param : Nat \cup {NULL}, found : SUBSET Values,
     path : SUBSET Choices, from : Databases \cup {NULL}]

WindowsOK == windows \in Seq(Windows)
ListsOK == lists \in Seq(SUBSET Params)
RestOK == remote_ipod \in Databases \cup {NULL} /\ opened \in Nat

\* A parameter for the choice c, owned by a window of ws below the i-th.
Backed(ws, c, i, params) ==
    \E p \in params :
        /\ p.tag = c.tag /\ p.value = c.value
        /\ \E h \in 1 .. i - 1 : ws[h].id = p.owner

PathBacked(ws, i, ls) ==
    IF ws[i].param = NULL THEN ws[i].path = {}
    ELSE /\ ws[i].param \in DOMAIN ls
         /\ \A c \in ws[i].path : Backed(ws, c, i, ls[ws[i].param])

PathsBacked == \A i \in DOMAIN windows : PathBacked(windows, i, lists)

Within(w) ==
    w.from # NULL =>
        w.found \subseteq IF w.shows = "tracks" THEN Matching(w.from, w.path)
                          ELSE {w.from[k][w.shows] : k \in Matching(w.from, w.path)}
AllWithin == \A i \in DOMAIN windows : Within(windows[i])

IInv == WindowsOK /\ ListsOK /\ RestOK /\ PathsBacked /\ AllWithin

-----------------------------------------------------------------------------
(* Searching                                                               *)

\* Whatever a comparison with a freed name says, a search finds nothing that does
\* not match the parameters whose values are there.
LEMMA FoundWithinLive ==
    ASSUME NEW db, NEW params, NEW tracks \in Found(db, params)
    PROVE  tracks \subseteq Matching(db, Live(params))
BY DEF Found

\* If every choice of a path has a live parameter, what is found matches the path.
LEMMA FoundWithinPath ==
    ASSUME NEW db, NEW params, NEW path, NEW tracks \in Found(db, params),
           \A c \in path : \E p \in params :
               p.tag = c.tag /\ p.value = c.value /\ \E i \in DOMAIN windows : windows[i].id = p.owner
    PROVE  tracks \subseteq Matching(db, path)
<1> SUFFICES ASSUME NEW k \in tracks PROVE k \in Matching(db, path) OBVIOUS
<1>1. k \in DOMAIN db /\ \A p \in Live(params) : db[k][p.tag] = p.value
  BY FoundWithinLive DEF Matching
<1>2. ASSUME NEW c \in path PROVE db[k][c.tag] = c.value
  <2>1. PICK p \in params : /\ p.tag = c.tag /\ p.value = c.value
                            /\ \E i \in DOMAIN windows : windows[i].id = p.owner
    OBVIOUS
  <2>2. p \in Live(params) BY <2>1 DEF Live
  <2> QED BY <1>1, <2>1, <2>2
<1> QED BY <1>1, <1>2 DEF Matching

\* What is found are positions in the database.
LEMMA FoundType ==
    ASSUME NEW db \in Databases, NEW params, NEW tracks \in Found(db, params)
    PROVE  tracks \subseteq DOMAIN db /\ tracks \subseteq Nat /\ db \in Seq([Tags -> Names])
<1>1. db \in Seq([Tags -> Names]) BY MusicMenuAssumption
<1>2. tracks \subseteq DOMAIN db BY FoundWithinLive DEF Matching
<1> QED BY <1>1, <1>2

-----------------------------------------------------------------------------
(* Choosing                                                                *)

\* The top window, while there is one.
LEMMA TopType ==
    ASSUME WindowsOK, windows # <<>>
    PROVE  /\ Len(windows) \in Nat \ {0} /\ Len(windows) \in DOMAIN windows
           /\ DOMAIN windows = 1 .. Len(windows)
           /\ Top \in Windows /\ Top = windows[Len(windows)]
<1>1. Len(windows) \in Nat \ {0} /\ DOMAIN windows = 1 .. Len(windows) BY DEF WindowsOK
<1>2. windows[Len(windows)] \in Windows BY <1>1 DEF WindowsOK
<1> QED BY <1>1, <1>2 DEF Top

\* The list that a choice is added to is the window's, or a new one, and no list
\* loses anything.
LEMMA ChoiceAdded ==
    ASSUME IInv, windows # <<>>, Top.shows \in Tags, NEW value \in Top.found, add_choice(Top, value)
    PROVE  /\ ListsOK'
           /\ \A a \in DOMAIN lists : a \in DOMAIN lists' /\ lists[a] \subseteq lists'[a]
           /\ address(Top) \in DOMAIN lists' /\ address(Top) \in Nat
           /\ lists'[address(Top)] = with_choice(Top, value)
<1> DEFINE new == [tag |-> Top.shows, value |-> value, owner |-> Top.id]
           a0 == address(Top)
           set == with_choice(Top, value)
<1>1. Top \in Windows BY TopType DEF IInv
<1>2. value \in Values /\ Top.id \in Nat BY <1>1 DEF Windows
<1>3. new \in Params BY <1>2 DEF Params
<1>4. lists \in Seq(SUBSET Params) BY DEF IInv, ListsOK
<1>5. Len(lists) \in Nat /\ DOMAIN lists = 1 .. Len(lists) BY <1>4
<1>6. set = (IF a0 \in DOMAIN lists THEN lists[a0] ELSE {}) \cup {new} BY DEF with_choice
<1>7. lists' = IF a0 \in DOMAIN lists THEN [lists EXCEPT ![a0] = set] ELSE Append(lists, set)
  BY DEF add_choice
<1>8. a0 \in DOMAIN lists \/ a0 = Len(lists) + 1
  <2>1. CASE Top.param = NULL BY <2>1 DEF address
  <2>2. CASE Top.param # NULL
    <3>1. Top.param \in DOMAIN lists BY <2>2, TopType DEF IInv, PathsBacked, PathBacked
    <3> QED BY <2>2, <3>1 DEF address
  <2> QED BY <2>1, <2>2
<1>9. set \in SUBSET Params
  <2>1. a0 \in DOMAIN lists => lists[a0] \in SUBSET Params BY <1>4
  <2> QED BY <1>3, <1>6, <2>1
<1>10. a0 \in DOMAIN lists => lists[a0] \subseteq set BY <1>6
<1> HIDE DEF new, a0, set
<1>11. CASE a0 \in DOMAIN lists
  <2>1. lists' = [lists EXCEPT ![a0] = set] BY <1>7, <1>11
  <2>2. lists' \in Seq(SUBSET Params) BY <1>4, <1>9, <1>11, <2>1
  <2> QED BY <1>5, <1>10, <1>11, <2>1, <2>2 DEF ListsOK, a0, set
<1>12. CASE a0 \notin DOMAIN lists
  <2>1. lists' = Append(lists, set) /\ a0 = Len(lists) + 1 BY <1>7, <1>8, <1>12
  <2>2. lists' \in Seq(SUBSET Params) BY <1>4, <1>9, <2>1
  <2>3. /\ DOMAIN lists' = 1 .. Len(lists) + 1
        /\ \A a \in DOMAIN lists : lists'[a] = lists[a]
        /\ lists'[Len(lists) + 1] = set
    BY <1>4, <1>5, <1>9, <2>1
  <2> QED BY <1>5, <2>1, <2>2, <2>3 DEF ListsOK, a0, set
<1> QED BY <1>11, <1>12

\* The choices on the path to the new window have parameters in that list.
LEMMA NewPathBacked ==
    ASSUME IInv, windows # <<>>, Top.shows \in Tags, NEW value \in Top.found,
           NEW c \in PathTo(Top, value)
    PROVE  Backed(windows, c, Len(windows) + 1, with_choice(Top, value))
<1> DEFINE n == Len(windows)
           new == [tag |-> Top.shows, value |-> value, owner |-> Top.id]
<1>1. n \in Nat \ {0} /\ n \in DOMAIN windows /\ Top = windows[n] BY TopType DEF IInv
<1>2. new \in with_choice(Top, value) BY DEF with_choice
<1>3. CASE c = [tag |-> Top.shows, value |-> value]
  <2>1. new.tag = c.tag /\ new.value = c.value /\ windows[n].id = new.owner BY <1>1, <1>3
  <2>2. n \in 1 .. (n + 1) - 1 BY <1>1
  <2> QED BY <1>2, <2>1, <2>2 DEF Backed
<1>4. CASE c \in Top.path
  <2>1. Top.param # NULL /\ Top.param \in DOMAIN lists /\ Backed(windows, c, n, lists[Top.param])
    BY <1>1, <1>4 DEF IInv, PathsBacked, PathBacked
  <2>2. lists[Top.param] \subseteq with_choice(Top, value) BY <2>1 DEF with_choice, address
  <2>3. PICK p \in lists[Top.param] : /\ p.tag = c.tag /\ p.value = c.value
                                      /\ \E h \in 1 .. n - 1 : windows[h].id = p.owner
    BY <2>1 DEF Backed
  <2>4. \E h \in 1 .. (n + 1) - 1 : windows[h].id = p.owner BY <1>1, <2>3
  <2> QED BY <2>2, <2>3, <2>4 DEF Backed
<1> QED BY <1>3, <1>4 DEF PathTo

\* So what a search with that list finds matches the path.
LEMMA FoundBelowTop ==
    ASSUME IInv, windows # <<>>, Top.shows \in Tags, NEW value \in Top.found, NEW db,
           NEW tracks \in Found(db, with_choice(Top, value))
    PROVE  tracks \subseteq Matching(db, PathTo(Top, value))
<1>1. ASSUME NEW c \in PathTo(Top, value)
      PROVE  \E p \in with_choice(Top, value) :
                /\ p.tag = c.tag /\ p.value = c.value
                /\ \E i \in DOMAIN windows : windows[i].id = p.owner
  <2>1. Len(windows) \in Nat /\ DOMAIN windows = 1 .. Len(windows) BY TopType DEF IInv
  <2>2. (Len(windows) + 1) - 1 = Len(windows) BY <2>1
  <2> QED BY <2>1, <2>2, NewPathBacked DEF Backed
<1> QED BY <1>1, FoundWithinPath

\* The path to a new window is one of choices.
LEMMA PathType ==
    ASSUME IInv, windows # <<>>, Top.shows \in Tags, NEW value \in Top.found
    PROVE  PathTo(Top, value) \in SUBSET Choices
<1>1. Top.path \in SUBSET Choices /\ value \in Values BY TopType DEF IInv, Windows
<1>2. [tag |-> Top.shows, value |-> value] \in Choices BY <1>1 DEF Choices
<1> QED BY <1>1, <1>2 DEF PathTo

-----------------------------------------------------------------------------
(* Windows                                                                 *)

Grown(ls, ms) == \A a \in DOMAIN ls : a \in DOMAIN ms /\ ls[a] \subseteq ms[a]

\* What backs the path to a window are the windows below it and a list, and the
\* lists only grow.
LEMMA PathKept ==
    ASSUME NEW ws, NEW vs, NEW ls, NEW ms, NEW i \in Nat, vs[i] = ws[i],
           \A h \in 1 .. i - 1 : vs[h] = ws[h],
           Grown(ls, ms), PathBacked(ws, i, ls)
    PROVE  PathBacked(vs, i, ms)
<1>1. CASE ws[i].param = NULL BY <1>1 DEF PathBacked
<1>2. CASE ws[i].param # NULL
  <2>1. ws[i].param \in DOMAIN ls BY <1>2 DEF PathBacked
  <2>2. ws[i].param \in DOMAIN ms /\ ls[ws[i].param] \subseteq ms[ws[i].param] BY <2>1 DEF Grown
  <2>3. ASSUME NEW c \in ws[i].path PROVE Backed(vs, c, i, ms[ws[i].param])
    <3>1. Backed(ws, c, i, ls[ws[i].param]) BY <1>2 DEF PathBacked
    <3>2. PICK p \in ls[ws[i].param] : /\ p.tag = c.tag /\ p.value = c.value
                                       /\ \E h \in 1 .. i - 1 : ws[h].id = p.owner
      BY <3>1 DEF Backed
    <3>3. PICK h \in 1 .. i - 1 : ws[h].id = p.owner BY <3>2
    <3>4. vs[h].id = p.owner BY <3>3
    <3> QED BY <2>2, <3>2, <3>4 DEF Backed
  <2> QED BY <1>2, <2>2, <2>3 DEF PathBacked
<1> QED BY <1>1, <1>2

\* A step that takes no window but the top one away, and nothing from a list,
\* keeps the others as they were.
LEMMA WindowsKept ==
    ASSUME IInv, NEW n \in Nat, n <= Len(windows),
           DOMAIN windows' = 1 .. n, \A i \in 1 .. n : windows'[i] = windows[i],
           Grown(lists, lists')
    PROVE  PathsBacked' /\ AllWithin'
<1>1. Len(windows) \in Nat /\ DOMAIN windows = 1 .. Len(windows) BY DEF IInv, WindowsOK
<1>2. ASSUME NEW i \in 1 .. n PROVE PathBacked(windows', i, lists') /\ Within(windows'[i])
  <2>1. i \in DOMAIN windows /\ i \in Nat BY <1>1
  <2>2. PathBacked(windows, i, lists) /\ Within(windows[i])
    BY <2>1 DEF IInv, PathsBacked, AllWithin
  <2>3. \A h \in 1 .. i - 1 : windows'[h] = windows[h] OBVIOUS
  <2>4. windows'[i] = windows[i] OBVIOUS
  <2>5. PathBacked(windows', i, lists') BY <2>1, <2>2, <2>3, <2>4, PathKept
  <2> QED BY <2>2, <2>4, <2>5
<1> QED BY <1>2 DEF PathsBacked, AllWithin

\* A window may be shown that finds nothing off its path, if its list backs it.
LEMMA Shown ==
    ASSUME IInv, ListsOK', RestOK', Grown(lists, lists'),
           NEW w \in Windows, Show(w), Within(w),
           IF w.param = NULL THEN w.path = {}
           ELSE /\ w.param \in DOMAIN lists'
                /\ \A c \in w.path : Backed(windows, c, Len(windows) + 1, lists'[w.param])
    PROVE  IInv'
<1>1. PICK n : n = Len(windows) OBVIOUS
<1>2. n \in Nat /\ DOMAIN windows = 1 .. n /\ windows \in Seq(Windows)
  BY <1>1 DEF IInv, WindowsOK
<1>3. windows' = Append(windows, w) BY DEF Show
<1>4. /\ windows' \in Seq(Windows) /\ DOMAIN windows' = 1 .. n + 1
      /\ \A i \in 1 .. n : windows'[i] = windows[i]
      /\ windows'[n + 1] = w
  BY <1>1, <1>2, <1>3
<1>5. ASSUME NEW i \in 1 .. n + 1 PROVE PathBacked(windows', i, lists') /\ Within(windows'[i])
  <2>1. CASE i = n + 1
    <3>1. ASSUME w.param # NULL, NEW c \in w.path PROVE Backed(windows', c, i, lists'[w.param])
      <4>1. Backed(windows, c, n + 1, lists'[w.param]) BY <1>1, <3>1
      <4>2. PICK p \in lists'[w.param] : /\ p.tag = c.tag /\ p.value = c.value
                                         /\ \E h \in 1 .. (n + 1) - 1 : windows[h].id = p.owner
        BY <4>1 DEF Backed
      <4>3. PICK h \in 1 .. (n + 1) - 1 : windows[h].id = p.owner BY <4>2
      <4>4. h \in 1 .. n /\ h \in 1 .. i - 1 BY <1>2, <2>1
      <4>5. windows'[h].id = p.owner BY <1>4, <4>3, <4>4
      <4> QED BY <4>2, <4>4, <4>5 DEF Backed
    <3>2. windows'[i] = w BY <1>4, <2>1
    <3> QED BY <3>1, <3>2 DEF PathBacked
  <2>2. CASE i # n + 1
    <3>1. i \in Nat /\ i \in 1 .. n /\ i \in DOMAIN windows BY <1>2, <2>2
    <3>2. PathBacked(windows, i, lists) /\ Within(windows[i])
      BY <3>1 DEF IInv, PathsBacked, AllWithin
    <3>3. \A h \in 1 .. i - 1 : windows'[h] = windows[h] BY <1>2, <1>4, <3>1
    <3>4. windows'[i] = windows[i] BY <1>4, <3>1
    <3>5. PathBacked(windows', i, lists') BY <3>1, <3>2, <3>3, <3>4, PathKept
    <3> QED BY <3>2, <3>4, <3>5
  <2> QED BY <2>1, <2>2
<1> QED BY <1>4, <1>5 DEF IInv, WindowsOK, PathsBacked, AllWithin

-----------------------------------------------------------------------------
(* Steps                                                                   *)

\* What string_list_track_search() returns are names.
LEMMA NamesType ==
    ASSUME RestOK, NEW tag \in Tags, NEW params, NEW names \in string_list_track_search(tag, params)
    PROVE  names \in SUBSET Values
<1>1. CASE remote_ipod = NULL
  <2>1. names = {} BY <1>1 DEF string_list_track_search
  <2> QED BY <2>1
<1>2. CASE remote_ipod # NULL
  <2>1. PICK found \in Found(remote_ipod, params) : names = {remote_ipod[k][tag] : k \in found}
    BY <1>2 DEF string_list_track_search
  <2>2. remote_ipod \in Databases BY <1>2 DEF RestOK
  <2>3. found \subseteq DOMAIN remote_ipod /\ remote_ipod \in Seq([Tags -> Names])
    BY <2>1, <2>2, FoundType
  <2>4. \A k \in found : remote_ipod[k] \in [Tags -> Names] BY <2>3
  <2>5. \A k \in found : remote_ipod[k][tag] \in Names BY <2>4
  <2> QED BY <2>1, <2>5 DEF Values
<1> QED BY <1>1, <1>2

\* A root menu has no path.
LEMMA NewMenuStep ==
    ASSUME IInv, NEW tag \in Tags, new_pp_menu(tag)
    PROVE  IInv'
<1>1. PICK names \in string_list_track_search(tag, {}) :
         Show([id |-> opened, shows |-> tag, param |-> NULL, found |-> names,
               path |-> {}, from |-> remote_ipod])
  BY DEF new_pp_menu
<1> DEFINE w == [id |-> opened, shows |-> tag, param |-> NULL, found |-> names,
                 path |-> {}, from |-> remote_ipod]
<1>2. RestOK /\ lists' = lists /\ remote_ipod' = remote_ipod /\ remote_ipod # NULL
  BY DEF IInv, new_pp_menu
<1>3. names \in SUBSET Values BY <1>2, NamesType
<1>4. w \in Windows BY <1>2, <1>3 DEF Windows, RestOK
<1>5. Within(w)
  <2>1. PICK found \in Found(remote_ipod, {}) : names = {remote_ipod[k][tag] : k \in found}
    BY <1>2 DEF string_list_track_search
  <2>2. found \subseteq Matching(remote_ipod, {}) BY <2>1, FoundWithinPath
  <2>3. tag # "tracks" BY DEF Tags
  <2> QED BY <2>1, <2>2, <2>3 DEF Within
<1>6. Show(w) /\ w.param = NULL /\ w.path = {} BY <1>1
<1>7. ListsOK' /\ Grown(lists, lists') BY <1>2 DEF IInv, ListsOK, Grown
<1>8. RestOK' BY <1>2, <1>6 DEF Show, RestOK
<1> HIDE DEF w
<1> QED BY <1>4, <1>5, <1>6, <1>7, <1>8, Shown

\* What open_artist() and open_album() show was searched with the list that the
\* choice was just added to.
LEMMA SubmenuStep ==
    ASSUME IInv, windows # <<>>, Top.shows \in Tags, NEW value \in Top.found, NEW tag \in Tags,
           open_submenu(tag, value)
    PROVE  IInv'
<1>1. PICK names \in string_list_track_search(tag, with_choice(Top, value)) :
         Show([id |-> opened, shows |-> tag, param |-> address(Top), found |-> names,
               path |-> PathTo(Top, value), from |-> remote_ipod])
  BY DEF open_submenu
<1> DEFINE w == [id |-> opened, shows |-> tag, param |-> address(Top), found |-> names,
                 path |-> PathTo(Top, value), from |-> remote_ipod]
<1>2. RestOK /\ remote_ipod' = remote_ipod /\ add_choice(Top, value) BY DEF IInv, open_submenu
<1>3. /\ ListsOK' /\ Grown(lists, lists')
      /\ address(Top) \in DOMAIN lists' /\ address(Top) \in Nat
      /\ lists'[address(Top)] = with_choice(Top, value)
  BY <1>2, ChoiceAdded DEF Grown
<1>4. names \in SUBSET Values BY <1>2, NamesType
<1>5. PathTo(Top, value) \in SUBSET Choices BY PathType
<1>6. w \in Windows BY <1>2, <1>3, <1>4, <1>5 DEF Windows, RestOK
<1>7. Within(w)
  <2>1. CASE remote_ipod = NULL BY <2>1 DEF Within
  <2>2. CASE remote_ipod # NULL
    <3>1. PICK found \in Found(remote_ipod, with_choice(Top, value)) :
             names = {remote_ipod[k][tag] : k \in found}
      BY <2>2 DEF string_list_track_search
    <3>2. found \subseteq Matching(remote_ipod, PathTo(Top, value)) BY <3>1, FoundBelowTop
    <3>3. tag # "tracks" BY DEF Tags
    <3> QED BY <3>1, <3>2, <3>3 DEF Within
  <2> QED BY <2>1, <2>2
<1>8. \A c \in PathTo(Top, value) : Backed(windows, c, Len(windows) + 1, lists'[address(Top)])
  BY <1>3, NewPathBacked
<1>9. Show(w) /\ w.param = address(Top) /\ w.path = PathTo(Top, value) BY <1>1
<1>10. w.param # NULL BY <1>3, <1>9, MusicMenuAssumption
<1>11. RestOK' BY <1>2, <1>9 DEF Show, RestOK
<1> HIDE DEF w
<1> QED BY <1>3, <1>6, <1>7, <1>8, <1>9, <1>10, <1>11, Shown

\* A step that only adds a choice.
LEMMA ChoiceStep ==
    ASSUME IInv, windows # <<>>, Top.shows \in Tags, NEW value \in Top.found,
           add_choice(Top, value), UNCHANGED <<windows, opened, remote_ipod>>
    PROVE  IInv'
<1>1. ListsOK' /\ Grown(lists, lists') BY ChoiceAdded DEF Grown
<1>2. Len(windows) \in Nat /\ DOMAIN windows = 1 .. Len(windows) BY TopType DEF IInv
<1>3. PathsBacked' /\ AllWithin' BY <1>1, <1>2, WindowsKept
<1> QED BY <1>1, <1>3 DEF IInv, WindowsOK, RestOK

\* The tracks of a Transfer menu were searched in the same way.
LEMMA TransferMenuStep ==
    ASSUME IInv, windows # <<>>, Top.shows \in Tags, NEW value \in Top.found,
           search_and_transfer(value)
    PROVE  IInv'
<1>1. RestOK /\ remote_ipod' = remote_ipod /\ add_choice(Top, value) BY DEF IInv, search_and_transfer
<1>2. CASE remote_ipod = NULL
  <2>1. UNCHANGED <<windows, opened, remote_ipod>> BY <1>2 DEF search_and_transfer
  <2> QED BY <1>1, <2>1, ChoiceStep
<1>3. CASE remote_ipod # NULL
  <2>1. PICK tracks \in Found(remote_ipod, with_choice(Top, value)) :
           Show([id |-> opened, shows |-> "tracks", param |-> address(Top), found |-> tracks,
                 path |-> PathTo(Top, value), from |-> remote_ipod])
    BY <1>3 DEF search_and_transfer
  <2> DEFINE w == [id |-> opened, shows |-> "tracks", param |-> address(Top), found |-> tracks,
                   path |-> PathTo(Top, value), from |-> remote_ipod]
  <2>2. /\ ListsOK' /\ Grown(lists, lists')
        /\ address(Top) \in DOMAIN lists' /\ address(Top) \in Nat
        /\ lists'[address(Top)] = with_choice(Top, value)
    BY <1>1, ChoiceAdded DEF Grown
  <2>3. tracks \in SUBSET Values
    <3>1. remote_ipod \in Databases BY <1>1, <1>3 DEF RestOK
    <3>2. tracks \subseteq Nat BY <2>1, <3>1, FoundType
    <3> QED BY <3>2 DEF Values
  <2>4. PathTo(Top, value) \in SUBSET Choices BY PathType
  <2>5. w \in Windows BY <1>1, <2>2, <2>3, <2>4 DEF Windows, RestOK
  <2>6. tracks \subseteq Matching(remote_ipod, PathTo(Top, value)) BY <2>1, FoundBelowTop
  <2>7. Within(w) BY <2>6 DEF Within
  <2>8. \A c \in PathTo(Top, value) : Backed(windows, c, Len(windows) + 1, lists'[address(Top)])
    BY <2>2, NewPathBacked
  <2>9. Show(w) /\ w.param = address(Top) /\ w.path = PathTo(Top, value) BY <2>1
  <2>10. w.param # NULL BY <2>2, <2>9, MusicMenuAssumption
  <2>11. RestOK' BY <1>1, <2>9 DEF Show, RestOK
  <2> HIDE DEF w
  <2> QED BY <2>2, <2>5, <2>7, <2>8, <2>9, <2>10, <2>11, Shown
<1> QED BY <1>2, <1>3

\* Going back takes the top window away, which backs the path of none below it.
LEMMA CloseStep ==
    ASSUME IInv, close_window
    PROVE  IInv'
<1>1. PICK n : n = Len(windows) - 1 OBVIOUS
<1>2. /\ Len(windows) \in Nat \ {0} /\ DOMAIN windows = 1 .. Len(windows)
      /\ windows \in Seq(Windows) /\ n \in Nat /\ n <= Len(windows)
  BY <1>1, TopType DEF IInv, WindowsOK, close_window
<1>3. windows' = SubSeq(windows, 1, n) /\ lists' = lists BY <1>1 DEF close_window
<1>4. DOMAIN windows' = 1 .. n /\ \A i \in 1 .. n : windows'[i] = windows[i]
  BY <1>1, <1>2, <1>3
<1>5. \A i \in 1 .. n : windows[i] \in Windows BY <1>1, <1>2
<1>6. windows' \in Seq(Windows) BY <1>2, <1>3, <1>4, <1>5
<1>7. Grown(lists, lists') BY <1>3 DEF Grown
<1>8. PathsBacked' /\ AllWithin' BY <1>2, <1>4, <1>7, WindowsKept
<1> QED BY <1>3, <1>6, <1>8 DEF IInv, WindowsOK, ListsOK, RestOK, close_window

\* The database comes and goes, the windows and the lists stay.
LEMMA PollStep ==
    ASSUME IInv, windows' = windows, opened' = opened, lists' = lists,
           remote_ipod' \in Databases \cup {NULL}
    PROVE  IInv'
<1>1. PICK n \in Nat : n = Len(windows) /\ DOMAIN windows = 1 .. n BY DEF IInv, WindowsOK
<1>2. Grown(lists, lists') BY DEF Grown
<1>3. n <= Len(windows) /\ DOMAIN windows' = 1 .. n BY <1>1
<1>4. \A i \in 1 .. n : windows'[i] = windows[i] OBVIOUS
<1>5. PathsBacked' /\ AllWithin' BY <1>2, <1>3, <1>4, WindowsKept
<1> QED BY <1>5 DEF IInv, WindowsOK, ListsOK, RestOK

-----------------------------------------------------------------------------
\* At first there is neither a window nor a list.
LEMMA MenuInit == Init => IInv
<1> SUFFICES ASSUME Init PROVE IInv OBVIOUS
<1>1. windows = <<>> /\ lists = <<>> BY DEF Init
<1>2. WindowsOK BY <1>1 DEF WindowsOK
<1>3. ListsOK BY <1>1 DEF ListsOK
<1>4. RestOK BY DEF Init, RestOK
<1>5. DOMAIN windows = 1 .. 0 BY <1>1
<1>6. PathsBacked BY <1>5 DEF PathsBacked
<1>7. AllWithin BY <1>5 DEF AllWithin
<1> QED BY <1>2, <1>3, <1>4, <1>6, <1>7 DEF IInv

\* No handler breaks the invariant.
LEMMA MenuStep == IInv /\ [Next]_vars => IInv'
<1> SUFFICES ASSUME IInv, [Next]_vars PROVE IInv' OBVIOUS
<1>1. ASSUME NEW tag \in Tags, new_pp_menu(tag) PROVE IInv' BY <1>1, NewMenuStep
<1>2. ASSUME Choose PROVE IInv'
  <2>1. windows # <<>> BY <1>2 DEF Choose
  <2>2. PICK value \in Top.found :
           \/ open_artist(value) \/ open_album(value)
           \/ open_song(value) \/ artist_held_handler(value) \/ album_held_handler(value)
           \/ song_held_handler(value)
    BY <1>2 DEF Choose
  <2>3. CASE open_artist(value) \/ open_album(value)
    <3>1. Top.shows \in Tags /\ \E tag \in Tags : open_submenu(tag, value)
      BY <2>3 DEF open_artist, open_album, Tags
    <3> QED BY <2>1, <2>2, <3>1, SubmenuStep
  <2>4. CASE open_song(value) \/ artist_held_handler(value) \/ album_held_handler(value)
    <3>1. Top.shows \in Tags /\ search_and_transfer(value)
      BY <2>4 DEF open_song, artist_held_handler, album_held_handler, Tags
    <3> QED BY <2>1, <2>2, <3>1, TransferMenuStep
  <2>5. CASE song_held_handler(value)
    <3>1. /\ Top.shows \in Tags /\ add_choice(Top, value)
          /\ UNCHANGED <<windows, opened, remote_ipod>>
      BY <2>5 DEF song_held_handler, Tags
    <3> QED BY <2>1, <2>2, <3>1, ChoiceStep
  <2> QED BY <2>2, <2>3, <2>4, <2>5
<1>3. CASE close_window BY <1>3, CloseStep
<1>4. CASE poll
  <2>1. windows' = windows /\ opened' = opened /\ lists' = lists /\ remote_ipod' \in Databases \cup {NULL}
    BY <1>4 DEF poll
  <2> QED BY <2>1, PollStep
<1>5. CASE UNCHANGED vars
  <2>1. windows' = windows /\ opened' = opened /\ lists' = lists /\ remote_ipod' \in Databases \cup {NULL}
    BY <1>5 DEF vars, IInv, RestOK
  <2> QED BY <2>1, PollStep
<1> QED BY <1>1, <1>2, <1>3, <1>4, <1>5 DEF Next

\* Whatever databases come and go, and however often the user goes back and
\* chooses again, no window shows what its path excludes (list_utils.c:211).
THEOREM ShownWithinPathAlways == Spec => []ShownWithinPath
<1>1. IInv => ShownWithinPath
  BY DEF IInv, AllWithin, Within, ShownWithinPath
<1> QED BY <1>1, MenuInit, MenuStep, PTL DEF Spec

-----------------------------------------------------------------------------
(* Choices in a root menu                                                  *)

\* The lowest window is a root menu, without parameters, and the tracks of the
\* window above it are all that match its path.
RootsOK(ws) ==
    /\ 1 \in DOMAIN ws => ws[1].param = NULL /\ ws[1].path = {}
    /\ 2 \in DOMAIN ws /\ ws[2].shows = "tracks" =>
           ws[2].found = Matching(ws[2].from, ws[2].path)

\* Going back keeps the windows below the one that is closed.
LEMMA RootsBelow ==
    ASSUME NEW ws, NEW vs, RootsOK(ws), NEW n \in Nat, DOMAIN vs = 1 .. n,
           \A i \in 1 .. n : i \in DOMAIN ws /\ vs[i] = ws[i]
    PROVE  RootsOK(vs)
BY DEF RootsOK

\* What a window that is shown must be, by what it is shown on.
LEMMA RootsShown ==
    ASSUME IInv, RootsOK(windows), NEW w \in Windows, Show(w),
           windows = <<>> => w.param = NULL /\ w.path = {},
           Len(windows) = 1 /\ w.shows = "tracks" => w.found = Matching(w.from, w.path)
    PROVE  RootsOK(windows')
<1>1. windows \in Seq(Windows) /\ windows' = Append(windows, w) BY DEF IInv, WindowsOK, Show
<1>2. PICK n : n = Len(windows) OBVIOUS
<1>3. /\ n \in Nat /\ DOMAIN windows = 1 .. n /\ DOMAIN windows' = 1 .. n + 1
      /\ \A i \in 1 .. n : windows'[i] = windows[i]
      /\ windows'[n + 1] = w
  BY <1>1, <1>2
<1>4. n = 0 => windows = <<>> BY <1>1, <1>2, EmptySeq
<1>5. windows'[1].param = NULL /\ windows'[1].path = {}
  <2>1. CASE n = 0 BY <1>3, <1>4, <2>1
  <2>2. CASE n # 0
    <3>1. 1 \in DOMAIN windows /\ windows'[1] = windows[1] BY <1>3, <2>2
    <3> QED BY <3>1 DEF RootsOK
  <2> QED BY <2>1, <2>2
<1>6. ASSUME 2 \in DOMAIN windows', windows'[2].shows = "tracks"
      PROVE  windows'[2].found = Matching(windows'[2].from, windows'[2].path)
  <2>1. CASE n = 1 BY <1>2, <1>3, <1>6, <2>1
  <2>2. CASE n # 1
    <3>1. 2 \in DOMAIN windows /\ windows'[2] = windows[2] BY <1>3, <1>6, <2>2
    <3> QED BY <1>6, <3>1 DEF RootsOK
  <2> QED BY <2>1, <2>2
<1> QED BY <1>5, <1>6 DEF RootsOK

\* A choice in a root menu begins a list, which holds the choice alone; the menu
\* that owns its value is on the screen.  So the search finds all that match.
LEMMA RootChoice ==
    ASSUME IInv, RootsOK(windows), Len(windows) = 1, NEW value, NEW db,
           NEW tracks \in Found(db, with_choice(Top, value))
    PROVE  tracks = Matching(db, PathTo(Top, value))
<1> DEFINE c == [tag |-> Top.shows, value |-> value]
           p == [tag |-> Top.shows, value |-> value, owner |-> Top.id]
<1>1. DOMAIN windows = 1 .. 1 /\ Top = windows[1] /\ 1 \in DOMAIN windows
  BY DEF IInv, WindowsOK, Top
<1>2. Top.param = NULL /\ Top.path = {} BY <1>1 DEF RootsOK
<1>3. address(Top) \notin DOMAIN lists
  <2>1. Len(lists) \in Nat /\ DOMAIN lists = 1 .. Len(lists) BY DEF IInv, ListsOK
  <2>2. Len(lists) + 1 \notin 1 .. Len(lists) BY <2>1
  <2> QED BY <1>2, <2>1, <2>2 DEF address
<1>4. with_choice(Top, value) = {p} BY <1>3 DEF with_choice
<1>5. Live({p}) = {p} BY <1>1 DEF Live
<1>6. tracks = Matching(db, {p}) BY <1>4, <1>5 DEF Found
<1>7. PathTo(Top, value) = {c} BY <1>2 DEF PathTo
<1>8. p.tag = c.tag /\ p.value = c.value OBVIOUS
<1> HIDE DEF p, c
<1>9. Matching(db, {p}) = Matching(db, {c}) BY <1>8 DEF Matching
<1> QED BY <1>6, <1>7, <1>9

\* The handlers keep the lower two windows so.
LEMMA RootsStep ==
    ASSUME IInv, RootsOK(windows), [Next]_vars
    PROVE  RootsOK(windows')
<1>1. Len(windows) \in Nat /\ DOMAIN windows = 1 .. Len(windows) BY DEF IInv, WindowsOK
<1>2. ASSUME windows' = windows PROVE RootsOK(windows') BY <1>2
<1>3. ASSUME NEW tag \in Tags, new_pp_menu(tag) PROVE RootsOK(windows')
  <2>1. PICK names \in string_list_track_search(tag, {}) :
           Show([id |-> opened, shows |-> tag, param |-> NULL, found |-> names,
                 path |-> {}, from |-> remote_ipod])
    BY <1>3 DEF new_pp_menu
  <2> DEFINE w == [id |-> opened, shows |-> tag, param |-> NULL, found |-> names,
                   path |-> {}, from |-> remote_ipod]
  <2>2. RestOK /\ windows = <<>> BY <1>3 DEF IInv, new_pp_menu
  <2>3. names \in SUBSET Values BY <2>2, NamesType
  <2>4. w \in Windows BY <2>2, <2>3 DEF Windows, RestOK
  <2>5. Show(w) /\ w.param = NULL /\ w.path = {} BY <2>1
  <2>6. Len(windows) # 1 BY <2>2
  <2> HIDE DEF w
  <2> QED BY <2>4, <2>5, <2>6, RootsShown
<1>4. ASSUME windows # <<>>, Top.shows \in Tags, NEW value \in Top.found, NEW tag \in Tags,
             open_submenu(tag, value)
      PROVE  RootsOK(windows')
  <2>1. PICK names \in string_list_track_search(tag, with_choice(Top, value)) :
           Show([id |-> opened, shows |-> tag, param |-> address(Top), found |-> names,
                 path |-> PathTo(Top, value), from |-> remote_ipod])
    BY <1>4 DEF open_submenu
  <2> DEFINE w == [id |-> opened, shows |-> tag, param |-> address(Top), found |-> names,
                   path |-> PathTo(Top, value), from |-> remote_ipod]
  <2>2. RestOK /\ add_choice(Top, value) BY <1>4 DEF IInv, open_submenu
  <2>3. names \in SUBSET Values BY <2>2, NamesType
  <2>4. PathTo(Top, value) \in SUBSET Choices /\ address(Top) \in Nat
    BY <1>4, <2>2, PathType, ChoiceAdded
  <2>5. w \in Windows BY <2>2, <2>3, <2>4 DEF Windows, RestOK
  <2>6. Show(w) /\ w.shows # "tracks" BY <2>1 DEF Tags
  <2> HIDE DEF w
  <2> QED BY <1>4, <2>5, <2>6, RootsShown
<1>5. ASSUME windows # <<>>, Top.shows \in Tags, NEW value \in Top.found,
             search_and_transfer(value)
      PROVE  RootsOK(windows')
  <2>1. CASE remote_ipod = NULL BY <1>2, <1>5, <2>1 DEF search_and_transfer
  <2>2. CASE remote_ipod # NULL
    <3>1. PICK tracks \in Found(remote_ipod, with_choice(Top, value)) :
             Show([id |-> opened, shows |-> "tracks", param |-> address(Top), found |-> tracks,
                   path |-> PathTo(Top, value), from |-> remote_ipod])
      BY <1>5, <2>2 DEF search_and_transfer
    <3> DEFINE w == [id |-> opened, shows |-> "tracks", param |-> address(Top), found |-> tracks,
                     path |-> PathTo(Top, value), from |-> remote_ipod]
    <3>2. RestOK /\ add_choice(Top, value) BY <1>5 DEF IInv, search_and_transfer
    <3>3. tracks \in SUBSET Values
      <4>1. remote_ipod \in Databases BY <2>2, <3>2 DEF RestOK
      <4>2. tracks \subseteq Nat BY <3>1, <4>1, FoundType
      <4> QED BY <4>2 DEF Values
    <3>4. PathTo(Top, value) \in SUBSET Choices /\ address(Top) \in Nat
      BY <1>5, <3>2, PathType, ChoiceAdded
    <3>5. w \in Windows BY <3>2, <3>3, <3>4 DEF Windows, RestOK
    <3>6. Len(windows) = 1 => tracks = Matching(remote_ipod, PathTo(Top, value))
      BY <3>1, RootChoice
    <3>7. Show(w) /\ w.found = tracks /\ w.from = remote_ipod /\ w.path = PathTo(Top, value)
      BY <3>1
    <3> HIDE DEF w
    <3> QED BY <1>5, <3>5, <3>6, <3>7, RootsShown
  <2> QED BY <2>1, <2>2
<1>6. ASSUME Choose PROVE RootsOK(windows')
  <2>1. windows # <<>> BY <1>6 DEF Choose
  <2>2. PICK value \in Top.found :
           \/ open_artist(value) \/ open_album(value)
           \/ open_song(value) \/ artist_held_handler(value) \/ album_held_handler(value)
           \/ song_held_handler(value)
    BY <1>6 DEF Choose
  <2>3. CASE open_artist(value) \/ open_album(value)
    <3>1. Top.shows \in Tags /\ \E tag \in Tags : open_submenu(tag, value)
      BY <2>3 DEF open_artist, open_album, Tags
    <3> QED BY <1>4, <2>1, <2>2, <3>1
  <2>4. CASE open_song(value) \/ artist_held_handler(value) \/ album_held_handler(value)
    <3>1. Top.shows \in Tags /\ search_and_transfer(value)
      BY <2>4 DEF open_song, artist_held_handler, album_held_handler, Tags
    <3> QED BY <1>5, <2>1, <2>2, <3>1
  <2>5. CASE song_held_handler(value) BY <1>2, <2>5 DEF song_held_handler
  <2> QED BY <2>2, <2>3, <2>4, <2>5
<1>7. CASE close_window
  <2>1. PICK n : n = Len(windows) - 1 OBVIOUS
  <2>2. /\ Len(windows) \in Nat \ {0} /\ windows \in Seq(Windows) /\ n \in Nat
        /\ windows' = SubSeq(windows, 1, n)
    BY <1>7, <2>1, TopType DEF IInv, WindowsOK, close_window
  <2>3. DOMAIN windows' = 1 .. n /\ \A i \in 1 .. n : i \in DOMAIN windows /\ windows'[i] = windows[i]
    BY <2>1, <2>2
  <2> QED BY <2>2, <2>3, RootsBelow
<1>8. CASE poll \/ UNCHANGED vars BY <1>2, <1>8 DEF poll, vars
<1> QED BY <1>3, <1>6, <1>7, <1>8 DEF Next

\* A choice in a root menu is transferred or removed in full, although other
\* choices were made in that menu before and other lists are about
\* (album.c:29-31, and so in artist.c and song.c).
THEOREM RootChoicesAlwaysExact == Spec => []RootChoicesExact
<1>1. Init => RootsOK(windows)
  <2> SUFFICES ASSUME Init PROVE RootsOK(windows) OBVIOUS
  <2>1. DOMAIN windows = 1 .. 0 BY DEF Init
  <2>2. 1 \notin 1 .. 0 /\ 2 \notin 1 .. 0 OBVIOUS
  <2> QED BY <2>1, <2>2 DEF RootsOK
<1>2. IInv /\ RootsOK(windows) /\ [Next]_vars => RootsOK(windows)'
  <2>1. IInv /\ RootsOK(windows) /\ [Next]_vars => RootsOK(windows') BY RootsStep
  <2> QED BY <2>1 DEF RootsOK, Matching
<1>3. RootsOK(windows) => RootChoicesExact
  BY DEF RootsOK, RootChoicesExact
<1> QED BY <1>1, <1>2, <1>3, MenuInit, MenuStep, PTL DEF Spec
=============================================================================
