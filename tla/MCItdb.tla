------------------------------- MODULE MCItdb -------------------------------
(***************************************************************************)
(* What iTunes may have left: a database of version 4.9 with library       *)
(* indices, a smart playlist, a track with chapters and podcasts of its    *)
(* own, and one from before 4.8.  iTunes writes longer headers.            *)
(***************************************************************************)
EXTENDS Itdb

ITunes == INSTANCE Atoms WITH HeaderPad <- 2
ITunesFile(tree) == ITunes!write_mhbd(tree)

Raw(type, cells) == [type |-> type, sort |-> 0, cells |-> cells]
Index(sort, cells) == [type |-> LIBRARYPLAYLIST_INDEX, sort |-> sort, cells |-> cells]

Song(id, title, name, more) ==
    [new_mhit EXCEPT !.trackID = id, !.playCount = 2, !.addedTime = MAC_EPOCH_OFFSET + 7,
                     !.mhods = <<new_mhod_string(LOCATION, <<Colon, name, MP3>>),
                                 new_mhod_string(TITLE, title)>> \o more]

Master(mhods, ids) ==
    [new_mhyp(1, 500, 1, <<new_mhod_string(TITLE, <<3>>)>> \o mhods)
        EXCEPT !.mhips = [i \in DOMAIN ids |-> new_mhip(ids[i])]]
Smart == new_mhyp(0, 502, 1, <<Raw(SMARTPLAYLIST_PREF, <<7, 8>>), new_mhod_string(TITLE, <<4>>)>>)

Store(index, tag, children) == [index |-> index, child |-> [tag |-> tag, children |-> children]]

Newer ==
    [version |-> VERSION4_9,
     children |-> <<
        Store(1, MHLT, <<[Song(1000, <<2>>, 11, <<Raw(CHAPTER, <<9, 9, 9>>)>>)
                             EXCEPT !.sampleCount = 5]>>),
        Store(3, MHLP, <<Master(<<>>, <<>>)>>),
        Store(2, MHLP, <<Master(<<Index(3, <<0>>), Index(5, <<0>>)>>, <<1000>>), Smart>>)>>]

Older ==
    [version |-> VERSION4_8 - 2,
     children |-> <<Store(1, MHLT, <<Song(1000, <<1, 2>>, 12, <<>>)>>),
                    Store(2, MHLP, <<Master(<<>>, <<1000>>)>>)>>]

Trees == {Newer, Older}
SomeTexts == {<<1>>}
NoPresets == NULL
OnePreset == <<[name |-> <<6>>, gain |-> 3]>>
=============================================================================
