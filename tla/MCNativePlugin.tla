--------------------------- MODULE MCNativePlugin ---------------------------
(***************************************************************************)
(* NativePlugin with a pool of three voices, two keys and blocks of two    *)
(* frames; with and without a bank and an SFZ library, whose names repeat  *)
(* and end in numbers.                                                     *)
(***************************************************************************)
EXTENDS NativePlugin

Drums == [bank |-> 128, program |-> 0, drum |-> TRUE]
Organ == [bank |-> 1, program |-> 2, drum |-> FALSE]
TheBanks == {<<Drums, Organ>>}

File(path, extension, name, opens) ==
  [path |-> path, extension |-> extension, name |-> name, opens |-> opens, damper |-> FALSE]
Root(files, folders) == [label |-> "Library", files |-> files, folders |-> folders]
Empty == Root({}, <<>>)

\* Repeats in one folder, a broken file, a text file, a hidden folder, and a
\* numbered name that meets a numbered repeat.
Pianos == Root({File(1, "sfz", <<"piano">>, TRUE), File(3, "sfz", <<"piano">>, TRUE),
                File(2, "sfz", <<"piano">>, FALSE), File(4, "txt", <<"readme">>, TRUE)},
               <<[label |-> "cache", hidden |-> TRUE,
                  files |-> {File(1, "sfz", <<"piano">>, TRUE)}],
                 [label |-> "Library", hidden |-> FALSE,
                  files |-> {File(1, "nki", <<"piano", "2">>, TRUE)}]>>)
TheRoots == {Empty, Pianos}

NoteSymmetry == Permutations(Notes)

TheFrameLists == {<<>>, <<0>>, <<2>>, <<1, 0>>, <<0, 1>>}

Gone == <<"dls", 9, 9>>
TheStates ==
  {[version |-> v, gain |-> "soft", id |-> id, layer |-> layer] :
     v \in {3, 4}, id \in {Gone, <<"dls", 1, 2>>, <<"sfz", <<"Library", "piano", "2">>>>},
     layer \in {<<>>, <<1, 2>>, <<9, 9>>}}
  \cup {[version |-> 4, gain |-> "invalid", id |-> <<"dls", 1, 2>>, layer |-> <<>>]}
=============================================================================
