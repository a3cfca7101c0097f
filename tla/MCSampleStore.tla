--------------------------- MODULE MCSampleStore ---------------------------
(* SampleStore on libraries of two instruments.                            *)
EXTENDS SampleStore

CONSTANTS long, short

(* Two samples of one name in two folders, the second shared by both       *)
(* instruments. *)
SharedSample ==
  << [root |-> <<"lib">>, default_path |-> <<>>,
      samples |-> << <<"soft", "/", "c4">>, <<"hard", "/", "c4">> >>],
     [root |-> <<"lib">>, default_path |-> <<>>,
      samples |-> << <<"hard", "\\", "c4">> >>] >>

(* Two instruments that name their folders in default_path. *)
DefaultPaths ==
  << [root |-> <<"lib">>, default_path |-> <<"soft", "/">>,
      samples |-> << <<"c4">> >>],
     [root |-> <<"lib">>, default_path |-> <<"hard", "/">>,
      samples |-> << <<"c4">> >>] >>

BlocksOf == [w \in Waves |-> IF w \in Looped THEN 2 ELSE 1]
=============================================================================
