--------------------------- MODULE MCStreamWindow ---------------------------
(***************************************************************************)
(* StreamWindow on a head of three frames, a history of four and a window  *)
(* of seven.                                                               *)
(***************************************************************************)
EXTENDS StreamWindow
=============================================================================
