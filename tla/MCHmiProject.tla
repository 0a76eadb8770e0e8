---------------------------- MODULE MCHmiProject ----------------------------
(***************************************************************************)
(* Model-checking instance of HmiProject with three backup files: one with *)
(* both screens, one whose start screen is not among its screens, and one  *)
(* with a duplicated id.                                                   *)
(***************************************************************************)
EXTENDS HmiProject

CONSTANTS s1, s2, c1, c2

Row(id, rev, c) == [id |-> id, revision |-> rev, content |-> c]

Files ==
    {[screens |-> <<Row(s2, 1, c1), Row(s1, 2, c2)>>,
      start_screen |-> s1, revision |-> 1],
     [screens |-> <<Row(s1, 1, c2)>>, start_screen |-> s2, revision |-> 2],
     [screens |-> <<Row(s1, 1, c1), Row(s1, 2, c2)>>, start_screen |-> s1,
      revision |-> 0]}
=============================================================================
