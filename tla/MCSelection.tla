---------------------------- MODULE MCSelection -----------------------------
(***************************************************************************)
(* An instance of Selection: three issues and a pull request among them,   *)
(* pages of two, two pickup labels and one priority label.                 *)
(***************************************************************************)
EXTENDS Selection

TwoPickups == <<"night", "fixowl">>
OnePriority == <<"high">>

Lot(carried, at, pr, recorded) == [labels |-> carried, tip |-> at, pr |-> pr, signal |-> recorded]

SomeLots ==
  {Lot({"night"}, "none", FALSE, "none"), Lot({"fixowl"}, "fixowl", FALSE, "none"),
   Lot({"night", "fixowl", "high"}, "none", FALSE, "none"),
   Lot({"night", "high"}, "fixowl", TRUE, "none"), Lot({"night"}, "human", FALSE, "none"),
   Lot({"fixowl", "high"}, "none", FALSE, "fixed")}
=============================================================================
