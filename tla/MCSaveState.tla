----------------------------- MODULE MCSaveState -----------------------------
(***************************************************************************)
(* Instances of SaveState for TLC.                                         *)
(***************************************************************************)
EXTENDS SaveStateInv, TLC

CONSTANT t1

Command(a, v) == [target |-> t1, action |-> a, tag |-> v]

ThreeCommands ==
  {Command("save", "none"), Command("unsave", "none"), Command("tag", "learned")}

TwoCommands == {Command("save", "none"), Command("unsave", "none")}

RequestSymmetry == Permutations(Requests)
==============================================================================
