--------------------------- MODULE MCApplyExecution ---------------------------
(***************************************************************************)
(* A small contract for TLC: two episodes with a subtitle each, in a       *)
(* directory each.                                                         *)
(***************************************************************************)
EXTENDS ApplyExecution

CONSTANTS video, subtitle, sequel, sequelSubtitle, season1, season2

MCMembers == {video, subtitle, sequel, sequelSubtitle}
MCDirs == {season1, season2}
MCParent == [m \in MCMembers |-> IF m \in {video, subtitle} THEN season1 ELSE season2]
MCContract == <<<<video, subtitle>>, <<sequel, sequelSubtitle>>>>
===============================================================================
