-------------------------- MODULE MCQuarantineRestore --------------------------
(***************************************************************************)
(* A small quarantine for TLC: two duplicate groups that lose a video and  *)
(* its subtitle each, quarantined into a directory each.                   *)
(***************************************************************************)
EXTENDS QuarantineRestore

CONSTANTS video, subtitle, sequel, sequelSubtitle, release1, release2

MCMembers == {video, subtitle, sequel, sequelSubtitle}
MCDirs == {release1, release2}
MCParent == [m \in MCMembers |-> IF m \in {video, subtitle} THEN release1 ELSE release2]
MCPlan == <<<<video, subtitle>>, <<sequel, sequelSubtitle>>>>
===============================================================================
