---------------------------- MODULE Reorganization ----------------------------
(***************************************************************************)
(* What the executors that move files promise, whatever their journals,    *)
(* loops and handlers look like.  Groups of files move one after another.  *)
(* Each is settled when all of it has moved; one that is not settled may   *)
(* be moved back, file by file, and only the last group touched may be in  *)
(* part at its new place.  When all groups are settled the work may be     *)
(* finished, and then no file moves any more.                              *)
(*                                                                         *)
(* An executor may be interrupted just after it has settled a group, so    *)
(* that it takes it back: from then on settling binds nothing ("trusted"   *)
(* is FALSE), but the order of the groups does.                            *)
(***************************************************************************)
EXTENDS Naturals, Sequences

CONSTANT
  Groups    \* the groups in order, each a sequence of files

VARIABLES
  moved,    \* the files at their new place
  gone,     \* the files that somebody deleted
  settled,  \* the groups that are settled
  finished, \* whether all of the work is
  trusted   \* whether settled groups stay

reorganizationVars == <<moved, gone, settled, finished, trusted>>

GroupIds == 1..Len(Groups)
FilesOf(g) == {Groups[g][k] : k \in 1..Len(Groups[g])}
AllFiles == UNION {FilesOf(g) : g \in GroupIds}
Through(g) == FilesOf(g) \subseteq moved \cup gone

ReorganizationInit ==
  /\ moved = {} /\ gone = {} /\ settled = {}
  /\ finished = FALSE /\ trusted = TRUE

\* Trust may be lost with any step, and does not come back.
MayLoseTrust == trusted' \in {trusted, FALSE}

\* A file moves when the groups before its own have.
Move(g, f) ==
  /\ ~finished /\ f \in FilesOf(g) \ (moved \cup gone)
  /\ \A h \in GroupIds : h < g => Through(h)
  /\ moved' = moved \cup {f}
  /\ MayLoseTrust /\ UNCHANGED <<gone, settled, finished>>

\* A file moves back as long as no group after its own was touched.
Back(g, f) ==
  /\ ~finished /\ f \in FilesOf(g) \cap moved
  /\ \A h \in GroupIds : h > g => FilesOf(h) \cap moved = {}
  /\ trusted => g \notin settled
  /\ moved' = moved \ {f}
  /\ MayLoseTrust /\ UNCHANGED <<gone, settled, finished>>

Settle(g) ==
  /\ ~finished /\ Through(g)
  /\ settled' = settled \cup {g}
  /\ MayLoseTrust /\ UNCHANGED <<moved, gone, finished>>

Finish ==
  /\ \A g \in GroupIds : Through(g)
  /\ trusted => settled = GroupIds
  /\ finished' = TRUE
  /\ MayLoseTrust /\ UNCHANGED <<moved, gone, settled>>

LoseTrust == trusted' = FALSE /\ UNCHANGED <<moved, gone, settled, finished>>

\* Somebody deletes a file.
Delete(f) ==
  /\ gone' = gone \cup {f} /\ moved' = moved \ {f}
  /\ UNCHANGED <<settled, finished, trusted>>

ReorganizationNext ==
  \/ \E g \in GroupIds : Settle(g) \/ \E f \in FilesOf(g) : Move(g, f) \/ Back(g, f)
  \/ Finish \/ LoseTrust
  \/ \E f \in AllFiles : Delete(f)

ReorganizationSpec == ReorganizationInit /\ [][ReorganizationNext]_reorganizationVars
===============================================================================
