--------------------------- MODULE QuarantineRestore ---------------------------
(***************************************************************************)
(* execute_quarantine_restore of quarantine_execution.py: the command that *)
(* takes a completed quarantine back, group by group and loser by loser in *)
(* reverse order, under a journal of its own and under the lock of the     *)
(* quarantine journal, which keeps the quarantine itself from running.     *)
(***************************************************************************)
EXTENDS QuarantineExecution

VARIABLES
  back,         \* the restore's control state; "idle" when none runs
  backJournal   \* the restore journal, as _RestoreJournal.state() reads it

restoreVars == <<quarantineVars, back, backJournal>>

BackPhases == {"idle", "group", "scan", "start", "rename", "restored", "failed"}

\* The phases inside the try block.
BackGuarded == {"start", "rename", "restored"}

BackIdle == [pc |-> "idle", g |-> 0, i |-> 0, pending |-> <<>>, ahead |-> FALSE]

BackRuns ==
  [pc : BackPhases, g : 0..Len(Plan), i : Nat, pending : Seq(Members), ahead : BOOLEAN]

RestoreTypeOK ==
  /\ QuarantineTypeOK
  /\ back \in BackRuns
  /\ backJournal \in Journals

RestoreInit ==
  /\ QuarantineInit
  /\ back = BackIdle
  /\ backJournal = NoJournal

BackAt(phase) == back.pc = phase
BackTo(phase) == [back EXCEPT !.pc = phase]

\* _restore_state: whatever _member_state names, and is not "quarantined",
\* counts as restored, a file that is absent from both places included.
StillQuarantined(m) == Quarantined(m)
CountsAsRestored(m) == Pending(m) \/ AlreadyAbsent(m)

-------------------------------------------------------------------------------
(* The restore journal, which is written as the quarantine journal is. *)

BackGoesTo(next) ==
  /\ back' = next
  /\ UNCHANGED backJournal
  /\ NoFault

BackLogs(event, m, next) ==
  /\ backJournal' = Written(backJournal, back, event, m)
  /\ back' = next
  /\ NoFault

BackLogFails(event, m, next) ==
  \/ /\ Fault("append")
     /\ UNCHANGED backJournal
     /\ back' = next
  \/ /\ Fault("fsync")
     /\ backJournal' = Written(backJournal, back, event, m)
     /\ back' = [next EXCEPT !.ahead = next.pc # "idle"]
  \/ /\ Fault("torn")
     /\ backJournal' = [backJournal EXCEPT !.file = "unreadable"]
     /\ back' = next
  \/ /\ DiesWriting
     /\ backJournal' = [backJournal EXCEPT !.file = "unreadable"]
     /\ back' = BackIdle

\* A call on the filesystem fails, as it does in the quarantine; a loser that a look
\* finds absent counts as restored.
BackIoFails(kind, next) ==
  /\ Fault(kind)
  /\ back' = next
  /\ UNCHANGED backJournal

BackLogsAmid(kind, event, m, next) ==
  /\ Fault(kind)
  /\ backJournal' = Written(backJournal, back, event, m)
  /\ back' = next

AllRestored(losers) == \A m \in losers : CountsAsRestored(m)
AllButOne(losers) == \E m \in losers : AllRestored(losers \ {m})

-------------------------------------------------------------------------------
(* Starting, resuming, and walking the groups. *)

\* _validate_completed_quarantine_journal, inside the lock.
QuarantineCompleted ==
  /\ journal.file = "readable" /\ journal.done
  /\ journal.groups = GroupIds
  /\ journal.completed = Members

\* Mutant: the loop begins one too far.
PastLast == [BackIdle EXCEPT !.pc = "group", !.g = Len(Plan) + 1]

Last == [BackIdle EXCEPT !.pc = "group", !.g = Len(Plan)]

\* A new journal: every loser must still be in quarantine, then restore-started.
StartRestore ==
  /\ BackAt("idle") /\ At("idle") /\ QuarantineCompleted /\ backJournal.file = "none"
  /\ \A m \in Members : StillQuarantined(m)
  /\ BackLogs("restore-started", {}, Last) \/ BackLogFails("restore-started", {}, BackIdle)

ResumeRestore ==
  /\ BackAt("idle") /\ At("idle") /\ QuarantineCompleted
  /\ backJournal.file = "readable" /\ ~backJournal.done
  /\ BackGoesTo(Last)

SkipRestoredGroup ==
  /\ BackAt("group") /\ back.g \in backJournal.groups
  /\ LET next == [back EXCEPT !.g = @ - 1]
     IN \/ BackGoesTo(IF AllRestored(InGroup(back.g)) THEN next ELSE BackIdle)
        \/ BackIoFails("read", BackIdle)
        \/ AllButOne(InGroup(back.g)) /\ BackIoFails("look", next)
  /\ UNCHANGED files

ScanRestoreGroup ==
  /\ BackAt("group") /\ back.g \in GroupIds \ backJournal.groups
  /\ BackGoesTo([back EXCEPT !.pc = "scan", !.i = Len(Plan[back.g]), !.pending = <<>>])
  /\ UNCHANGED files

\* Mutants: a started loser is never taken as restored; or always.
NoEvidence(m) == FALSE
StartedIsRestored(m) == m \in backJournal.started

\* The evidence on which resume accepts a loser as restored.
RestoredWithEvidence(m) == m \in backJournal.started /\ CountsAsRestored(m)

ClassifyLoser ==
  /\ BackAt("scan") /\ back.i \in 1..Len(Plan[back.g])
  /\ LET m == Plan[back.g][back.i]
         done == [back EXCEPT !.i = @ - 1]
         toDo == [back EXCEPT !.i = @ - 1, !.pending = Append(@, m)]
     IN \/ BackIoFails("read", BackIdle)
        \/ /\ m \in backJournal.completed
           /\ \/ BackGoesTo(IF CountsAsRestored(m) THEN done ELSE BackIdle)
              \/ BackIoFails("look", done)
        \/ /\ m \in backJournal.started \ backJournal.completed
           /\ BackLogsAmid("look", "member-completed", m, done)
        \/ /\ m \notin backJournal.completed /\ RestoredWithEvidence(m)
           /\ \/ BackLogs("member-completed", m, done)
              \/ BackLogFails("member-completed", m, BackIdle)
        \/ /\ m \notin backJournal.completed /\ ~RestoredWithEvidence(m)
           /\ BackGoesTo(IF StillQuarantined(m) THEN toDo ELSE BackIdle)
  /\ UNCHANGED files

BeginRestoreGroup ==
  /\ BackAt("scan") /\ back.i = 0
  /\ \/ BackLogs("group-started", {}, [back EXCEPT !.pc = "start", !.i = 1])
     \/ BackLogFails("group-started", {}, BackIdle)
  /\ UNCHANGED files

\* Every group is done: _restore_all_state, then restore-completed.
FinishRestore ==
  /\ BackAt("group") /\ back.g = 0
  /\ \/ /\ AllRestored(Members)
        /\ BackLogs("completed", {}, BackIdle) \/ BackLogFails("completed", {}, BackIdle)
     \/ ~AllRestored(Members) /\ BackGoesTo(BackIdle)
     \/ BackIoFails("read", BackIdle)
     \/ AllButOne(Members) /\ BackLogsAmid("look", "completed", {}, BackIdle)
  /\ UNCHANGED files

-------------------------------------------------------------------------------
(* Restoring the losers of a group. *)

AnnounceRestore(m) ==
  \/ BackLogs("member-started", m, BackTo("rename"))
  \/ BackLogFails("member-started", m, BackTo("failed"))

\* The last look at both paths, and only then member-started.
PrepareRestore ==
  /\ BackAt("start") /\ back.i \in 1..Len(back.pending)
  /\ LET m == back.pending[back.i]
     IN \/ StillQuarantined(m) /\ AnnounceRestore(m)
        \/ ~StillQuarantined(m) /\ BackGoesTo(BackTo("failed"))
        \/ BackIoFails("read", BackTo("failed"))
  /\ UNCHANGED files

RenameRestored ==
  /\ BackAt("rename")
  /\ LET m == back.pending[back.i]
     IN \/ MoveBack(m) /\ BackGoesTo(BackTo("restored"))
        \/ ~CanMoveBack(m) /\ BackGoesTo(BackTo("failed")) /\ UNCHANGED files
        \/ BackIoFails("io", BackTo("failed")) /\ UNCHANGED files

RecordRestored ==
  /\ BackAt("restored")
  /\ LET m == back.pending[back.i]
     IN IF CountsAsRestored(m)
        THEN \/ BackLogs("member-completed", m, [back EXCEPT !.pc = "start", !.i = @ + 1])
             \/ BackLogFails("member-completed", m, BackTo("failed"))
             \/ BackIoFails("read", BackTo("failed"))
        ELSE BackGoesTo(BackTo("failed"))
  /\ UNCHANGED files

CompleteRestoreGroup ==
  /\ BackAt("start") /\ back.i = Len(back.pending) + 1
  /\ \/ BackLogs("group-completed", {}, [back EXCEPT !.pc = "group", !.g = @ - 1])
     \/ BackLogFails("group-completed", {}, BackTo("failed"))
  /\ UNCHANGED files

\* Mutant: the restore goes on with the next group.
GoOnAfterFailure ==
  /\ BackAt("failed")
  /\ BackLogs("group-failed", {}, [back EXCEPT !.pc = "group", !.g = @ - 1])
  /\ UNCHANGED files

\* group-failed is written if it can be, and the command raises.
FailRestoreGroup ==
  /\ BackAt("failed")
  /\ BackLogs("group-failed", {}, BackIdle) \/ BackLogFails("group-failed", {}, BackIdle)
  /\ UNCHANGED files

CrashRestore ==
  /\ Fault("crash")
  /\ back' = BackIdle
  /\ UNCHANGED <<files, backJournal>>

InterruptRestore ==
  /\ Fault("interrupt")
  /\ back' = IF back.pc \in BackGuarded THEN BackTo("failed") ELSE BackIdle
  /\ UNCHANGED <<files, backJournal>>

-------------------------------------------------------------------------------

BeginRestore == (StartRestore \/ ResumeRestore) /\ UNCHANGED <<files, winner, run, journal>>

RestoreStep ==
  /\ ~BackAt("idle")
  /\ \/ SkipRestoredGroup \/ ScanRestoreGroup \/ ClassifyLoser \/ BeginRestoreGroup
     \/ PrepareRestore \/ RenameRestored \/ RecordRestored \/ CompleteRestoreGroup
     \/ FailRestoreGroup \/ FinishRestore
     \/ CrashRestore \/ InterruptRestore
  /\ UNCHANGED <<winner, run, journal>>

\* The quarantine command, which a running restore locks out.
Quarantining ==
  /\ BackAt("idle")
  /\ Begin \/ QuarantineStep
  /\ UNCHANGED <<back, backJournal>>

Interfering == Interfere /\ UNCHANGED <<back, backJournal>>

RestoreNext == Quarantining \/ BeginRestore \/ RestoreStep \/ Interfering

RestoreSpec == RestoreInit /\ [][RestoreNext]_restoreVars

\* The quarantine is resumed until it has completed.  A restore may never be
\* asked for; once started, it is resumed until done.
FairRestoreSpec ==
  /\ RestoreSpec
  /\ WF_restoreVars(Quarantining)
  /\ WF_restoreVars(RestoreStep)
  /\ WF_restoreVars(ResumeRestore /\ UNCHANGED <<files, winner, run, journal>>)

-------------------------------------------------------------------------------
(* What execute_quarantine_restore promises. *)

RestoredAsRecorded ==
  /\ \A m \in backJournal.completed : src[m] = "media"
  /\ \A g \in backJournal.groups : InPlace(g)
  /\ backJournal.done => \A m \in Members : src[m] = "media"

\* A loser, a group or a run that the restore journal holds as restored is back
\* in the library, whatever failed before and since, unless somebody deleted a file
\* or a look at one found nothing: then what is still in quarantine may count as restored.
RestoreRecordsStand == NothingDeleted /\ NothingMissed => RestoredAsRecorded

\* The groups come back from the last to the first, and the losers of a group
\* likewise: the library passes back through the states of the quarantine, unless a
\* file is deleted or taken for absent.
RestoreReverseOrder ==
  journal.done /\ NothingDeleted /\ NothingMissed =>
    \E g \in GroupIds : \E n \in 0..Len(Plan[g]) :
      /\ \A h \in GroupIds : (h < g => InQuarantine(h)) /\ (h > g => InPlace(h))
      /\ \A k \in 1..Len(Plan[g]) : dst[Plan[g][k]] = "media" <=> k <= n

\* Until it is taken back, a quarantine is a reorganization (Reorganizes), although
\* a restore may be asked for at any time and its journal may fail to be created.
ReorganizesUntilRestored ==
  /\ Abstract!ReorganizationInit
  /\ [][backJournal'.file = "none" /\ NothingMissed
          => Abstract!ReorganizationNext]_(Abstract!reorganizationVars)

\* Once faults have ceased, --resume completes the restore whenever its journal
\* can be read and holds as restored what is, and nobody deleted a file that it has
\* yet to restore.
RestoreResumes ==
  [](/\ BackAt("idle") /\ FaultsCeased /\ backJournal.file = "readable"
     /\ NothingDeleted /\ RestoredAsRecorded
     => <>backJournal.done)
===============================================================================
