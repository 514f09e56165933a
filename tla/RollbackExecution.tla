--------------------------- MODULE RollbackExecution ---------------------------
(***************************************************************************)
(* execute_rollback of rollback_execution.py: the command that reverses a  *)
(* completed apply, group by group and member by member in reverse order,  *)
(* under a write-ahead journal of its own.  It runs against the files and  *)
(* the journal that ApplyExecution leaves, and under the apply journal's   *)
(* lock.  Unlike apply it undoes nothing when it fails: what is restored   *)
(* stays restored, and --resume goes on.                                   *)
(***************************************************************************)
EXTENDS ApplyExecution

VARIABLES
  undo,         \* the rollback's control state; "idle" when none runs
  undoJournal   \* the rollback journal, as _RollbackJournal.state() reads it

rollbackVars == <<vars, undo, undoJournal>>

UndoPhases == {"idle", "group", "scan", "revalidate", "start", "rename", "restored",
               "failed"}

\* The phases inside the try block.
UndoGuarded == {"revalidate", "start", "rename", "restored"}

UndoIdle == [pc |-> "idle", g |-> 0, i |-> 0, pending |-> <<>>, ahead |-> FALSE]

\* g and i are the group and the member the loops are at, pending the members
\* still to be restored; ahead is as in Runs.
UndoRuns ==
  [pc : UndoPhases, g : 0..Len(Contract), i : Nat, pending : Seq(Members),
   ahead : BOOLEAN]

UndoJournals ==
  [file : {"none", "readable", "unreadable"},
   started : SUBSET Members, completed : SUBSET Members, groups : SUBSET GroupIds,
   done : BOOLEAN]

RollbackTypeOK ==
  /\ TypeOK
  /\ undo \in UndoRuns
  /\ undoJournal \in UndoJournals

RollbackInit ==
  /\ Init
  /\ undo = UndoIdle
  /\ undoJournal = [file |-> "none", started |-> {}, completed |-> {}, groups |-> {},
                    done |-> FALSE]

UndoAt(phase) == undo.pc = phase
UndoTo(phase) == [undo EXCEPT !.pc = phase]

-------------------------------------------------------------------------------
(* The rollback journal. *)

UndoReplay(event, m) ==
  CASE event = "member-started" ->
         [undoJournal EXCEPT !.started = @ \cup {m}]
    [] event = "member-completed" ->
         [undoJournal EXCEPT !.completed = @ \cup {m}, !.started = @ \ {m}]
    [] event = "group-completed" ->
         [undoJournal EXCEPT !.groups = @ \cup {undo.g}]
    [] event = "rollback-completed" ->
         [undoJournal EXCEPT !.done = TRUE]
    [] OTHER -> undoJournal

UndoWritten(event, m) ==
  IF undo.ahead \/ undoJournal.file = "unreadable"
  THEN [undoJournal EXCEPT !.file = "unreadable"]
  ELSE [UndoReplay(event, m) EXCEPT !.file = "readable"]

UndoGoesTo(next) ==
  /\ undo' = next
  /\ UNCHANGED undoJournal
  /\ NoFault

UndoLogs(event, m, next) ==
  /\ undoJournal' = UndoWritten(event, m)
  /\ undo' = next
  /\ NoFault

UndoLogFails(event, m, next) ==
  \/ /\ Fault("append")
     /\ UNCHANGED undoJournal
     /\ undo' = next
  \/ /\ Fault("fsync")
     /\ undoJournal' = UndoWritten(event, m)
     /\ undo' = [next EXCEPT !.ahead = next.pc # "idle"]
  \/ /\ Fault("torn")
     /\ undoJournal' = [undoJournal EXCEPT !.file = "unreadable"]
     /\ undo' = next
  \/ /\ DiesWriting
     /\ undoJournal' = [undoJournal EXCEPT !.file = "unreadable"]
     /\ undo' = UndoIdle

UndoIoFails ==
  /\ Fault("io")
  /\ undo' = UndoTo("failed")
  /\ UNCHANGED undoJournal

\* _member_state or _verify_source cannot read a file, and raises: the file
\* counts as changed or as missing.
UndoReadFails(next) ==
  /\ Fault("read")
  /\ undo' = next
  /\ UNCHANGED undoJournal

\* So it does right after the line was written.
UndoLogsUnread(event, m, next) ==
  /\ Fault("read")
  /\ undo' = next
  /\ undoJournal' = UndoWritten(event, m)

-------------------------------------------------------------------------------
(* Starting, resuming, and walking the groups. *)

TakeLockForRollback == lock = "free" /\ lock' = "rollback"

\* _validate_completed_apply_journal, inside the lock.
ApplyCompleted ==
  /\ journal.file = "readable" /\ journal.done
  /\ journal.groups = GroupIds
  /\ journal.completed = Members

\* Mutant: the loop begins one too far.
PastLast == [UndoIdle EXCEPT !.pc = "group", !.g = Len(Contract) + 1]

\* The loop over the groups begins, at the last one.
Last == [UndoIdle EXCEPT !.pc = "group", !.g = Len(Contract)]

\* A new rollback: _verify_all_pending, then rollback-started.
StartRollback ==
  /\ UndoAt("idle") /\ lock = "free" /\ ApplyCompleted /\ undoJournal.file = "none"
  /\ \A m \in Members : Organized(m)
  /\ \/ UndoLogs("rollback-started", {}, Last) /\ TakeLockForRollback
     \/ UndoLogFails("rollback-started", {}, UndoIdle) /\ UNCHANGED lock
  /\ UNCHANGED <<files, run, journal>>

ResumeRollback ==
  /\ UndoAt("idle") /\ ApplyCompleted
  /\ undoJournal.file = "readable" /\ ~undoJournal.done
  /\ undo' = Last
  /\ TakeLockForRollback
  /\ UNCHANGED <<files, run, journal, undoJournal, faults>>

\* A group the rollback journal holds as completed is verified and skipped.
SkipRestoredGroup ==
  /\ UndoAt("group") /\ undo.g \in undoJournal.groups
  /\ \/ UndoGoesTo(IF \A m \in InGroup(undo.g) : Restored(m)
                   THEN [undo EXCEPT !.g = @ - 1] ELSE UndoIdle)
     \/ UndoReadFails(UndoIdle)
  /\ UNCHANGED files

\* The members of the group are walked from the last to the first.
ScanGroup ==
  /\ UndoAt("group") /\ undo.g \in GroupIds \ undoJournal.groups
  /\ UndoGoesTo([undo EXCEPT !.pc = "scan", !.i = Len(Contract[undo.g]), !.pending = <<>>])
  /\ UNCHANGED files

\* Mutant: a started member is never taken as restored.
NoEvidence(m) == FALSE

\* The evidence on which resume accepts a member as restored.
RestoredWithEvidence(m) == m \in undoJournal.started /\ Restored(m)

\* _member_state, compared with what the journal says of the member.
ClassifyMember ==
  /\ UndoAt("scan") /\ undo.i \in 1..Len(Contract[undo.g])
  /\ LET m == Contract[undo.g][undo.i]
         toDo == [undo EXCEPT !.i = @ - 1, !.pending = Append(@, m)]
         done == [undo EXCEPT !.i = @ - 1]
     IN \/ IF m \in undoJournal.completed
           THEN UndoGoesTo(IF Restored(m) THEN done ELSE UndoIdle)
           ELSE IF RestoredWithEvidence(m)
           THEN \/ UndoLogs("member-completed", m, done)
                \/ UndoLogFails("member-completed", m, UndoIdle)
           ELSE UndoGoesTo(IF Organized(m) THEN toDo ELSE UndoIdle)
        \/ UndoReadFails(UndoIdle)
  /\ UNCHANGED files

BeginRollbackGroup ==
  /\ UndoAt("scan") /\ undo.i = 0
  /\ \/ UndoLogs("group-started", {}, UndoTo("revalidate"))
     \/ UndoLogFails("group-started", {}, UndoIdle)
  /\ UNCHANGED files

\* Every group is done: _verify_all_restored, then rollback-completed.
FinishRollback ==
  /\ UndoAt("group") /\ undo.g = 0
  /\ \/ IF \A m \in Members : Restored(m)
        THEN \/ UndoLogs("rollback-completed", {}, UndoIdle)
             \/ UndoLogFails("rollback-completed", {}, UndoIdle)
        ELSE UndoGoesTo(UndoIdle)
     \/ UndoReadFails(UndoIdle)
  /\ UNCHANGED files

-------------------------------------------------------------------------------
(* Restoring the members of a group. *)

RevalidateRollbackGroup ==
  /\ UndoAt("revalidate")
  /\ \/ UndoGoesTo(IF \A k \in 1..Len(undo.pending) : Organized(undo.pending[k])
                   THEN [undo EXCEPT !.pc = "start", !.i = 1] ELSE UndoTo("failed"))
     \/ UndoReadFails(UndoTo("failed"))
  /\ UNCHANGED files

Announce(m, next) ==
  \/ UndoLogs("member-started", m, next)
  \/ UndoLogFails("member-started", m, UndoTo("failed"))
  \/ UndoLogsUnread("member-started", m, UndoTo("failed"))

\* member-started, then the last look at both paths.
StartRestore ==
  /\ UndoAt("start") /\ undo.i \in 1..Len(undo.pending)
  /\ LET m == undo.pending[undo.i]
     IN Announce(m, IF Organized(m) THEN UndoTo("rename") ELSE UndoTo("failed"))
  /\ UNCHANGED files

RenameBack ==
  /\ UndoAt("rename")
  /\ LET m == undo.pending[undo.i]
     IN \/ MoveBack(m) /\ UndoGoesTo(UndoTo("restored"))
        \/ ~CanMoveBack(m) /\ UndoGoesTo(UndoTo("failed")) /\ UNCHANGED files
        \/ UndoIoFails /\ UNCHANGED files

\* _verify_source, then member-completed.
RecordRestore ==
  /\ UndoAt("restored")
  /\ LET m == undo.pending[undo.i]
     IN \/ IF Restored(m)
           THEN \/ UndoLogs("member-completed", m, [undo EXCEPT !.pc = "start", !.i = @ + 1])
                \/ UndoLogFails("member-completed", m, UndoTo("failed"))
           ELSE UndoGoesTo(UndoTo("failed"))
        \/ UndoReadFails(UndoTo("failed"))
  /\ UNCHANGED files

CompleteRollbackGroup ==
  /\ UndoAt("start") /\ undo.i = Len(undo.pending) + 1
  /\ \/ UndoLogs("group-completed", {}, [undo EXCEPT !.pc = "group", !.g = @ - 1])
     \/ UndoLogFails("group-completed", {}, UndoTo("failed"))
  /\ UNCHANGED files

\* Mutant: the rollback goes on with the next group.
GoOnAfterFailure ==
  /\ UndoAt("failed")
  /\ UndoLogs("group-failed", {}, [undo EXCEPT !.pc = "group", !.g = @ - 1])
  /\ UNCHANGED files

\* group-failed is written if it can be, and the command raises.
FailRollbackGroup ==
  /\ UndoAt("failed")
  /\ UndoLogs("group-failed", {}, UndoIdle) \/ UndoLogFails("group-failed", {}, UndoIdle)
  /\ UNCHANGED files

-------------------------------------------------------------------------------

CrashRollback ==
  /\ Fault("crash")
  /\ undo' = UndoIdle
  /\ UNCHANGED <<files, undoJournal>>

InterruptRollback ==
  /\ Fault("interrupt")
  /\ undo' = IF undo.pc \in UndoGuarded THEN UndoTo("failed") ELSE UndoIdle
  /\ UNCHANGED <<files, undoJournal>>

RollbackStep ==
  /\ ~UndoAt("idle")
  /\ \/ SkipRestoredGroup \/ ScanGroup \/ ClassifyMember \/ BeginRollbackGroup
     \/ RevalidateRollbackGroup \/ StartRestore \/ RenameBack \/ RecordRestore
     \/ CompleteRollbackGroup \/ FailRollbackGroup \/ FinishRollback
     \/ CrashRollback \/ InterruptRollback
  /\ IF undo'.pc = "idle" THEN ReleaseLock ELSE UNCHANGED lock
  /\ UNCHANGED <<run, journal>>

\* A step of apply, beside the rollback.
Applying(action) == action /\ UNCHANGED <<undo, undoJournal>>

Meddling == Applying(Interfere)

RollbackNext ==
  Applying(Command) \/ StartRollback \/ ResumeRollback \/ RollbackStep \/ Meddling

RollbackSpec == RollbackInit /\ [][RollbackNext]_rollbackVars

\* The operator starts and resumes the apply until it has completed.  A
\* rollback may never be asked for; once started, it is resumed until done.
FairRollbackSpec ==
  /\ RollbackSpec
  /\ WF_rollbackVars(Applying(Step)) /\ WF_rollbackVars(Applying(Start))
  /\ WF_rollbackVars(Applying(Resume))
  /\ WF_rollbackVars(RollbackStep) /\ WF_rollbackVars(ResumeRollback)

-------------------------------------------------------------------------------
(* What execute_rollback promises. *)

\* No other program has changed the library.
Untouched == "meddle" \notin faults.struck

\* Through every failure and resume of apply and rollback, each file exists
\* once, at one of its two paths.
RollbackConserves == Untouched => Conservation

\* The library passes back through the states of the apply: the groups are
\* restored from the last to the first, the members of a group likewise.
ReverseOrder ==
  journal.done /\ Untouched =>
    \E g \in GroupIds : \E n \in 0..Len(Contract[g]) :
      /\ \A h \in GroupIds : (h < g => AtDestination(h)) /\ (h > g => AtSource(h))
      /\ \A k \in 1..Len(Contract[g]) : dst[Contract[g][k]] = "media" <=> k <= n

\* Once faults have ceased, resume completes the rollback whenever its journal
\* can be read and nobody else has changed the library.
RollbackResumes ==
  [](UndoAt("idle") /\ FaultsCeased /\ Untouched /\ undoJournal.file = "readable"
       => <>undoJournal.done)
===============================================================================
