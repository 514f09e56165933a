------------------------ MODULE RollbackExecutionProofs ------------------------
(***************************************************************************)
(* Proofs about RollbackExecution, for every contract, every kind of fault *)
(* and every number of faults.                                             *)
(***************************************************************************)
EXTENDS RollbackExecution, ApplyExecutionProofs

\* Where the loops of the rollback may be.
UndoPlace(r) ==
  /\ r \in UndoRuns
  /\ r.pc \notin {"idle", "group"} => r.g \in GroupIds
  /\ r.pc = "start" => r.i \in 1..(Len(r.pending) + 1)
  /\ r.pc \in {"rename", "restored"} => r.i \in 1..Len(r.pending)

RollbackTypeInv == TypeInv /\ UndoPlace(undo) /\ undoJournal \in UndoJournals

UndoMemberEvents == {"member-started", "member-completed"}

-------------------------------------------------------------------------------
(* Type correctness. *)

\* What the types of a control state of the rollback say.
LEMMA UndoRunType ==
  ASSUME NEW r \in UndoRuns
  PROVE  /\ r.g \in 0..Len(Contract) /\ r.i \in Nat
         /\ r.pending \in Seq(Members) /\ Len(r.pending) \in Nat
         /\ \A k \in 1..Len(r.pending) : r.pending[k] \in Members
<1>1. r.pending \in Seq(Members) /\ r.g \in 0..Len(Contract) /\ r.i \in Nat
  BY DEF UndoRuns
<1> QED
  BY <1>1

LEMMA UndoIdlePlace ==
  /\ UndoPlace(UndoIdle) /\ UndoIdle.pc = "idle"
  /\ UndoPlace(Last) /\ Last.pc = "group" /\ Last.g = Len(Contract)
<1>1. Len(Contract) \in Nat
  BY ContractAssumption
<1>2. UndoIdle \in UndoRuns /\ UndoIdle.pc = "idle"
  BY <1>1 DEF UndoIdle, UndoRuns, UndoPhases
<1>3. Last \in UndoRuns /\ Last.pc = "group" /\ Last.g = Len(Contract)
  <2>1. "group" \in UndoPhases /\ Len(Contract) \in 0..Len(Contract)
    BY <1>1 DEF UndoPhases
  <2> QED
    BY <1>2, <2>1 DEF Last, UndoRuns
<1> QED
  BY <1>2, <1>3 DEF UndoPlace

\* The loops stay where they are.
LEMMA UndoToPlace ==
  ASSUME undo \in UndoRuns, undo.g \in GroupIds
  PROVE  /\ UndoPlace(UndoTo("failed")) /\ UndoPlace(UndoTo("revalidate"))
         /\ undo.i \in 1..Len(undo.pending) =>
              UndoPlace(UndoTo("rename")) /\ UndoPlace(UndoTo("restored"))
<1>1. ASSUME NEW phase \in UndoPhases
      PROVE  /\ UndoTo(phase) \in UndoRuns
             /\ UndoTo(phase).pc = phase /\ UndoTo(phase).g = undo.g
             /\ UndoTo(phase).i = undo.i /\ UndoTo(phase).pending = undo.pending
  BY DEF UndoTo, UndoRuns
<1>2. \A phase \in {"failed", "revalidate", "rename", "restored"} : phase \in UndoPhases
  BY DEF UndoPhases
<1> QED
  BY <1>1, <1>2 DEF UndoPlace

LEMMA UndoAheadPlace ==
  ASSUME NEW r, UndoPlace(r)
  PROVE  UndoPlace([r EXCEPT !.ahead = r.pc # "idle"])
BY DEF UndoPlace, UndoRuns

LEMMA UndoWrittenType ==
  ASSUME undoJournal \in UndoJournals, NEW event, NEW m,
         event \in UndoMemberEvents => m \in Members,
         event = "group-completed" => undo.g \in GroupIds
  PROVE  UndoWritten(event, m) \in UndoJournals
<1>1. UndoReplay(event, m) \in UndoJournals
  BY DEF UndoReplay, UndoJournals, UndoMemberEvents
<1> QED
  BY <1>1 DEF UndoWritten, UndoJournals

\* append() returns or raises: what follows is well typed.
LEMMA UndoLogsType ==
  ASSUME undoJournal \in UndoJournals, faults \in FaultRecords,
         NEW event, NEW m, NEW next, NEW otherwise,
         UndoPlace(next), UndoPlace(otherwise),
         event \in UndoMemberEvents => m \in Members,
         event = "group-completed" => undo.g \in GroupIds,
         UndoLogs(event, m, next) \/ UndoLogFails(event, m, otherwise)
  PROVE  undoJournal' \in UndoJournals /\ faults' \in FaultRecords /\ UndoPlace(undo')
<1>2. UndoWritten(event, m) \in UndoJournals
  BY UndoWrittenType
<1>3. [undoJournal EXCEPT !.file = "unreadable"] \in UndoJournals
  BY DEF UndoJournals
<1>4. UndoPlace([otherwise EXCEPT !.ahead = otherwise.pc # "idle"])
  BY UndoAheadPlace
<1>5. CASE UndoLogs(event, m, next)
  BY <1>2, <1>5 DEF UndoLogs, NoFault
<1>6. CASE UndoLogFails(event, m, otherwise)
  <2>1. faults' \in FaultRecords
    BY <1>6, FaultType DEF UndoLogFails, Fault, DiesWriting
  <2> QED
    BY <1>2, <1>3, <1>4, <1>6, <2>1, UndoIdlePlace DEF UndoLogFails
<1> QED
  BY <1>5, <1>6

\* A step that appends nothing.
LEMMA UndoGoesToType ==
  ASSUME undoJournal \in UndoJournals, faults \in FaultRecords, NEW next,
         UndoPlace(next),
         \/ UndoGoesTo(next) \/ UndoReadFails(next)
         \/ UndoIoFails /\ UndoPlace(UndoTo("failed"))
  PROVE  undoJournal' \in UndoJournals /\ faults' \in FaultRecords /\ UndoPlace(undo')
BY FaultType DEF UndoGoesTo, UndoIoFails, UndoReadFails, Fault, NoFault

\* Each step of a running rollback keeps its run and its journal well typed and
\* its loops inside their lists.
LEMMA RollbackStepType ==
  ASSUME RollbackTypeInv, RollbackStep
  PROVE  undoJournal' \in UndoJournals /\ faults' \in FaultRecords /\ UndoPlace(undo')
<1>a. undo \in UndoRuns /\ undoJournal \in UndoJournals /\ faults \in FaultRecords
      /\ UndoPlace(undo)
  BY DEF RollbackTypeInv, TypeInv, TypeOK, UndoPlace
<1>n. undo.g \in 0..Len(Contract) /\ undo.i \in Nat /\ Len(undo.pending) \in Nat
  BY <1>a, UndoRunType
<1>c. Len(Contract) \in Nat /\ GroupIds = 1..Len(Contract)
  BY ContractAssumption DEF GroupIds
<1>d. ASSUME undo.g \in GroupIds
      PROVE  [undo EXCEPT !.g = @ - 1] \in UndoRuns
  BY <1>a, <1>c, <1>d DEF UndoRuns
<1>1. CASE SkipRestoredGroup
  <2> DEFINE on == [undo EXCEPT !.g = @ - 1]
  <2>1. undo.g \in GroupIds /\ undo.pc = "group"
    BY <1>1, <1>a DEF SkipRestoredGroup, UndoAt, UndoJournals
  <2>2. on \in UndoRuns /\ on.pc = "group"
    BY <1>a, <1>d, <2>1 DEF UndoRuns
  <2>3. UndoPlace(on)
    BY <2>2 DEF UndoPlace
  <2> HIDE DEF on
  <2>4. UndoGoesTo(on) \/ UndoGoesTo(UndoIdle) \/ UndoReadFails(UndoIdle)
    BY <1>1 DEF SkipRestoredGroup, on
  <2> QED
    BY <1>a, <2>3, <2>4, UndoIdlePlace, UndoGoesToType
<1>2. CASE ScanGroup
  <2> DEFINE on == [undo EXCEPT !.pc = "scan", !.i = Len(Contract[undo.g]), !.pending = <<>>]
  <2>1. undo.g \in GroupIds
    BY <1>2 DEF ScanGroup
  <2>2. Len(Contract[undo.g]) \in Nat /\ <<>> \in Seq(Members) /\ "scan" \in UndoPhases
    BY <2>1, GroupType DEF UndoPhases
  <2>3. on \in UndoRuns /\ on.pc = "scan" /\ on.g = undo.g
    BY <1>a, <2>2 DEF UndoRuns
  <2>4. UndoPlace(on)
    BY <2>1, <2>3 DEF UndoPlace
  <2> HIDE DEF on
  <2>5. UndoGoesTo(on)
    BY <1>2 DEF ScanGroup, on
  <2> QED
    BY <1>a, <2>4, <2>5, UndoGoesToType
<1>3. CASE ClassifyMember
  <2> DEFINE m == Contract[undo.g][undo.i]
             toDo == [undo EXCEPT !.i = @ - 1, !.pending = Append(@, m)]
             done == [undo EXCEPT !.i = @ - 1]
  <2>1. undo.g \in GroupIds /\ undo.pc = "scan" /\ undo.i \in 1..Len(Contract[undo.g])
    BY <1>3, <1>a DEF ClassifyMember, UndoAt, UndoPlace
  <2>2. m \in Members /\ undo.i - 1 \in Nat
    BY <1>n, <2>1, GroupType
  <2>3. Append(undo.pending, m) \in Seq(Members)
    BY <1>a, <2>2, UndoRunType
  <2>4. /\ toDo \in UndoRuns /\ toDo.pc = "scan" /\ toDo.g = undo.g
        /\ done \in UndoRuns /\ done.pc = "scan" /\ done.g = undo.g
    BY <1>a, <2>1, <2>2, <2>3 DEF UndoRuns
  <2>5. UndoPlace(toDo) /\ UndoPlace(done)
    BY <2>1, <2>4 DEF UndoPlace
  <2> HIDE DEF m, toDo, done
  <2>6. \/ UndoGoesTo(done) \/ UndoGoesTo(toDo) \/ UndoGoesTo(UndoIdle)
        \/ UndoReadFails(UndoIdle)
        \/ UndoLogs("member-completed", m, done)
        \/ UndoLogFails("member-completed", m, UndoIdle)
    BY <1>3 DEF ClassifyMember, m, toDo, done
  <2>7. CASE \/ UndoGoesTo(done) \/ UndoGoesTo(toDo) \/ UndoGoesTo(UndoIdle)
             \/ UndoReadFails(UndoIdle)
    BY <1>a, <2>5, <2>7, UndoIdlePlace, UndoGoesToType
  <2> QED
    BY <1>a, <2>2, <2>5, <2>6, <2>7, UndoIdlePlace, UndoLogsType
<1>4. CASE BeginRollbackGroup
  <2>1. undo.g \in GroupIds
    BY <1>4, <1>a DEF BeginRollbackGroup, UndoAt, UndoPlace
  <2>2. UndoLogs("group-started", {}, UndoTo("revalidate"))
          \/ UndoLogFails("group-started", {}, UndoIdle)
    BY <1>4 DEF BeginRollbackGroup
  <2> QED
    BY <1>a, <2>1, <2>2, UndoToPlace, UndoIdlePlace, UndoLogsType DEF UndoMemberEvents
<1>5. CASE FinishRollback
  <2>1. \/ UndoGoesTo(UndoIdle) \/ UndoReadFails(UndoIdle)
        \/ UndoLogs("rollback-completed", {}, UndoIdle)
        \/ UndoLogFails("rollback-completed", {}, UndoIdle)
    BY <1>5 DEF FinishRollback
  <2>2. CASE UndoGoesTo(UndoIdle) \/ UndoReadFails(UndoIdle)
    BY <1>a, <2>2, UndoIdlePlace, UndoGoesToType
  <2> QED
    BY <1>a, <2>1, <2>2, UndoIdlePlace, UndoLogsType DEF UndoMemberEvents
<1>6. CASE RevalidateRollbackGroup
  <2> DEFINE on == [undo EXCEPT !.pc = "start", !.i = 1]
  <2>1. undo.g \in GroupIds
    BY <1>6, <1>a DEF RevalidateRollbackGroup, UndoAt, UndoPlace
  <2>2. on \in UndoRuns /\ on.pc = "start" /\ on.g = undo.g /\ on.i = 1
        /\ on.pending = undo.pending
    BY <1>a DEF UndoRuns, UndoPhases
  <2>3. UndoPlace(on)
    BY <1>n, <2>1, <2>2 DEF UndoPlace
  <2> HIDE DEF on
  <2>4. UndoGoesTo(on) \/ UndoGoesTo(UndoTo("failed")) \/ UndoReadFails(UndoTo("failed"))
    BY <1>6 DEF RevalidateRollbackGroup, on
  <2> QED
    BY <1>a, <2>1, <2>3, <2>4, UndoToPlace, UndoGoesToType
<1>7. CASE StartRestore
  <2>1. undo.g \in GroupIds /\ undo.i \in 1..Len(undo.pending)
    BY <1>7, <1>a DEF StartRestore, UndoAt, UndoPlace
  <2>2. undo.pending[undo.i] \in Members
    BY <1>a, <2>1, UndoRunType
  <2>3. \E next \in {UndoTo("rename"), UndoTo("failed")} :
          LET m == undo.pending[undo.i]
          IN \/ UndoLogs("member-started", m, next)
             \/ UndoLogFails("member-started", m, UndoTo("failed"))
             \/ UndoLogsUnread("member-started", m, UndoTo("failed"))
    BY <1>7 DEF StartRestore, Announce
  <2> QED
    <3>1. UndoPlace(UndoTo("rename")) /\ UndoPlace(UndoTo("failed"))
      BY <1>a, <2>1, UndoToPlace
    <3>2. PICK next \in {UndoTo("rename"), UndoTo("failed")} :
            \/ UndoLogs("member-started", undo.pending[undo.i], next)
            \/ UndoLogFails("member-started", undo.pending[undo.i], UndoTo("failed"))
            \/ UndoLogsUnread("member-started", undo.pending[undo.i], UndoTo("failed"))
      BY <2>3
    <3>3. UndoPlace(next)
      BY <3>1, <3>2
    <3>4. CASE UndoLogsUnread("member-started", undo.pending[undo.i], UndoTo("failed"))
      <4>1. UndoWritten("member-started", undo.pending[undo.i]) \in UndoJournals
        BY <1>a, <2>2, UndoWrittenType
      <4> QED
        BY <1>a, <3>1, <3>4, <4>1, FaultType DEF UndoLogsUnread, Fault
    <3> QED
      BY <1>a, <2>1, <2>2, <3>1, <3>2, <3>3, <3>4, UndoLogsType DEF UndoMemberEvents
<1>8. CASE RenameBack
  <2>1. undo.g \in GroupIds /\ undo.i \in 1..Len(undo.pending)
    BY <1>8, <1>a DEF RenameBack, UndoAt, UndoPlace
  <2>2. UndoGoesTo(UndoTo("restored")) \/ UndoGoesTo(UndoTo("failed")) \/ UndoIoFails
    BY <1>8 DEF RenameBack
  <2> QED
    BY <1>a, <2>1, <2>2, UndoToPlace, UndoGoesToType
<1>9. CASE RecordRestore
  <2> DEFINE on == [undo EXCEPT !.pc = "start", !.i = @ + 1]
  <2>1. undo.g \in GroupIds /\ undo.i \in 1..Len(undo.pending)
    BY <1>9, <1>a DEF RecordRestore, UndoAt, UndoPlace
  <2>2. undo.pending[undo.i] \in Members
    BY <1>a, <2>1, UndoRunType
  <2>3. on \in UndoRuns /\ on.pc = "start" /\ on.g = undo.g /\ on.i = undo.i + 1
        /\ on.pending = undo.pending
    <3>1. undo.i + 1 \in Nat /\ "start" \in UndoPhases
      BY <1>n DEF UndoPhases
    <3> QED
      BY <1>a, <3>1 DEF UndoRuns
  <2>4. UndoPlace(on)
    BY <1>n, <2>1, <2>3 DEF UndoPlace
  <2> HIDE DEF on
  <2>5. \/ UndoGoesTo(UndoTo("failed")) \/ UndoReadFails(UndoTo("failed"))
        \/ LET m == undo.pending[undo.i]
           IN UndoLogs("member-completed", m, on)
                \/ UndoLogFails("member-completed", m, UndoTo("failed"))
    BY <1>9 DEF RecordRestore, on
  <2>6. CASE UndoGoesTo(UndoTo("failed")) \/ UndoReadFails(UndoTo("failed"))
    BY <1>a, <2>1, <2>6, UndoToPlace, UndoGoesToType
  <2> QED
    BY <1>a, <2>1, <2>2, <2>4, <2>5, <2>6, UndoToPlace, UndoLogsType DEF UndoMemberEvents
<1>10. CASE CompleteRollbackGroup
  <2> DEFINE on == [undo EXCEPT !.pc = "group", !.g = @ - 1]
  <2>1. undo.g \in GroupIds
    BY <1>10, <1>a DEF CompleteRollbackGroup, UndoAt, UndoPlace
  <2>2. on \in UndoRuns /\ on.pc = "group"
    <3>1. undo.g - 1 \in 0..Len(Contract) /\ "group" \in UndoPhases
      BY <1>c, <2>1 DEF UndoPhases
    <3> QED
      BY <1>a, <3>1 DEF UndoRuns
  <2>3. UndoPlace(on)
    BY <2>2 DEF UndoPlace
  <2> HIDE DEF on
  <2>4. UndoLogs("group-completed", {}, on)
          \/ UndoLogFails("group-completed", {}, UndoTo("failed"))
    BY <1>10 DEF CompleteRollbackGroup, on
  <2> QED
    BY <1>a, <2>1, <2>3, <2>4, UndoToPlace, UndoLogsType DEF UndoMemberEvents
<1>11. CASE FailRollbackGroup
  BY <1>11, <1>a, UndoIdlePlace, UndoLogsType DEF FailRollbackGroup, UndoMemberEvents
<1>12. CASE CrashRollback
  BY <1>12, <1>a, UndoIdlePlace, FaultType DEF CrashRollback, Fault
<1>13. CASE InterruptRollback
  <2>1. undo.pc \in UndoGuarded => undo.g \in GroupIds
    BY <1>a DEF UndoGuarded, UndoPlace
  <2> QED
    BY <1>13, <1>a, <2>1, UndoIdlePlace, UndoToPlace, FaultType DEF InterruptRollback, Fault
<1> QED
  BY <1>1, <1>2, <1>3, <1>4, <1>5, <1>6, <1>7, <1>8, <1>9, <1>10, <1>11, <1>12, <1>13
  DEF RollbackStep

\* A step of the rollback touches the files by moving one member back, or not at
\* all.
LEMMA RollbackStepFiles ==
  ASSUME UndoPlace(undo), RollbackStep
  PROVE  (\E m \in Members : MoveBack(m)) \/ UNCHANGED files
<1>1. CASE RenameBack
  <2>1. undo.pending[undo.i] \in Members
    BY <1>1, UndoRunType DEF RenameBack, UndoAt, UndoPlace
  <2> QED
    BY <1>1, <2>1 DEF RenameBack
<1>2. CASE ~RenameBack
  BY <1>2, Zenon DEF RollbackStep, SkipRestoredGroup, ScanGroup, ClassifyMember,
     BeginRollbackGroup, RevalidateRollbackGroup, StartRestore, RecordRestore,
     CompleteRollbackGroup, FailRollbackGroup, FinishRollback, CrashRollback,
     InterruptRollback
<1> QED
  BY <1>1, <1>2

\* Starting or resuming the rollback touches no file and no state of apply but
\* the lock.
LEMMA BeginRollbackType ==
  ASSUME RollbackTypeInv, StartRollback \/ ResumeRollback
  PROVE  /\ UNCHANGED <<files, run, journal>> /\ lock' \in {"free", "apply", "rollback"}
         /\ undoJournal' \in UndoJournals /\ faults' \in FaultRecords /\ UndoPlace(undo')
<1>a. undoJournal \in UndoJournals /\ faults \in FaultRecords
      /\ lock \in {"free", "apply", "rollback"}
  BY DEF RollbackTypeInv, TypeInv, TypeOK
<1>1. CASE StartRollback
  <2>1. UndoLogs("rollback-started", {}, Last)
          \/ UndoLogFails("rollback-started", {}, UndoIdle)
    BY <1>1 DEF StartRollback
  <2>2. undoJournal' \in UndoJournals /\ faults' \in FaultRecords /\ UndoPlace(undo')
    BY <1>a, <2>1, UndoIdlePlace, UndoLogsType DEF UndoMemberEvents
  <2> QED
    BY <1>1, <1>a, <2>2 DEF StartRollback, TakeLockForRollback
<1>2. CASE ResumeRollback
  BY <1>2, <1>a, UndoIdlePlace DEF ResumeRollback, TakeLockForRollback
<1> QED
  BY <1>1, <1>2

\* The type invariant with the bounds of all loops is inductive.
LEMMA RollbackTypeInductive ==
  /\ RollbackInit => RollbackTypeInv
  /\ RollbackTypeInv /\ [RollbackNext]_rollbackVars => RollbackTypeInv'
<1>1. ASSUME RollbackInit
      PROVE  RollbackTypeInv
  <2>1. TypeInv
    BY <1>1, TypeInvInductive DEF RollbackInit
  <2>2. UndoPlace(undo)
    BY <1>1, UndoIdlePlace DEF RollbackInit
  <2>3. undoJournal \in UndoJournals
    BY <1>1 DEF RollbackInit, UndoJournals
  <2> QED
    BY <2>1, <2>2, <2>3 DEF RollbackTypeInv
<1>2. ASSUME RollbackTypeInv, [RollbackNext]_rollbackVars
      PROVE  RollbackTypeInv'
  <2>a. TypeInv /\ TypeOK /\ Placed(run) /\ FilesTypeOK
        /\ UndoPlace(undo) /\ undoJournal \in UndoJournals
    BY <1>2 DEF RollbackTypeInv, TypeInv, TypeOK
  <2>1. ASSUME [Next]_vars, UNCHANGED <<undo, undoJournal>>
        PROVE  RollbackTypeInv'
    <3>1. TypeInv'
      BY <2>a, <2>1, TypeInvInductive
    <3> QED
      BY <2>a, <2>1, <3>1 DEF RollbackTypeInv, UndoPlace
  <2>2. ASSUME FilesTypeOK', UNCHANGED <<run, journal>>,
               lock' \in {"free", "apply", "rollback"},
               undoJournal' \in UndoJournals, faults' \in FaultRecords, UndoPlace(undo')
        PROVE  RollbackTypeInv'
    BY <2>a, <2>2 DEF RollbackTypeInv, TypeInv, TypeOK, Placed
  <2>3. CASE Applying(Command) \/ Meddling
    BY <2>1, <2>3 DEF Applying, Meddling, Next
  <2>4. CASE StartRollback \/ ResumeRollback
    <3>1. FilesTypeOK'
      BY <1>2, <2>a, <2>4, BeginRollbackType, FilesType
    <3> QED
      BY <1>2, <2>2, <2>4, <3>1, BeginRollbackType
  <2>5. CASE RollbackStep
    <3>1. FilesTypeOK'
      BY <2>a, <2>5, RollbackStepFiles, FilesType
    <3>2. lock' \in {"free", "apply", "rollback"} /\ UNCHANGED <<run, journal>>
      BY <2>a, <2>5 DEF RollbackStep, ReleaseLock, TypeOK
    <3> QED
      BY <1>2, <2>2, <2>5, <3>1, <3>2, RollbackStepType
  <2>6. CASE UNCHANGED rollbackVars
    BY <2>1, <2>6 DEF rollbackVars
  <2> QED
    BY <1>2, <2>3, <2>4, <2>5, <2>6 DEF RollbackNext
<1> QED
  BY <1>1, <1>2

\* Whatever fails and whoever interferes, apply and rollback stay well typed.
THEOREM RollbackTypeCorrectness == RollbackSpec => []RollbackTypeOK
<1>1. RollbackInit => RollbackTypeInv
  BY RollbackTypeInductive
<1>2. RollbackTypeInv /\ [RollbackNext]_rollbackVars => RollbackTypeInv'
  BY RollbackTypeInductive
<1>3. RollbackTypeInv => RollbackTypeOK
  BY DEF RollbackTypeInv, TypeInv, RollbackTypeOK, UndoPlace
<1> QED
  BY <1>1, <1>2, <1>3, PTL DEF RollbackSpec

-------------------------------------------------------------------------------
(* No overwrite, and no loss. *)

\* Every step that is not somebody else's is one file operation at most.
LEMMA CommandFiles ==
  ASSUME RollbackTypeInv, RollbackNext, ~Meddling
  PROVE  \/ \E m \in Members : MakeDir(Parent[m]) \/ MoveOut(m) \/ MoveBack(m)
         \/ UNCHANGED files
<1>1. CASE Applying(Command)
  BY <1>1, StepFiles DEF Applying, Command, Start, Resume, RollbackTypeInv
<1>2. CASE StartRollback \/ ResumeRollback
  BY <1>2, BeginRollbackType
<1>3. CASE RollbackStep
  BY <1>3, RollbackStepFiles DEF RollbackTypeInv
<1> QED
  BY <1>1, <1>2, <1>3 DEF RollbackNext

\* Whoever interferes, and whenever, neither apply nor rollback renames onto an
\* occupied path.
THEOREM RollbackNeverOverwrites == RollbackSpec => NoOverwrite
<1>1. RollbackTypeInv /\ [RollbackNext]_rollbackVars => [~Interfere => OnlyRenames]_vars
  <2>1. SUFFICES ASSUME RollbackTypeInv, RollbackNext, ~Interfere
                 PROVE  OnlyRenames
    BY DEF rollbackVars
  <2>2. ~Meddling /\ FilesTypeOK
    BY <2>1 DEF Meddling, Applying, RollbackTypeInv, TypeInv, TypeOK
  <2> QED
    BY <2>1, <2>2, CommandFiles, OneFileOperation
<1> QED
  BY <1>1, RollbackTypeInductive, PTL DEF RollbackSpec, NoOverwrite

\* A step keeps the record of the faults, or a fault strikes.
LEMMA RollbackFaultsGrow ==
  ASSUME [RollbackNext]_rollbackVars
  PROVE  faults.struck \subseteq faults'.struck
<1>1. CASE [Next]_vars
  BY <1>1, FaultsGrow
<1>2. ASSUME UNCHANGED faults \/ \E kinds : Strike(kinds)
      PROVE  faults.struck \subseteq faults'.struck
  BY <1>2 DEF Strike
<1>3. ASSUME NEW event, NEW m, NEW next, NEW otherwise,
             \/ UndoLogs(event, m, next) \/ UndoLogFails(event, m, otherwise)
             \/ UndoLogsUnread(event, m, otherwise)
      PROVE  UNCHANGED faults \/ \E kinds : Strike(kinds)
  BY <1>3 DEF UndoLogs, UndoLogFails, UndoLogsUnread, NoFault, Fault, DiesWriting
<1>4. ASSUME NEW next, UndoGoesTo(next) \/ UndoIoFails \/ UndoReadFails(next)
      PROVE  UNCHANGED faults \/ \E kinds : Strike(kinds)
  BY <1>4 DEF UndoGoesTo, UndoIoFails, UndoReadFails, NoFault, Fault
<1>5. CASE StartRollback \/ ResumeRollback
  BY <1>2, <1>3, <1>5 DEF StartRollback, ResumeRollback
<1>6. CASE RollbackStep
  <2>1. CASE SkipRestoredGroup \/ ScanGroup \/ ClassifyMember \/ BeginRollbackGroup
    BY <1>2, <1>3, <1>4, <2>1, Zenon
    DEF SkipRestoredGroup, ScanGroup, ClassifyMember, BeginRollbackGroup
  <2>2. CASE RevalidateRollbackGroup \/ StartRestore \/ RenameBack \/ RecordRestore
    BY <1>2, <1>3, <1>4, <2>2, Zenon
    DEF RevalidateRollbackGroup, StartRestore, Announce, RenameBack, RecordRestore
  <2>3. CASE CompleteRollbackGroup \/ FailRollbackGroup \/ FinishRollback
    BY <1>2, <1>3, <1>4, <2>3, Zenon
    DEF CompleteRollbackGroup, FailRollbackGroup, FinishRollback
  <2>4. CASE CrashRollback \/ InterruptRollback
    BY <1>2, <2>4 DEF CrashRollback, InterruptRollback, Fault
  <2> QED
    BY <1>6, <2>1, <2>2, <2>3, <2>4 DEF RollbackStep
<1>7. CASE Applying(Command) \/ Meddling \/ UNCHANGED rollbackVars
  BY <1>1, <1>7 DEF Applying, Meddling, Next, rollbackVars
<1> QED
  BY <1>5, <1>6, <1>7 DEF RollbackNext

ConservingInv == RollbackTypeInv /\ RollbackConserves

\* Only another program can lose or copy a file.
LEMMA ConservingInductive ==
  /\ RollbackInit => ConservingInv
  /\ ConservingInv /\ [RollbackNext]_rollbackVars => ConservingInv'
<1>1. ASSUME RollbackInit
      PROVE  ConservingInv
  BY <1>1, RollbackTypeInductive DEF RollbackInit, Init, FilesInit, ConservingInv,
     RollbackConserves, Conservation, OneCopy
<1>2. ASSUME ConservingInv, [RollbackNext]_rollbackVars
      PROVE  ConservingInv'
  <2>t. RollbackTypeInv /\ RollbackTypeInv' /\ FilesTypeOK
    BY <1>2, RollbackTypeInductive DEF ConservingInv, RollbackTypeInv, TypeInv, TypeOK
  <2>1. SUFFICES ASSUME Untouched'
                 PROVE  Conservation'
    BY <2>t DEF ConservingInv, RollbackConserves
  <2>2. Conservation
    BY <1>2, <2>1, RollbackFaultsGrow DEF ConservingInv, RollbackConserves, Untouched
  <2>3. ~Meddling
    BY <2>1 DEF Meddling, Applying, Interfere, Fault, Strike, Untouched
  <2>4. CASE RollbackNext
    BY <2>t, <2>2, <2>3, <2>4, CommandFiles, FilesConserved
  <2>5. CASE UNCHANGED rollbackVars
    BY <2>2, <2>5 DEF rollbackVars, vars, files, Conservation, OneCopy
  <2> QED
    BY <1>2, <2>4, <2>5
<1> QED
  BY <1>1, <1>2

\* Through every failure and resume of apply and rollback no file is lost or
\* copied, until another program changes the library.
THEOREM RollbackConservesFiles == RollbackSpec => []RollbackConserves
<1>1. ConservingInv => RollbackConserves
  BY DEF ConservingInv
<1> QED
  BY <1>1, ConservingInductive, PTL DEF RollbackSpec

-------------------------------------------------------------------------------
(* The order in which a completed apply is taken back. *)

\* The groups after g are restored, those before it are not, and of g the first
\* n members are not.
PassedBack(g, n) ==
  /\ \A h \in GroupIds : (h < g => AtDestination(h)) /\ (h > g => AtSource(h))
  /\ \A k \in 1..Len(Contract[g]) : dst[Contract[g][k]] = "media" <=> k <= n

InReverse == \E g \in GroupIds : \E n \in 0..Len(Contract[g]) : PassedBack(g, n)

\* pending holds, from the last to the first, the members of the group that
\* follow the first "from" ones and are still at their destinations.
ListedInReverse(r, from) ==
  /\ from + Len(r.pending) <= Len(Contract[r.g])
  /\ \A j \in 1..Len(r.pending) :
       r.pending[j] = Contract[r.g][from + Len(r.pending) + 1 - j]

\* Of the members that follow the first "from" ones, those up to n are at their
\* destinations.
Remain(r, from, n) ==
  \A k \in (from + 1)..Len(Contract[r.g]) : dst[Contract[r.g][k]] = "media" <=> k <= n

\* How many members of its group a rollback has still to restore.
Left(r) ==
  CASE r.pc \in {"start", "rename"} -> Len(r.pending) + 1 - r.i
    [] r.pc = "restored" -> Len(r.pending) - r.i
    [] OTHER -> Len(r.pending)

\* What a running rollback knows of the files: the groups after its own are
\* restored, and its list says what remains of its own.
Knows(r) ==
  /\ r.pc # "idle" => \A h \in GroupIds : h > r.g => AtSource(h)
  /\ r.pc = "scan" =>
       r.i <= Len(Contract[r.g]) /\ ListedInReverse(r, r.i) /\ Remain(r, r.i, r.i + Len(r.pending))
  /\ r.pc \in {"revalidate", "start", "rename", "restored"} =>
       ListedInReverse(r, 0) /\ Remain(r, 0, Left(r))

ReverseInv ==
  /\ ConservingInv
  /\ journal.done => At("idle") /\ journal.file # "none"
  /\ ~UndoAt("idle") => journal.done
  /\ journal.done /\ Untouched => InReverse /\ Knows(undo)

\* When a member of a group is at its destination, so are the members before it
\* and all groups before its own.
LEMMA BelowAtDestination ==
  ASSUME InReverse, NEW g \in GroupIds, NEW k \in 1..Len(Contract[g]),
         dst[Contract[g][k]] = "media"
  PROVE  /\ \A l \in 1..Len(Contract[g]) : l <= k => dst[Contract[g][l]] = "media"
         /\ \A h \in GroupIds : h < g => AtDestination(h)
<1>1. PICK c \in GroupIds : \E n \in 0..Len(Contract[c]) : PassedBack(c, n)
  BY DEF InReverse
<1>2. PICK n \in 0..Len(Contract[c]) : PassedBack(c, n)
  BY <1>1
<1>3. Len(Contract[g]) \in Nat /\ Len(Contract[c]) \in Nat /\ g \in Nat /\ c \in Nat
  BY GroupType
<1>4. Contract[g][k] \in InGroup(g)
  BY DEF InGroup
<1>5. ~(g > c)
  BY <1>2, <1>4 DEF PassedBack, AtSource
<1>6. CASE g < c
  <2>1. AtDestination(g)
    BY <1>2, <1>6 DEF PassedBack
  <2>2. \A l \in 1..Len(Contract[g]) : dst[Contract[g][l]] = "media"
    BY <2>1 DEF AtDestination, InGroup
  <2>3. \A h \in GroupIds : h < g => h < c
    BY <1>3, <1>6 DEF GroupIds
  <2> QED
    BY <1>2, <2>2, <2>3 DEF PassedBack
<1>7. CASE g = c
  BY <1>2, <1>3, <1>7 DEF PassedBack
<1>8. g < c \/ g = c
  BY <1>3, <1>5
<1> QED
  BY <1>6, <1>7, <1>8

LEMMA KnowsNothing ==
  /\ Knows(UndoIdle)
  /\ Knows(Last)
  /\ \A r : r.pc # "idle" /\ Knows(r) => \A h \in GroupIds : h > r.g => AtSource(h)
<1>1. Knows(UndoIdle)
  BY UndoIdlePlace DEF Knows
<1>2. \A h \in GroupIds : ~(h > Len(Contract))
  BY ContractAssumption DEF GroupIds
<1> QED
  BY <1>1, <1>2, UndoIdlePlace DEF Knows

\* An append returns or raises, and the rollback goes on knowing as much.
LEMMA LogsKnow ==
  ASSUME NEW event, NEW m, NEW next, NEW otherwise \in UndoRuns,
         Knows(next), Knows(otherwise),
         \/ UndoLogs(event, m, next) \/ UndoLogFails(event, m, otherwise)
         \/ UndoLogsUnread(event, m, otherwise)
  PROVE  Knows(undo')
<1> DEFINE ahead == [otherwise EXCEPT !.ahead = otherwise.pc # "idle"]
<1>1. ahead.pc = otherwise.pc /\ ahead.g = otherwise.g /\ ahead.i = otherwise.i
      /\ ahead.pending = otherwise.pending
  BY DEF UndoRuns
<1>2. Knows(ahead)
  BY <1>1 DEF Knows, ListedInReverse, Remain, Left
<1> HIDE DEF ahead
<1> QED
  BY <1>2, KnowsNothing DEF UndoLogs, UndoLogFails, UndoLogsUnread, ahead

\* So does a step that appends nothing.
LEMMA GoesToKnows ==
  ASSUME NEW next, Knows(next),
         \/ UndoGoesTo(next) \/ UndoReadFails(next)
         \/ UndoIoFails /\ next = UndoTo("failed")
  PROVE  Knows(undo')
BY DEF UndoGoesTo, UndoIoFails, UndoReadFails

\* The scan of a group finds the members that are still at their destinations.
LEMMA ClassifyKnows ==
  ASSUME RollbackTypeInv, InReverse, Knows(undo), ClassifyMember
  PROVE  Knows(undo')
<1> DEFINE m == Contract[undo.g][undo.i]
           toDo == [undo EXCEPT !.i = @ - 1, !.pending = Append(@, m)]
           done == [undo EXCEPT !.i = @ - 1]
           n == Len(undo.pending)
           size == Len(Contract[undo.g])
<1>a. undo \in UndoRuns /\ UndoPlace(undo) /\ undo.pc = "scan"
  BY DEF RollbackTypeInv, UndoPlace, ClassifyMember, UndoAt
<1>1. undo.g \in GroupIds /\ undo.i \in 1..size /\ size \in Nat /\ n \in Nat
      /\ undo.pending \in Seq(Members) /\ undo.i \in Nat
  BY <1>a, GroupType, UndoRunType DEF ClassifyMember, UndoPlace
<1>2. m \in Members
  BY <1>1, GroupType
<1>3. /\ ListedInReverse(undo, undo.i) /\ Remain(undo, undo.i, undo.i + n)
      /\ \A h \in GroupIds : h > undo.g => AtSource(h)
  BY <1>a DEF Knows
<1>4. undo.i + n <= size
  BY <1>3 DEF ListedInReverse
<1>5. ASSUME dst[m] = "media"
      PROVE  Knows(toDo)
  <2>1. /\ toDo.pc = "scan" /\ toDo.g = undo.g /\ toDo.i = undo.i - 1
        /\ toDo.pending = Append(undo.pending, m)
    BY <1>a DEF UndoRuns
  <2>2. /\ Len(toDo.pending) = n + 1
        /\ \A j \in 1..n : toDo.pending[j] = undo.pending[j]
        /\ toDo.pending[n + 1] = m
    BY <1>1, <1>2, <2>1
  <2> HIDE DEF toDo
  <2>0. \A a, b \in Nat : \A j \in 1..(b + 1) :
          /\ j # b + 1 => j \in 1..b /\ a - 1 + (b + 1) + 1 - j = a + b + 1 - j
          /\ a - 1 + (b + 1) + 1 - (b + 1) = a
    OBVIOUS
  <2>3. ASSUME NEW j \in 1..(n + 1)
        PROVE  toDo.pending[j] = Contract[undo.g][undo.i - 1 + (n + 1) + 1 - j]
    <3>1. CASE j = n + 1
      BY <1>1, <2>0, <2>2, <3>1
    <3>2. CASE j # n + 1
      <4>1. j \in 1..n /\ undo.i - 1 + (n + 1) + 1 - j = undo.i + n + 1 - j
        BY <1>1, <2>0, <3>2
      <4>2. undo.pending[j] = Contract[undo.g][undo.i + n + 1 - j]
        BY <1>3, <4>1 DEF ListedInReverse
      <4> QED
        BY <2>2, <4>1, <4>2
    <3> QED
      BY <3>1, <3>2
  <2>4. ListedInReverse(toDo, toDo.i)
    <3>1. toDo.i + Len(toDo.pending) <= Len(Contract[toDo.g])
      BY <1>1, <1>4, <2>1, <2>2
    <3>2. toDo.i = undo.i - 1 /\ Len(toDo.pending) = n + 1 /\ toDo.g = undo.g
      BY <2>1, <2>2
    <3> QED
      BY <2>3, <3>1, <3>2, Zenon DEF ListedInReverse
  <2>5. Remain(toDo, toDo.i, toDo.i + (n + 1))
    <3>1. SUFFICES ASSUME NEW k \in undo.i..size
                   PROVE  dst[Contract[undo.g][k]] = "media" <=> k <= undo.i + n
      BY <1>1, <2>1 DEF Remain
    <3>2. CASE k = undo.i
      BY <1>1, <1>5, <3>2
    <3>3. CASE k # undo.i
      <4>1. k \in (undo.i + 1)..size
        BY <1>1, <3>3
      <4> QED
        BY <1>3, <4>1 DEF Remain
    <3> QED
      BY <3>2, <3>3
  <2>6. toDo.i <= size
    BY <1>1, <2>1
  <2> QED
    BY <1>3, <2>1, <2>2, <2>4, <2>5, <2>6 DEF Knows
<1>6. ASSUME dst[m] # "media"
      PROVE  Knows(done)
  <2>1. /\ done.pc = "scan" /\ done.g = undo.g /\ done.i = undo.i - 1
        /\ done.pending = undo.pending
    BY <1>a DEF UndoRuns
  <2> HIDE DEF done
  <2>2. n = 0
    <3>1. SUFFICES ASSUME n > 0
                   PROVE  FALSE
      BY <1>1
    <3>2. undo.i + 1 \in (undo.i + 1)..size /\ undo.i + 1 <= undo.i + n
          /\ undo.i + 1 \in 1..size /\ undo.i \in 1..size /\ undo.i <= undo.i + 1
      BY <1>1, <1>4, <3>1
    <3>3. dst[Contract[undo.g][undo.i + 1]] = "media"
      BY <1>3, <3>2 DEF Remain
    <3>4. dst[m] = "media"
      BY <1>1, <3>2, <3>3, BelowAtDestination
    <3> QED
      BY <1>6, <3>4
  <2>3. ListedInReverse(done, done.i)
    BY <1>1, <1>4, <2>1, <2>2 DEF ListedInReverse
  <2>4. Remain(done, done.i, done.i + 0)
    <3>1. SUFFICES ASSUME NEW k \in undo.i..size
                   PROVE  dst[Contract[undo.g][k]] = "media" <=> k <= undo.i - 1
      BY <1>1, <2>1 DEF Remain
    <3>2. CASE k = undo.i
      BY <1>1, <1>6, <3>2
    <3>3. CASE k # undo.i
      <4>1. k \in (undo.i + 1)..size /\ ~(k <= undo.i + n) /\ ~(k <= undo.i - 1)
        BY <1>1, <2>2, <3>3
      <4> QED
        BY <1>3, <4>1 DEF Remain
    <3> QED
      BY <3>2, <3>3
  <2> QED
    BY <1>1, <1>3, <2>1, <2>2, <2>3, <2>4 DEF Knows
<1>7. /\ UndoIdle \in UndoRuns
      /\ \/ dst[m] # "media" /\ UndoGoesTo(done)
         \/ dst[m] = "media" /\ UndoGoesTo(toDo)
         \/ UndoGoesTo(UndoIdle) \/ UndoReadFails(UndoIdle)
         \/ /\ dst[m] # "media"
            /\ \/ UndoLogs("member-completed", m, done)
               \/ UndoLogFails("member-completed", m, UndoIdle)
  <2> HIDE DEF m, toDo, done
  <2>1. "absent" # "media"
    OBVIOUS
  <2>2. (Restored(m) => dst[m] # "media") /\ (Organized(m) => dst[m] = "media")
    BY DEF Restored, Organized
  <2> QED
    BY <2>2, UndoIdlePlace DEF ClassifyMember, RestoredWithEvidence, UndoPlace, m, toDo, done
<1> HIDE DEF m, toDo, done
<1> QED
  BY <1>5, <1>6, <1>7, KnowsNothing, GoesToKnows, LogsKnow

\* A rollback that moves nothing goes on knowing what remains.
LEMMA StillKnows ==
  ASSUME RollbackTypeInv, Conservation, InReverse, Knows(undo), RollbackStep,
         ~RenameBack
  PROVE  Knows(undo')
<1>a. undo \in UndoRuns /\ UndoPlace(undo) /\ undoJournal \in UndoJournals
  BY DEF RollbackTypeInv, UndoPlace
<1>n. undo.g \in 0..Len(Contract) /\ undo.i \in Nat /\ Len(undo.pending) \in Nat
  BY <1>a, UndoRunType
<1>i. Knows(UndoIdle) /\ UndoIdle \in UndoRuns
  BY KnowsNothing, UndoIdlePlace DEF UndoPlace
<1>c. undo.pc \notin {"idle", "group"} =>
        undo.g \in GroupIds /\ \A h \in GroupIds : h > undo.g => AtSource(h)
  BY <1>a DEF UndoPlace, Knows
<1>t. ASSUME NEW phase \in UndoPhases
      PROVE  /\ UndoTo(phase) \in UndoRuns
             /\ UndoTo(phase).pc = phase /\ UndoTo(phase).g = undo.g
             /\ UndoTo(phase).i = undo.i /\ UndoTo(phase).pending = undo.pending
  BY <1>a DEF UndoTo, UndoRuns
<1>p. "failed" \in UndoPhases /\ "revalidate" \in UndoPhases /\ "rename" \in UndoPhases
  BY DEF UndoPhases
<1>f. undo.pc \notin {"idle", "group"} => Knows(UndoTo("failed")) /\ UndoTo("failed") \in UndoRuns
  BY <1>c, <1>p, <1>t DEF Knows
<1>1. CASE SkipRestoredGroup
  <2> DEFINE on == [undo EXCEPT !.g = @ - 1]
  <2>1. undo.g \in GroupIds /\ undo.pc = "group" /\ undo.g \in Nat
    BY <1>1, <1>a, <1>n DEF SkipRestoredGroup, UndoAt, UndoJournals
  <2>2. on.pc = "group" /\ on.g = undo.g - 1
    BY <1>a, <2>1 DEF UndoRuns
  <2>3. ASSUME \A m \in InGroup(undo.g) : Restored(m)
        PROVE  Knows(on)
    <3>1. AtSource(undo.g)
      BY <2>3 DEF AtSource, Restored
    <3>2. \A h \in GroupIds : h > undo.g => AtSource(h)
      BY <2>1 DEF Knows
    <3>3. \A h \in GroupIds : h > undo.g - 1 => h = undo.g \/ h > undo.g
      BY <2>1 DEF GroupIds
    <3> QED
      BY <2>2, <3>1, <3>2, <3>3 DEF Knows
  <2> HIDE DEF on
  <2>4. \/ (\A m \in InGroup(undo.g) : Restored(m)) /\ UndoGoesTo(on)
        \/ UndoGoesTo(UndoIdle) \/ UndoReadFails(UndoIdle)
    BY <1>1 DEF SkipRestoredGroup, on
  <2> QED
    BY <1>i, <2>3, <2>4, GoesToKnows
<1>2. CASE ScanGroup
  <2> DEFINE on == [undo EXCEPT !.pc = "scan", !.i = Len(Contract[undo.g]), !.pending = <<>>]
  <2>1. undo.g \in GroupIds /\ undo.pc = "group"
    BY <1>2 DEF ScanGroup, UndoAt
  <2>2. Len(Contract[undo.g]) \in Nat
    BY <2>1, GroupType
  <2>3. on.pc = "scan" /\ on.g = undo.g /\ on.i = Len(Contract[undo.g]) /\ on.pending = <<>>
    BY <1>a DEF UndoRuns
  <2> HIDE DEF on
  <2>4. ListedInReverse(on, on.i) /\ Remain(on, on.i, on.i + Len(on.pending))
    BY <2>2, <2>3 DEF ListedInReverse, Remain
  <2>5. Knows(on)
    BY <2>1, <2>2, <2>3, <2>4 DEF Knows
  <2>6. UndoGoesTo(on)
    BY <1>2 DEF ScanGroup, on
  <2> QED
    BY <2>5, <2>6, GoesToKnows
<1>3. CASE ClassifyMember
  BY <1>3, ClassifyKnows
<1>4. CASE BeginRollbackGroup
  <2>1. undo.pc = "scan" /\ undo.i = 0
    BY <1>4 DEF BeginRollbackGroup, UndoAt
  <2> DEFINE on == UndoTo("revalidate")
  <2>2. on.pc = "revalidate" /\ on.g = undo.g /\ on.pending = undo.pending
    BY <1>p, <1>t
  <2> HIDE DEF on
  <2>3. ListedInReverse(undo, 0) /\ Remain(undo, 0, Len(undo.pending))
    BY <1>n, <2>1 DEF Knows
  <2>4. Knows(on)
    BY <1>c, <2>1, <2>2, <2>3 DEF Knows, ListedInReverse, Remain, Left
  <2>5. UndoLogs("group-started", {}, on) \/ UndoLogFails("group-started", {}, UndoIdle)
    BY <1>4 DEF BeginRollbackGroup, on
  <2> QED
    BY <1>i, <2>4, <2>5, LogsKnow
<1>5. CASE FinishRollback
  <2>1. \/ UndoGoesTo(UndoIdle) \/ UndoReadFails(UndoIdle)
        \/ UndoLogs("rollback-completed", {}, UndoIdle)
        \/ UndoLogFails("rollback-completed", {}, UndoIdle)
    BY <1>5 DEF FinishRollback
  <2> QED
    BY <1>i, <2>1, GoesToKnows, LogsKnow
<1>6. CASE RevalidateRollbackGroup
  <2> DEFINE on == [undo EXCEPT !.pc = "start", !.i = 1]
  <2>1. undo.pc = "revalidate"
    BY <1>6 DEF RevalidateRollbackGroup, UndoAt
  <2>2. on.pc = "start" /\ on.g = undo.g /\ on.i = 1 /\ on.pending = undo.pending
    BY <1>a DEF UndoRuns
  <2> HIDE DEF on
  <2>3. ListedInReverse(undo, 0) /\ Remain(undo, 0, Len(undo.pending))
    BY <2>1 DEF Knows, Left
  <2>4. Left(on) = Len(undo.pending)
    BY <1>n, <2>2 DEF Left
  <2>5. Knows(on)
    BY <1>c, <2>1, <2>2, <2>3, <2>4 DEF Knows, ListedInReverse, Remain
  <2>6. UndoGoesTo(on) \/ UndoGoesTo(UndoTo("failed")) \/ UndoReadFails(UndoTo("failed"))
    BY <1>6 DEF RevalidateRollbackGroup, on
  <2> QED
    BY <1>f, <2>1, <2>5, <2>6, GoesToKnows
<1>7. CASE StartRestore
  <2> DEFINE on == UndoTo("rename")
  <2>1. undo.pc = "start"
    BY <1>7 DEF StartRestore, UndoAt
  <2>2. on.pc = "rename" /\ on.g = undo.g /\ on.i = undo.i /\ on.pending = undo.pending
    BY <1>p, <1>t
  <2> HIDE DEF on
  <2>3. Left(on) = Left(undo)
    BY <2>1, <2>2 DEF Left
  <2>4. Knows(on)
    BY <1>c, <2>1, <2>2, <2>3 DEF Knows, ListedInReverse, Remain
  <2>5. \E next \in {on, UndoTo("failed")} : \E m :
          \/ UndoLogs("member-started", m, next)
          \/ UndoLogFails("member-started", m, UndoTo("failed"))
          \/ UndoLogsUnread("member-started", m, UndoTo("failed"))
    BY <1>7, Zenon DEF StartRestore, Announce, on
  <2> QED
    BY <1>f, <2>1, <2>4, <2>5, LogsKnow
<1>8. CASE RecordRestore
  <2> DEFINE on == [undo EXCEPT !.pc = "start", !.i = @ + 1]
  <2>1. undo.pc = "restored"
    BY <1>8 DEF RecordRestore, UndoAt
  <2>2. on.pc = "start" /\ on.g = undo.g /\ on.i = undo.i + 1 /\ on.pending = undo.pending
    BY <1>a DEF UndoRuns
  <2> HIDE DEF on
  <2>3. Left(on) = Left(undo)
    BY <1>n, <2>1, <2>2 DEF Left
  <2>4. Knows(on)
    BY <1>c, <2>1, <2>2, <2>3 DEF Knows, ListedInReverse, Remain
  <2>5. \/ UndoGoesTo(UndoTo("failed")) \/ UndoReadFails(UndoTo("failed"))
        \/ \E m : \/ UndoLogs("member-completed", m, on)
                 \/ UndoLogFails("member-completed", m, UndoTo("failed"))
    BY <1>8, Zenon DEF RecordRestore, on
  <2> QED
    BY <1>f, <2>1, <2>4, <2>5, LogsKnow, GoesToKnows
<1>9. CASE CompleteRollbackGroup
  <2> DEFINE on == [undo EXCEPT !.pc = "group", !.g = @ - 1]
  <2>1. undo.pc = "start" /\ undo.i = Len(undo.pending) + 1 /\ undo.g \in GroupIds
    BY <1>9, <1>a DEF CompleteRollbackGroup, UndoAt, UndoPlace
  <2>2. on.pc = "group" /\ on.g = undo.g - 1
    BY <1>a DEF UndoRuns
  <2> HIDE DEF on
  <2>3. Remain(undo, 0, 0)
    BY <1>n, <2>1 DEF Knows, Left
  <2>4. AtSource(undo.g)
    <3>1. SUFFICES ASSUME NEW k \in 1..Len(Contract[undo.g])
                   PROVE  src[Contract[undo.g][k]] = "media" /\ dst[Contract[undo.g][k]] = "absent"
      BY DEF AtSource, InGroup
    <3>2. Contract[undo.g][k] \in Members /\ Len(Contract[undo.g]) \in Nat
      BY <2>1, GroupType
    <3>3. ~(k <= 0) /\ k \in (0 + 1)..Len(Contract[undo.g])
      BY <3>2
    <3>4. dst[Contract[undo.g][k]] # "media"
      BY <2>3, <3>3 DEF Remain
    <3> QED
      BY <3>2, <3>4 DEF Conservation, OneCopy
  <2>5. \A h \in GroupIds : h > undo.g - 1 => h = undo.g \/ h > undo.g
    BY <2>1 DEF GroupIds
  <2>6. Knows(on)
    BY <1>c, <2>1, <2>2, <2>4, <2>5 DEF Knows
  <2>7. UndoLogs("group-completed", {}, on)
          \/ UndoLogFails("group-completed", {}, UndoTo("failed"))
    BY <1>9 DEF CompleteRollbackGroup, on
  <2> QED
    BY <1>f, <2>1, <2>6, <2>7, LogsKnow
<1>10. CASE FailRollbackGroup
  <2>1. UndoLogs("group-failed", {}, UndoIdle) \/ UndoLogFails("group-failed", {}, UndoIdle)
    BY <1>10 DEF FailRollbackGroup
  <2> QED
    BY <1>i, <2>1, LogsKnow
<1>11. CASE CrashRollback \/ InterruptRollback
  BY <1>11, <1>f, <1>i DEF CrashRollback, InterruptRollback, UndoGuarded
<1> QED
  BY <1>1, <1>2, <1>3, <1>4, <1>5, <1>6, <1>7, <1>8, <1>9, <1>10, <1>11 DEF RollbackStep

\* No member is in two places of the contract.
LEMMA OnePlace ==
  ASSUME NEW g \in GroupIds, NEW h \in GroupIds,
         NEW k \in 1..Len(Contract[g]), NEW l \in 1..Len(Contract[h]),
         Contract[g][k] = Contract[h][l]
  PROVE  g = h /\ k = l
BY ContractAssumption

\* The rename takes the last member that remains.
LEMMA MovesTheLast ==
  ASSUME RollbackTypeInv, RollbackTypeInv', InReverse, Knows(undo), RenameBack,
         MoveBack(undo.pending[undo.i]), UndoGoesTo(UndoTo("restored")), Conservation
  PROVE  InReverse' /\ Knows(undo)'
<1>0. PICK g, n, m : g = undo.g /\ n = Len(undo.pending) + 1 - undo.i /\ m = undo.pending[undo.i]
  OBVIOUS
<1> DEFINE size == Len(Contract[g])
<1>1. /\ undo \in UndoRuns /\ undo.pc = "rename" /\ g = undo.g
      /\ g \in GroupIds /\ undo.i \in 1..Len(undo.pending) /\ MoveBack(m)
  BY <1>0 DEF RollbackTypeInv, UndoPlace, RenameBack, UndoAt
<1>2. /\ size \in Nat /\ Len(undo.pending) \in Nat /\ undo.i \in Nat /\ g \in Nat
      /\ m \in Members
      /\ src \in [Members -> Contents] /\ dst \in [Members -> Contents]
  BY <1>0, <1>1, GroupType, UndoRunType DEF RollbackTypeInv, TypeInv, TypeOK, FilesTypeOK
<1>3. ListedInReverse(undo, 0) /\ Remain(undo, 0, n) /\ \A h \in GroupIds : h > g => AtSource(h)
  BY <1>0, <1>1 DEF Knows, Left
<1>4. n \in 1..size /\ m = Contract[g][n]
  <2>1. n \in 1..size
    BY <1>0, <1>1, <1>2, <1>3 DEF ListedInReverse
  <2>2. 0 + Len(undo.pending) + 1 - undo.i = n
    BY <1>0, <1>2
  <2> QED
    BY <1>0, <1>1, <1>3, <2>1, <2>2 DEF ListedInReverse
<1>5. dst[m] = "media"
  BY <1>1, <1>2, <1>3, <1>4 DEF Remain
<1>6. \A h \in GroupIds : h < g => AtDestination(h)
  BY <1>1, <1>4, <1>5, BelowAtDestination
<1>7. \A h \in GroupIds : \A k \in 1..Len(Contract[h]) :
        Contract[h][k] \in Members /\ (Contract[h][k] = m => h = g /\ k = n)
  <2>1. SUFFICES ASSUME NEW h \in GroupIds, NEW k \in 1..Len(Contract[h])
                 PROVE  Contract[h][k] \in Members /\ (Contract[h][k] = m => h = g /\ k = n)
    OBVIOUS
  <2>2. Contract[h][k] \in Members
    BY GroupType
  <2>3. Contract[h][k] = Contract[g][n] => h = g /\ k = n
    BY <1>1, <1>4, OnePlace
  <2> QED
    BY <1>4, <2>2, <2>3
<1>8. /\ \A f \in Members : f # m => src'[f] = src[f] /\ dst'[f] = dst[f]
      /\ dst'[m] = "absent"
  BY <1>1, <1>2 DEF MoveBack
<1>9. \A h \in GroupIds : h # g => (AtSource(h) => AtSource(h)') /\ (AtDestination(h) => AtDestination(h)')
  BY <1>7, <1>8 DEF AtSource, AtDestination, InGroup
<1>10. \A k \in 1..size : dst'[Contract[g][k]] = "media" <=> k <= n - 1
  <2>1. SUFFICES ASSUME NEW k \in 1..size
                 PROVE  dst'[Contract[g][k]] = "media" <=> k <= n - 1
    OBVIOUS
  <2>2. CASE k = n
    BY <1>2, <1>4, <1>8, <2>2
  <2>3. CASE k # n
    <3>1. dst'[Contract[g][k]] = dst[Contract[g][k]]
      BY <1>1, <1>7, <1>8, <2>3
    <3>2. dst[Contract[g][k]] = "media" <=> k <= n
      BY <1>1, <1>2, <1>3 DEF Remain
    <3>3. k <= n <=> k <= n - 1
      BY <1>2, <1>4, <2>3
    <3> QED
      BY <3>1, <3>2, <3>3
  <2> QED
    BY <2>2, <2>3
<1>11. \A h \in GroupIds : h < g \/ h > g => h # g
  BY <1>2 DEF GroupIds
<1>12. PassedBack(g, n - 1)'
  BY <1>3, <1>6, <1>9, <1>10, <1>11 DEF PassedBack
<1>13. n - 1 \in 0..size
  BY <1>2, <1>4
<1>14. /\ undo'.pc = "restored" /\ undo'.g = g /\ undo'.i = undo.i
       /\ undo'.pending = undo.pending
  BY <1>1 DEF UndoGoesTo, UndoTo, UndoRuns
<1>15. Left(undo') = n - 1
  BY <1>0, <1>2, <1>14 DEF Left
<1>16. Knows(undo)'
  <2>1. ListedInReverse(undo', 0)
    BY <1>1, <1>3, <1>14 DEF ListedInReverse
  <2>2. \A k \in (0 + 1)..size : dst'[Contract[g][k]] = "media" <=> k <= Left(undo')
    BY <1>10, <1>15
  <2>3. \A h \in GroupIds : h > g => AtSource(h)'
    BY <1>3, <1>9, <1>11
  <2> QED
    BY <1>14, <2>1, <2>2, <2>3 DEF Knows, ListedInReverse, Remain, Left
<1> QED
  BY <1>1, <1>12, <1>13, <1>16 DEF InReverse

\* Only the end of a run records it as completed, and a journal that is there
\* stays there.
LEMMA DoneKept ==
  ASSUME TypeOK, NEW event, NEW m, NEW next, event # "run-completed",
         Logs(event, m, next) \/ LogFails(event, m, next)
  PROVE  journal'.done = journal.done
<1>1. Replay(event, m).done = journal.done
  BY DEF TypeOK, Replay, MovedBack, Journals
<1>2. Replay(event, m) \in [file : {"none", "readable", "unreadable"},
        started : {Replay(event, m).started}, completed : {Replay(event, m).completed},
        groups : {Replay(event, m).groups}, outcome : {Replay(event, m).outcome},
        done : {Replay(event, m).done}]
  BY DEF TypeOK, Replay, MovedBack, Journals
<1>3. Written(event, m).done = journal.done
  BY <1>1, <1>2 DEF TypeOK, Written, Journals
<1> QED
  BY <1>3 DEF TypeOK, Logs, LogFails, Journals

\* The line that records the run as completed leaves a journal behind.
LEMMA DoneWritten ==
  ASSUME TypeOK, journal.file # "none" \/ ~journal.done,
         Logs("run-completed", {}, Idle) \/ LogFails("run-completed", {}, Idle)
  PROVE  run'.pc = "idle" /\ (journal'.file # "none" \/ ~journal'.done)
<1>1. Replay("run-completed", {}) = [journal EXCEPT !.done = TRUE]
  BY DEF Replay
<1>2. Written("run-completed", {}).file # "none"
  BY <1>1 DEF TypeOK, Written, Journals
<1>3. run'.pc = "idle"
  BY GivesUp DEF Logs, Idle
<1> QED
  BY <1>2, <1>3 DEF TypeOK, Logs, LogFails, Journals

\* An apply records itself as completed when all of its files are at their
\* destinations, and then it ends.
LEMMA DoneSteps ==
  ASSUME TypeInv, Command, ~journal.done, journal'.done
  PROVE  /\ run'.pc = "idle" /\ journal'.file # "none" /\ UNCHANGED files
         /\ \A g \in GroupIds : AtDestination(g)
<1>a. TypeOK
  BY DEF TypeInv
<1>1. CASE Start
  <2>1. Logs("run-started", {}, First) \/ LogFails("run-started", {}, Idle)
    BY <1>1 DEF Start
  <2> QED
    BY <1>a, <2>1, DoneKept
<1>2. CASE Resume
  BY <1>2 DEF Resume
<1>3. CASE Step /\ Finish
  <2>1. ~UNCHANGED journal
    OBVIOUS
  <2>2. /\ \A g \in GroupIds : Verified(g)
        /\ Logs("run-completed", {}, Idle) \/ LogFails("run-completed", {}, Idle)
    BY <1>3, <2>1 DEF Finish, GoesTo, ReadFails
  <2>3. run'.pc = "idle" /\ journal'.file # "none"
    BY <1>a, <2>2, DoneWritten
  <2> QED
    BY <1>3, <2>2, <2>3 DEF Finish, Verified, Organized, AtDestination
<1>4. CASE Step /\ ~Finish
  <2>1. \/ UNCHANGED journal
        \/ \E event \in {"member-started", "member-completed", "member-rollback-started",
               "member-rollback-completed", "group-completed", "group-started", "rolled-back",
               "rollback-incomplete", "directory-create-started", "directory-created"} :
             \E m, next : Logs(event, m, next) \/ LogFails(event, m, next)
    <3>1. CASE Crash \/ Interrupt
      BY <3>1 DEF Crash, Interrupt
    <3>2. CASE Execute
      BY <1>4, <3>2, Zenon DEF Execute, SkipGroup, EnterGroup, ScanMember, BeginGroup,
         RevalidateGroup, PrepareMember, StartMember, MakeParent, RenameMember,
         RecordMember, CompleteGroup, LeaveGroup, UndoMember, UndoRename, RecordUndo,
         FailGroup, GoesTo, IoFails, ReadFails
    <3> QED
      BY <1>4, <3>1, <3>2 DEF Step
  <2> QED
    BY <1>a, <2>1, DoneKept
<1> QED
  BY <1>1, <1>2, <1>3, <1>4 DEF Command

\* A completed apply, and nothing but the rollback, is what a rollback meets.
LEMMA ReverseInductive ==
  ASSUME Contract # <<>>
  PROVE  /\ RollbackInit => ReverseInv
         /\ ReverseInv /\ [RollbackNext]_rollbackVars => ReverseInv'
<1>1. ASSUME RollbackInit
      PROVE  ReverseInv
  <2>1. ConservingInv
    BY <1>1, ConservingInductive
  <2>2. ~journal.done /\ UndoAt("idle")
    BY <1>1, UndoIdlePlace DEF RollbackInit, Init, UndoAt
  <2> QED
    BY <2>1, <2>2 DEF ReverseInv
<1>2. ASSUME ReverseInv, [RollbackNext]_rollbackVars
      PROVE  ReverseInv'
  <2>a. /\ RollbackTypeInv /\ TypeInv /\ RollbackTypeInv' /\ ConservingInv /\ ConservingInv'
        /\ journal.done => At("idle") /\ journal.file # "none"
        /\ ~UndoAt("idle") => journal.done
    BY <1>2, ConservingInductive DEF ReverseInv, ConservingInv, RollbackTypeInv
  <2>k. Untouched' => Untouched
    BY <1>2, RollbackFaultsGrow DEF Untouched
  <2>b. journal.done /\ Untouched' => InReverse /\ Knows(undo) /\ Conservation
    BY <1>2, <2>a, <2>k DEF ReverseInv, ConservingInv, RollbackConserves
  <2>1. CASE Applying(Command) /\ ~journal.done
    <3>1. UndoAt("idle") /\ UNCHANGED undo
      BY <2>1, <2>a DEF Applying
    <3>2. SUFFICES ASSUME journal'.done
                   PROVE  ReverseInv'
      BY <2>a, <3>1, <3>2 DEF ReverseInv, UndoAt
    <3>3. /\ run'.pc = "idle" /\ journal'.file # "none" /\ UNCHANGED files
          /\ \A g \in GroupIds : AtDestination(g)
      BY <2>1, <2>a, <3>2, DoneSteps DEF Applying
    <3>4. InReverse'
      <4>1. Len(Contract) \in GroupIds /\ \A h \in GroupIds : ~(h > Len(Contract))
        BY ContractAssumption DEF GroupIds
      <4>2. Len(Contract[Len(Contract)]) \in 0..Len(Contract[Len(Contract)])
        BY <4>1, GroupType
      <4>3. \A k \in 1..Len(Contract[Len(Contract)]) :
              /\ dst[Contract[Len(Contract)][k]] = "media"
              /\ k <= Len(Contract[Len(Contract)])
        BY <3>3, <4>1 DEF AtDestination, InGroup
      <4>4. PassedBack(Len(Contract), Len(Contract[Len(Contract)]))'
        BY <3>3, <4>1, <4>3 DEF PassedBack, AtDestination, files
      <4> QED
        BY <4>1, <4>2, <4>4 DEF InReverse
    <3>5. Knows(undo)'
      BY <3>1 DEF Knows, UndoAt
    <3> QED
      BY <2>a, <3>1, <3>3, <3>4, <3>5 DEF ReverseInv, UndoAt, At
  <2>2. CASE Applying(Command) /\ journal.done
    BY <2>2, <2>a DEF Applying, Command, Start, Resume, Step, At
  <2>3. CASE Meddling
    <3>1. ~Untouched' /\ UNCHANGED <<run, journal, undo>>
      BY <2>3 DEF Meddling, Applying, Interfere, Fault, Strike, Untouched
    <3> QED
      BY <2>a, <3>1 DEF ReverseInv, At, UndoAt
  <2>4. ASSUME UNCHANGED <<run, journal>>, journal.done,
               Untouched' => InReverse' /\ Knows(undo)'
        PROVE  ReverseInv'
    BY <2>a, <2>4 DEF ReverseInv, At
  <2>5. ASSUME UNCHANGED files, InReverse, Knows(undo')
        PROVE  InReverse' /\ Knows(undo)'
    <3>1. InReverse'
      BY <2>5 DEF InReverse, PassedBack, AtSource, AtDestination, files
    <3> QED
      BY <2>5, <3>1 DEF Knows, ListedInReverse, Remain, Left, AtSource, files
  <2>6. CASE StartRollback \/ ResumeRollback
    <3>1. UNCHANGED <<files, run, journal>> /\ journal.done
      BY <2>6, <2>a, BeginRollbackType DEF StartRollback, ResumeRollback, ApplyCompleted
    <3>2. CASE StartRollback
      <4>1. UndoLogs("rollback-started", {}, Last)
              \/ UndoLogFails("rollback-started", {}, UndoIdle)
        BY <3>2 DEF StartRollback
      <4>2. Knows(undo')
        BY <4>1, KnowsNothing, LogsKnow, UndoIdlePlace DEF UndoPlace
      <4> QED
        BY <2>4, <2>5, <2>b, <3>1, <4>2
    <3>3. CASE ResumeRollback
      BY <2>4, <2>5, <2>b, <3>1, <3>3, KnowsNothing DEF ResumeRollback
    <3> QED
      BY <2>6, <3>2, <3>3
  <2>7. CASE RollbackStep
    <3>1. UNCHANGED <<run, journal>> /\ journal.done
      BY <2>7, <2>a DEF RollbackStep
    <3>2. SUFFICES ASSUME Untouched'
                   PROVE  InReverse' /\ Knows(undo)'
      BY <2>4, <3>1
    <3>3. InReverse /\ Knows(undo) /\ Conservation
      BY <2>b, <3>1, <3>2
    <3>4. CASE ~RenameBack
      <4>1. UNCHANGED files
        BY <2>7, <3>4, Zenon DEF RollbackStep, SkipRestoredGroup, ScanGroup, ClassifyMember,
           BeginRollbackGroup, RevalidateRollbackGroup, StartRestore, RecordRestore,
           CompleteRollbackGroup, FailRollbackGroup, FinishRollback, CrashRollback,
           InterruptRollback
      <4> QED
        BY <2>5, <2>7, <2>a, <3>3, <3>4, <4>1, StillKnows
    <3>5. CASE RenameBack
      <4>1. CASE MoveBack(undo.pending[undo.i]) /\ UndoGoesTo(UndoTo("restored"))
        BY <2>a, <3>3, <3>5, <4>1, MovesTheLast
      <4>2. CASE UNCHANGED files /\ (UndoGoesTo(UndoTo("failed")) \/ UndoIoFails)
        <5>1. /\ UndoTo("failed").pc = "failed" /\ UndoTo("failed").g = undo.g
              /\ undo.pc = "rename"
          BY <2>a, <3>5 DEF RollbackTypeInv, UndoPlace, UndoRuns, UndoTo, RenameBack, UndoAt
        <5>2. Knows(UndoTo("failed"))
          BY <3>3, <5>1 DEF Knows
        <5> QED
          BY <2>5, <3>3, <4>2, <5>2, GoesToKnows
      <4> QED
        BY <3>5, <4>1, <4>2 DEF RenameBack
    <3> QED
      BY <3>4, <3>5
  <2>8. CASE UNCHANGED rollbackVars
    <3>1. UNCHANGED <<files, run, journal, undo, faults>>
      BY <2>8 DEF rollbackVars, vars, applyVars
    <3>2. (InReverse /\ Knows(undo)) => (InReverse' /\ Knows(undo)')
      BY <2>5, <3>1
    <3> QED
      BY <2>a, <2>b, <3>1, <3>2 DEF ReverseInv, At, UndoAt
  <2> QED
    BY <1>2, <2>1, <2>2, <2>3, <2>6, <2>7, <2>8 DEF RollbackNext
<1> QED
  BY <1>1, <1>2

\* From the completed apply on, through every failure, resume and repetition of
\* the rollback, the library is in a state that the apply passed through, until
\* another program changes it.
THEOREM RollbackReversesOrder ==
  ASSUME Contract # <<>>
  PROVE  RollbackSpec => []ReverseOrder
<1>1. ReverseInv => ReverseOrder
  BY DEF ReverseInv, InReverse, PassedBack, ReverseOrder
<1> QED
  BY <1>1, ReverseInductive, PTL DEF RollbackSpec
===============================================================================
