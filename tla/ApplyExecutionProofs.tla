------------------------- MODULE ApplyExecutionProofs -------------------------
(***************************************************************************)
(* Proofs about ApplyExecution, for every contract and every number of     *)
(* faults.                                                                 *)
(***************************************************************************)
EXTENDS ApplyExecution, TLAPS

\* Where the loops may be: r.g names a group, r.i a member of the list that the
\* phase walks.
Placed(r) ==
  /\ r \in Runs
  /\ r.pc \notin {"idle", "group"} => r.g \in GroupIds
  /\ r.pc \in {"scan", "prepare"} => r.i >= 1
  /\ r.pc \in {"mkdir", "rename", "renamed"} => r.i \in 1..Len(r.pending)
  /\ r.pc = "undo" => r.i \in 0..Len(r.completed)
  /\ r.pc \in {"undo-rename", "undone"} => r.i \in 1..Len(r.completed)

TypeInv == TypeOK /\ Placed(run)

MemberEvents == {"member-started", "member-completed", "member-rollback-started",
                 "member-rollback-completed"}

\* An operation on the files, or a look at them, raises.
Fails(next) == IoFails(next) \/ ReadFails(next)

USE DEF Fails

-------------------------------------------------------------------------------
(* The files. *)

\* Each file operation leaves the files well typed, and no file in a directory
\* that does not exist.
LEMMA FilesType ==
  ASSUME FilesTypeOK,
         \/ \E m \in Members : MakeDir(Parent[m]) \/ MoveOut(m) \/ MoveBack(m)
         \/ Meddle
         \/ UNCHANGED files
  PROVE  FilesTypeOK'
<1>0. Parent \in [Members -> Dirs]
  BY ParentAssumption
<1>1. CASE UNCHANGED files
  BY <1>1 DEF FilesTypeOK, files
<1>2. CASE Meddle
  BY <1>0, <1>2 DEF FilesTypeOK, Meddle, Contents
<1>3. CASE \E m \in Members : MakeDir(Parent[m]) \/ MoveOut(m) \/ MoveBack(m)
  <2>1. PICK m \in Members : MakeDir(Parent[m]) \/ MoveOut(m) \/ MoveBack(m)
    BY <1>3
  <2>2. CASE MakeDir(Parent[m])
    BY <1>0, <2>2 DEF FilesTypeOK, MakeDir, Contents
  <2>3. CASE MoveOut(m)
    BY <1>0, <2>3 DEF FilesTypeOK, MoveOut, CanMoveOut, Contents
  <2>4. CASE MoveBack(m)
    BY <1>0, <2>4 DEF FilesTypeOK, MoveBack, CanMoveBack, Contents
  <2> QED
    BY <2>1, <2>2, <2>3, <2>4
<1> QED
  BY <1>1, <1>2, <1>3

-------------------------------------------------------------------------------
(* The control states an action may go to. *)

\* A group is a sequence of members.
LEMMA GroupType ==
  ASSUME NEW g \in GroupIds
  PROVE  /\ g \in Nat
         /\ Contract[g] \in Seq(Members) /\ Len(Contract[g]) \in Nat
         /\ \A k \in 1..Len(Contract[g]) : Contract[g][k] \in Members
<1>1. Contract \in Seq(Seq(Members)) /\ Len(Contract) \in Nat
  BY ContractAssumption
<1>2. Contract[g] \in Seq(Members)
  BY <1>1 DEF GroupIds
<1> QED
  BY <1>1, <1>2 DEF GroupIds

\* What the types of the lists of a control state say.
LEMMA RunType ==
  ASSUME NEW r \in Runs
  PROVE  /\ r.g \in Nat /\ r.i \in Nat
         /\ r.pending \in Seq(Members) /\ Len(r.pending) \in Nat
         /\ r.completed \in Seq(Members) /\ Len(r.completed) \in Nat
         /\ \A k \in 1..Len(r.pending) : r.pending[k] \in Members
         /\ \A k \in 1..Len(r.completed) : r.completed[k] \in Members
<1>1. r.pending \in Seq(Members) /\ r.completed \in Seq(Members)
      /\ r.g \in Nat /\ r.i \in Nat
  BY DEF Runs
<1> QED
  BY <1>1

LEMMA IdlePlaced == Placed(Idle)
BY DEF Placed, Idle, Runs, Phases

LEMMA FirstPlaced == Placed(First)
<1>1. Idle \in Runs /\ "group" \in Phases /\ 1 \in Nat
  BY IdlePlaced DEF Placed, Phases
<1>2. First \in Runs /\ First.pc = "group"
  BY <1>1 DEF First, Runs
<1> QED
  BY <1>2 DEF Placed

\* The handler starts a rollback at the end of completed.
LEMMA UndoPlaced ==
  ASSUME NEW r \in Runs, r.g \in GroupIds
  PROVE  Placed(Undo(r))
<1>1. Len(r.completed) \in Nat
  BY RunType
<1>2. Undo(r) \in Runs
  BY <1>1 DEF Undo, Runs, Phases
<1>3. Undo(r).pc = "undo" /\ Undo(r).g = r.g /\ Undo(r).i = Len(r.completed)
      /\ Undo(r).completed = r.completed
  BY DEF Undo, Runs
<1> QED
  BY <1>1, <1>2, <1>3 DEF Placed

\* The loops stay where they are.
LEMMA ToPlaced ==
  ASSUME run \in Runs, run.g \in GroupIds
  PROVE  /\ Placed(To("recorded"))
         /\ run.i \in 1..Len(run.pending) =>
               \A phase \in {"prepare", "mkdir", "rename", "renamed"} : Placed(To(phase))
         /\ run.i \in 1..Len(run.completed) =>
               \A phase \in {"undo-rename", "undone"} : Placed(To(phase))
<1>1. ASSUME NEW phase \in Phases
      PROVE  /\ To(phase) \in Runs
             /\ To(phase).pc = phase /\ To(phase).g = run.g /\ To(phase).i = run.i
             /\ To(phase).pending = run.pending /\ To(phase).completed = run.completed
  BY DEF To, Runs
<1>2. Len(run.pending) \in Nat /\ Len(run.completed) \in Nat
  BY RunType
<1>3. \A phase \in {"prepare", "mkdir", "rename", "renamed", "recorded", "undo-rename", "undone"} :
        phase \in Phases
  BY DEF Phases
<1> QED
  BY <1>1, <1>2, <1>3 DEF Placed

\* The rollback goes on with the member before.
LEMMA NextUndoPlaced ==
  ASSUME run \in Runs, run.g \in GroupIds, run.i \in 1..Len(run.completed)
  PROVE  Placed(NextUndo) /\ Placed(UndoFailed)
<1>1. run.i - 1 \in Nat /\ run.i - 1 \in 0..Len(run.completed)
  BY RunType
<1>2. NextUndo \in Runs /\ UndoFailed \in Runs
  BY <1>1 DEF UndoFailed, NextUndo, Runs, Phases
<1>3. /\ NextUndo.pc = "undo" /\ NextUndo.i = run.i - 1
      /\ NextUndo.completed = run.completed /\ NextUndo.g = run.g
  BY DEF NextUndo, Runs
<1>4. /\ UndoFailed.pc = "undo" /\ UndoFailed.i = run.i - 1
      /\ UndoFailed.completed = run.completed /\ UndoFailed.g = run.g
  BY DEF UndoFailed, NextUndo, Runs
<1> QED
  BY <1>1, <1>2, <1>3, <1>4 DEF Placed

\* A line the process does not know of moves nothing in its control state.
LEMMA AheadPlaced ==
  ASSUME NEW r, Placed(r)
  PROVE  Placed([r EXCEPT !.ahead = r.pc # "idle"])
BY DEF Placed, Runs

-------------------------------------------------------------------------------
(* The journal. *)

\* Whatever is appended, the journal stays well typed.
LEMMA WrittenType ==
  ASSUME TypeOK, NEW event, NEW m,
         event \in MemberEvents => m \in Members,
         event = "group-completed" => run.g \in GroupIds
  PROVE  Written(event, m) \in Journals
<1>1. Replay(event, m) \in Journals
  BY DEF TypeOK, Replay, MovedBack, Journals, MemberEvents, Outcomes
<1> QED
  BY <1>1 DEF TypeOK, Written, Journals

\* A fault keeps the record of the faults well typed.
LEMMA FaultType ==
  ASSUME faults \in FaultRecords, NEW kinds, Strike(kinds)
  PROVE  faults' \in FaultRecords
BY FaultAssumption DEF Strike, FaultRecords

\* append() returns or raises: what follows is well typed.
LEMMA LogsType ==
  ASSUME TypeOK, NEW event, NEW m, NEW next, NEW otherwise,
         Placed(next), Placed(otherwise),
         event \in MemberEvents => m \in Members,
         event = "group-completed" => run.g \in GroupIds,
         Logs(event, m, next) \/ LogFails(event, m, otherwise)
  PROVE  journal' \in Journals /\ faults' \in FaultRecords /\ Placed(run')
<1>1. Written(event, m) \in Journals
  BY WrittenType
<1>2. [journal EXCEPT !.file = "unreadable"] \in Journals
  BY DEF TypeOK, Journals
<1>3. Placed([otherwise EXCEPT !.ahead = otherwise.pc # "idle"])
  BY AheadPlaced
<1>4. CASE Logs(event, m, next)
  BY <1>1, <1>4 DEF TypeOK, Logs, NoFault
<1>5. CASE LogFails(event, m, otherwise)
  <2>1. faults' \in FaultRecords
    BY <1>5, FaultType DEF TypeOK, LogFails, Fault, DiesWriting
  <2> QED
    BY <1>1, <1>2, <1>3, <1>5, <2>1, IdlePlaced DEF TypeOK, LogFails
<1> QED
  BY <1>4, <1>5

\* A step that appends nothing.
LEMMA GoesToType ==
  ASSUME TypeOK, NEW next, Placed(next), GoesTo(next) \/ Fails(next)
  PROVE  journal' \in Journals /\ faults' \in FaultRecords /\ Placed(run')
BY FaultType DEF TypeOK, GoesTo, IoFails, ReadFails, Fault, NoFault

-------------------------------------------------------------------------------
(* Type correctness. *)

\* Each step of a running executor keeps the run and the journal well typed and
\* its loops inside their lists.
LEMMA ExecuteType ==
  ASSUME TypeInv, ~At("idle"), Execute
  PROVE  journal' \in Journals /\ faults' \in FaultRecords /\ Placed(run')
<1> USE DEF TypeInv
<1>a. run \in Runs /\ journal \in Journals /\ faults \in FaultRecords
  BY DEF TypeOK
<1>n. run.g \in Nat /\ run.i \in Nat /\ Len(run.pending) \in Nat /\ Len(run.completed) \in Nat
  BY <1>a, RunType
<1>b. run.g \in GroupIds => Placed(Rollback)
  BY <1>a, UndoPlaced DEF Rollback
<1>1. CASE SkipGroup
  <2> DEFINE next == [run EXCEPT !.g = @ + 1]
  <2>1. next \in Runs
    BY <1>a, <1>n DEF Runs
  <2>2. next.pc = "group"
    BY <1>1, <1>a DEF SkipGroup, At, Runs
  <2>3. Placed(next)
    BY <2>1, <2>2 DEF Placed
  <2> QED
    BY <1>1, <2>3, IdlePlaced, GoesToType DEF SkipGroup
<1>2. CASE EnterGroup
  <2>1. run.g \in GroupIds
    BY <1>2 DEF EnterGroup
  <2>2. Entered \in Runs
    <3>1. <<>> \in Seq(Members) /\ "scan" \in Phases /\ 1 \in Nat
      BY DEF Phases
    <3> QED
      BY <1>a, <3>1 DEF Entered, Runs
  <2>3. Entered.pc = "scan" /\ Entered.g = run.g /\ Entered.i = 1
    BY <1>a DEF Entered, Runs
  <2>4. Placed(Entered)
    BY <2>1, <2>2, <2>3 DEF Placed
  <2> QED
    BY <1>2, <2>4, GoesToType DEF EnterGroup
<1>3. CASE ScanMember
  <2> DEFINE m == Contract[run.g][run.i]
             moved == [run EXCEPT !.i = @ + 1, !.completed = Append(@, m)]
             toDo == [run EXCEPT !.i = @ + 1, !.pending = Append(@, m)]
  <2>1. m \in Members /\ run.pc = "scan" /\ run.g \in GroupIds /\ run.i + 1 \in Nat /\ run.i + 1 >= 1
    BY <1>3, <1>n, GroupType DEF ScanMember, At, Placed
  <2>2. Append(run.completed, m) \in Seq(Members)
        /\ Append(run.pending, m) \in Seq(Members)
    BY <1>a, <2>1, RunType
  <2>3. moved \in Runs /\ toDo \in Runs
    BY <1>a, <2>1, <2>2 DEF Runs
  <2>4. /\ moved.pc = "scan" /\ moved.g = run.g /\ moved.i >= 1
        /\ toDo.pc = "scan" /\ toDo.g = run.g /\ toDo.i >= 1
    BY <1>a, <2>1 DEF Runs
  <2>5. Placed(moved) /\ Placed(toDo)
    BY <2>1, <2>3, <2>4 DEF Placed
  <2> HIDE DEF m, moved, toDo
  <2>6. \/ GoesTo(moved) \/ GoesTo(toDo) \/ Fails(toDo) \/ GoesTo(Idle) \/ Fails(Idle)
        \/ Logs("member-completed", m, moved) \/ LogFails("member-completed", m, Idle)
    BY <1>3 DEF ScanMember, m, moved, toDo
  <2> QED
    BY <2>1, <2>5, <2>6, IdlePlaced, GoesToType, LogsType
<1>4. CASE BeginGroup
  <2>1. Placed(To("revalidate"))
    BY <1>4, <1>a DEF BeginGroup, To, At, Placed, Runs, Phases
  <2> QED
    BY <1>4, <2>1, IdlePlaced, LogsType DEF BeginGroup, MemberEvents
<1>5. CASE Finish
  BY <1>5, IdlePlaced, LogsType, GoesToType DEF Finish, MemberEvents
<1>6. CASE RevalidateGroup
  <2> DEFINE next == [run EXCEPT !.pc = "prepare", !.i = 1]
  <2>1. run.g \in GroupIds
    BY <1>6 DEF RevalidateGroup, At, Placed
  <2>2. next \in Runs
    BY <1>a DEF Runs, Phases
  <2>3. next.pc = "prepare" /\ next.i = 1 /\ next.g = run.g
    BY <1>a DEF Runs
  <2>4. Placed(next)
    BY <2>1, <2>2, <2>3 DEF Placed
  <2> QED
    BY <1>6, <1>a, <1>b, <2>1, <2>4, GoesToType DEF RevalidateGroup
<1>7. CASE PrepareMember
  <2>1. run.g \in GroupIds /\ run.pc = "prepare" /\ run.i \in 1..Len(run.pending)
    BY <1>7 DEF PrepareMember, At, Placed
  <2>2. run.pending[run.i] \in Members
    BY <1>a, <2>1, RunType
  <2>3. Placed(To("mkdir")) /\ Placed(To("rename"))
    BY <1>a, <2>1, ToPlaced
  <2> QED
    BY <1>7, <1>b, <2>1, <2>2, <2>3, LogsType, GoesToType
    DEF PrepareMember, StartMember, MemberEvents
<1>8. CASE MakeParent
  <2>1. run.g \in GroupIds /\ run.pc = "mkdir" /\ run.i \in 1..Len(run.pending)
    BY <1>8 DEF MakeParent, At, Placed
  <2>2. Placed(To("prepare"))
    BY <1>a, <2>1, ToPlaced
  <2>3. \/ GoesTo(Rollback) \/ Fails(Rollback)
        \/ \E m \in {run.pending[run.i]} : \/ Logs("directory-created", m, To("prepare"))
                                         \/ LogFails("directory-created", m, Rollback)
    BY <1>8 DEF MakeParent
  <2> QED
    BY <1>b, <2>1, <2>2, <2>3, LogsType, GoesToType DEF MemberEvents
<1>9. CASE RenameMember
  <2>1. run.g \in GroupIds /\ run.pc = "rename" /\ run.i \in 1..Len(run.pending)
    BY <1>9 DEF RenameMember, At, Placed
  <2>2. Placed(To("renamed"))
    BY <1>a, <2>1, ToPlaced
  <2> QED
    BY <1>9, <1>a, <1>b, <2>1, <2>2, GoesToType DEF RenameMember
<1>10. CASE RecordMember
  <2> DEFINE next == [Moved EXCEPT !.pc = "prepare", !.i = @ + 1]
  <2>1. run.g \in GroupIds /\ run.pc = "renamed" /\ run.i \in 1..Len(run.pending)
    BY <1>10 DEF RecordMember, At, Placed
  <2>2. run.pending[run.i] \in Members
    BY <1>a, <2>1, RunType
  <2>3. Append(run.completed, run.pending[run.i]) \in Seq(Members)
    BY <1>a, <2>2, RunType
  <2>4. Moved \in Runs /\ Moved.g = run.g /\ Moved.i = run.i
    BY <1>a, <2>3 DEF Moved, Runs
  <2>5. Placed(Undo(Moved))
    BY <2>1, <2>4, UndoPlaced
  <2>6. next \in Runs
    <3>1. Moved.i + 1 \in Nat /\ "prepare" \in Phases
      BY <1>n, <2>4 DEF Phases
    <3> QED
      BY <3>1, <2>4 DEF Runs
  <2>7. next.pc = "prepare" /\ next.g = run.g /\ next.i >= 1
    BY <1>n, <2>4 DEF Runs
  <2>8. Placed(next)
    BY <2>1, <2>6, <2>7 DEF Placed
  <2> QED
    <3> HIDE DEF next
    <3>1. \/ GoesTo(Undo(Moved)) \/ Fails(Undo(Moved))
          \/ LET m == run.pending[run.i]
             IN Logs("member-completed", m, next) \/ LogFails("member-completed", m, Undo(Moved))
      BY <1>10 DEF RecordMember, next
    <3> QED
      BY <2>2, <2>5, <2>8, <3>1, LogsType, GoesToType DEF MemberEvents
<1>11. CASE CompleteGroup
  <2>1. run.g \in GroupIds
    BY <1>11 DEF CompleteGroup, At, Placed
  <2>2. Placed(To("recorded"))
    BY <1>a, <2>1, ToPlaced
  <2>3. Logs("group-completed", {}, To("recorded"))
          \/ LogFails("group-completed", {}, Rollback)
    BY <1>11 DEF CompleteGroup
  <2> QED
    BY <1>b, <2>1, <2>2, <2>3, LogsType DEF MemberEvents
<1>12. CASE UndoMember
  <2>1. run.pc = "undo" /\ run.g \in GroupIds /\ run.i \in 1..Len(run.completed)
    BY <1>12 DEF UndoMember, At, Placed
  <2>2. run.completed[run.i] \in Members
    BY <1>a, <2>1, RunType
  <2>3. Placed(UndoFailed) /\ Placed(To("undo-rename"))
    BY <1>a, <2>1, ToPlaced, NextUndoPlaced
  <2>4. \/ GoesTo(UndoFailed) \/ Fails(UndoFailed)
        \/ \E next \in {UndoFailed, To("undo-rename")} :
             LET m == run.completed[run.i]
             IN Logs("member-rollback-started", m, next)
                  \/ LogFails("member-rollback-started", m, next)
    BY <1>12 DEF UndoMember
  <2> QED
    BY <2>2, <2>3, <2>4, LogsType, GoesToType DEF MemberEvents
<1>13. CASE UndoRename
  <2>1. run.pc = "undo-rename" /\ run.g \in GroupIds /\ run.i \in 1..Len(run.completed)
    BY <1>13 DEF UndoRename, At, Placed
  <2>2. Placed(UndoFailed) /\ Placed(To("undone"))
    BY <1>a, <2>1, ToPlaced, NextUndoPlaced
  <2> QED
    BY <1>13, <1>a, <2>2, GoesToType DEF UndoRename
<1>14. CASE RecordUndo
  <2>1. run.pc = "undone" /\ run.g \in GroupIds /\ run.i \in 1..Len(run.completed)
    BY <1>14 DEF RecordUndo, At, Placed
  <2>2. Placed(UndoFailed) /\ Placed(NextUndo) /\ run.completed[run.i] \in Members
    BY <1>a, <2>1, RunType, NextUndoPlaced
  <2>3. \/ GoesTo(UndoFailed) \/ Fails(UndoFailed)
        \/ LET m == run.completed[run.i]
           IN Logs("member-rollback-completed", m, NextUndo)
                \/ LogFails("member-rollback-completed", m, NextUndo)
    BY <1>14 DEF RecordUndo
  <2> QED
    BY <2>2, <2>3, LogsType, GoesToType DEF MemberEvents
<1>15. CASE FailGroup
  BY <1>15, IdlePlaced, LogsType DEF FailGroup, MemberEvents
<1>16. CASE LeaveGroup
  <2> DEFINE next == [run EXCEPT !.pc = "group", !.g = @ + 1]
  <2>1. run.g + 1 \in Nat
    BY <1>n
  <2>2. next \in Runs
    BY <1>a, <2>1 DEF Runs, Phases
  <2>3. next.pc = "group"
    BY <1>a DEF Runs
  <2>4. Placed(next)
    BY <2>2, <2>3 DEF Placed
  <2> HIDE DEF next
  <2>5. GoesTo(next)
    BY <1>16 DEF LeaveGroup, next
  <2> QED
    BY <1>a, <2>4, <2>5, GoesToType
<1> QED
  BY <1>1, <1>2, <1>3, <1>4, <1>5, <1>6, <1>7, <1>8, <1>9, <1>10, <1>11,
     <1>12, <1>13, <1>14, <1>15, <1>16 DEF Execute

\* A step of the executor touches the files by one file operation on the member
\* it is at, or not at all.
LEMMA StepFiles ==
  ASSUME TypeInv, Step
  PROVE  \/ \E m \in Members : MakeDir(Parent[m]) \/ MoveOut(m) \/ MoveBack(m)
         \/ UNCHANGED files
<1>1. CASE MakeParent
  <2>1. run.pending[run.i] \in Members
    BY <1>1, RunType DEF MakeParent, At, TypeInv, Placed
  <2> QED
    BY <1>1, <2>1 DEF MakeParent
<1>2. CASE RenameMember
  <2>1. run.pending[run.i] \in Members
    BY <1>2, RunType DEF RenameMember, At, TypeInv, Placed
  <2> QED
    BY <1>2, <2>1 DEF RenameMember
<1>3. CASE UndoRename
  <2>1. run.completed[run.i] \in Members
    BY <1>3, RunType DEF UndoRename, At, TypeInv, Placed
  <2> QED
    BY <1>3, <2>1 DEF UndoRename
<1>4. CASE ~MakeParent /\ ~RenameMember /\ ~UndoRename
  BY <1>4 DEF Step, Execute, SkipGroup, EnterGroup, ScanMember, BeginGroup, Finish,
     RevalidateGroup, PrepareMember, RecordMember, CompleteGroup, LeaveGroup, UndoMember,
     RecordUndo, FailGroup, Crash, Interrupt, files
<1> QED
  BY <1>1, <1>2, <1>3, <1>4

\* The type invariant with the bounds of the loops is inductive.
LEMMA TypeInvInductive ==
  /\ Init => TypeInv
  /\ TypeInv /\ [Next]_vars => TypeInv'
<1>1. ASSUME Init
      PROVE  TypeInv
  <2>1. FilesTypeOK
    BY <1>1 DEF Init, FilesInit, FilesTypeOK, Contents
  <2>2. run \in Runs /\ Placed(run)
    BY <1>1, IdlePlaced DEF Init, Placed
  <2>3. journal \in Journals
    BY <1>1 DEF Init, Journals, Outcomes
  <2>4. faults \in FaultRecords /\ lock \in {"free", "apply", "rollback"}
    BY <1>1, FaultAssumption DEF Init, NoneYet, FaultRecords
  <2> QED
    BY <2>1, <2>2, <2>3, <2>4 DEF TypeInv, TypeOK
<1>2. ASSUME TypeInv, [Next]_vars
      PROVE  TypeInv'
  <2>a. TypeOK /\ Placed(run) /\ Placed(Idle)
    BY <1>2, IdlePlaced DEF TypeInv
  <2>1. CASE Start
    <3>3. Logs("run-started", {}, First) \/ LogFails("run-started", {}, Idle)
      BY <2>1 DEF Start
    <3>4. journal' \in Journals /\ faults' \in FaultRecords /\ Placed(run')
      BY <2>a, <3>3, FirstPlaced, LogsType DEF MemberEvents
    <3>5. FilesTypeOK'
      BY <2>1, <2>a, FilesType DEF Start, TypeOK
    <3>6. lock' \in {"free", "apply", "rollback"}
      BY <2>1, <2>a DEF Start, TakeLock, TypeOK
    <3> QED
      BY <3>4, <3>5, <3>6 DEF TypeInv, TypeOK, Placed
  <2>2. CASE Resume
    <3>1. Placed(run') /\ run' \in Runs
      BY <2>2, FirstPlaced DEF Resume, Placed
    <3>3. FilesTypeOK'
      BY <2>2, <2>a, FilesType DEF Resume, TypeOK
    <3> QED
      BY <2>2, <2>a, <3>1, <3>3 DEF Resume, TakeLock, TypeInv, TypeOK
  <2>3. CASE Step
    <3>1. journal' \in Journals /\ faults' \in FaultRecords /\ Placed(run')
      <4>1. CASE Execute
        BY <1>2, <2>3, <4>1, ExecuteType DEF Step
      <4>2. CASE Crash
        BY <2>a, <4>2, FaultType DEF Crash, Fault, TypeOK
      <4>3. CASE Interrupt
        <5>1. run.pc \in Guarded => Placed(Rollback)
          BY <2>a, UndoPlaced DEF Guarded, Rollback, Placed
        <5>2. run.pc = "renamed" => Placed(Undo(Moved))
          <6>1. SUFFICES ASSUME run.pc = "renamed"
                         PROVE  Placed(Undo(Moved))
            OBVIOUS
          <6>2. run \in Runs /\ run.g \in GroupIds /\ run.i \in 1..Len(run.pending)
            BY <2>a, <6>1 DEF Placed
          <6>3. Append(run.completed, run.pending[run.i]) \in Seq(Members)
            BY <6>2, RunType
          <6>4. Moved \in Runs /\ Moved.g = run.g
            BY <6>2, <6>3 DEF Moved, Runs
          <6> QED
            BY <6>2, <6>4, UndoPlaced
        <5> QED
          BY <2>a, <4>3, <5>1, <5>2, FaultType DEF Interrupt, Fault, At, TypeOK
      <4> QED
        BY <2>3, <4>1, <4>2, <4>3 DEF Step
    <3>2. FilesTypeOK'
      <4>1. \/ \E m \in Members : MakeDir(Parent[m]) \/ MoveOut(m) \/ MoveBack(m)
            \/ UNCHANGED files
        BY <1>2, <2>3, StepFiles
      <4> QED
        BY <2>a, <4>1, FilesType DEF TypeOK
    <3>3. lock' \in {"free", "apply", "rollback"}
      BY <2>3, <2>a DEF Step, ReleaseLock, TypeOK
    <3> QED
      BY <3>1, <3>2, <3>3 DEF TypeInv, TypeOK, Placed
  <2>4. CASE Interfere
    <3>1. FilesTypeOK'
      BY <2>4, <2>a, FilesType DEF Interfere, TypeOK
    <3> QED
      BY <2>4, <2>a, <3>1, FaultType DEF Interfere, Fault, TypeInv, TypeOK
  <2>5. CASE UNCHANGED vars
    BY <1>2, <2>5 DEF vars, applyVars, files, TypeInv, TypeOK, FilesTypeOK, Placed
  <2> QED
    BY <1>2, <2>1, <2>2, <2>3, <2>4, <2>5 DEF Next, Command
<1> QED
  BY <1>1, <1>2

\* Whatever fails and whoever interferes, the state stays well typed.
THEOREM TypeCorrectness == Spec => []TypeOK
<1>1. Init => TypeInv
  BY TypeInvInductive
<1>2. TypeInv /\ [Next]_vars => TypeInv'
  BY TypeInvInductive
<1>3. TypeInv => TypeOK
  BY DEF TypeInv
<1> QED
  BY <1>1, <1>2, <1>3, PTL DEF Spec

-------------------------------------------------------------------------------
(* No overwrite. *)

\* One file operation renames at most, and never onto an occupied path.
LEMMA OneFileOperation ==
  ASSUME FilesTypeOK,
         \/ \E m \in Members : MakeDir(Parent[m]) \/ MoveOut(m) \/ MoveBack(m)
         \/ UNCHANGED files
  PROVE  OnlyRenames
BY DEF FilesTypeOK, MakeDir, MoveOut, CanMoveOut, MoveBack, CanMoveBack, OnlyRenames, files

\* Whoever interferes, the executor never renames onto an occupied path.
THEOREM NeverOverwrites == Spec => NoOverwrite
<1>1. TypeInv /\ [Next]_vars => [~Interfere => OnlyRenames]_vars
  <2> SUFFICES ASSUME TypeInv, Next, ~Interfere
               PROVE  OnlyRenames
    OBVIOUS
  <2>1. FilesTypeOK
    BY DEF TypeInv, TypeOK
  <2>2. CASE Start \/ Resume
    BY <2>1, <2>2, OneFileOperation DEF Start, Resume
  <2>3. CASE Step
    BY <2>1, <2>3, StepFiles, OneFileOperation
  <2> QED
    BY <2>2, <2>3 DEF Next, Command
<1>2. Init => TypeInv
  BY TypeInvInductive
<1>3. TypeInv /\ [Next]_vars => TypeInv'
  BY TypeInvInductive
<1> QED
  BY <1>1, <1>2, <1>3, PTL DEF Spec, NoOverwrite

-------------------------------------------------------------------------------
(* The write-ahead journal. *)

Undoing == {"undo", "undo-rename", "undone"}

\* A process that is not undoing a group knows every line of a journal that can
\* be read; it renames only a member the journal holds as started.
Announced ==
  /\ run.pc \notin Undoing => ~run.ahead
  /\ run.pc \notin Undoing \cup {"idle"} => journal.file = "readable"
  /\ run.pc = "rename" => run.pending[run.i] \in journal.started

WriteAheadInv == TypeInv /\ Conservation /\ WriteAhead /\ Announced

\* A file operation neither loses nor copies a file.
LEMMA FilesConserved ==
  ASSUME FilesTypeOK, Conservation,
         \/ \E m \in Members : MakeDir(Parent[m]) \/ MoveOut(m) \/ MoveBack(m)
         \/ UNCHANGED files
  PROVE  Conservation'
BY DEF FilesTypeOK, Conservation, OneCopy, MakeDir, MoveOut, CanMoveOut, MoveBack,
       CanMoveBack, files

\* Only the event of a completed rollback takes a member from the started ones.
LEMMA StartedKept ==
  ASSUME TypeOK, NEW event, NEW m, NEW next, event # "member-rollback-completed",
         Logs(event, m, next) \/ LogFails(event, m, next)
  PROVE  journal.started \subseteq journal'.started
<1>1. journal.started \subseteq Replay(event, m).started
  BY DEF TypeOK, Replay, MovedBack, Journals
<1>2. Replay(event, m) \in [file : {"none", "readable", "unreadable"},
        started : {Replay(event, m).started}, completed : {Replay(event, m).completed},
        groups : {Replay(event, m).groups}, outcome : {Replay(event, m).outcome},
        done : {Replay(event, m).done}]
  BY DEF TypeOK, Replay, MovedBack, Journals
<1>3. journal.started \subseteq Written(event, m).started
  BY <1>1, <1>2 DEF TypeOK, Written, Journals
<1> QED
  BY <1>3 DEF TypeOK, Logs, LogFails, Journals

\* A process that knows every line of a readable journal appends the next one.
LEMMA KnownLogs ==
  ASSUME TypeOK, Announced, run.pc \notin Undoing \cup {"idle"},
         NEW event, NEW m, NEW next, Logs(event, m, next)
  PROVE  /\ run' = next
         /\ journal'.file = "readable"
         /\ journal' = [Replay(event, m) EXCEPT !.file = "readable"]
<1>1. journal' = [Replay(event, m) EXCEPT !.file = "readable"]
  BY DEF Logs, Written, Announced
<1>2. Replay(event, m) \in [file : {"none", "readable", "unreadable"},
        started : {Replay(event, m).started}, completed : {Replay(event, m).completed},
        groups : {Replay(event, m).groups}, outcome : {Replay(event, m).outcome},
        done : {Replay(event, m).done}]
  BY DEF TypeOK, Replay, MovedBack, Journals
<1> QED
  BY <1>1, <1>2 DEF Logs

\* Whoever gives up, or starts or continues a rollback, owes nothing.
LEMMA LeavesAnnounced ==
  ASSUME NEW next \in Runs, next = Idle \/ next.pc \in Undoing,
         \/ run' = next \/ run' = Idle
         \/ run' = [next EXCEPT !.ahead = next.pc # "idle"]
  PROVE  Announced'
<1>1. Idle.pc = "idle" /\ Idle.ahead = FALSE
  BY DEF Idle
<1>2. [next EXCEPT !.ahead = next.pc # "idle"].pc = next.pc
      /\ [next EXCEPT !.ahead = next.pc # "idle"].ahead = (next.pc # "idle")
  BY DEF Runs
<1> QED
  BY <1>1, <1>2 DEF Announced, Undoing

\* Whoever goes on with a readable journal owes only the announcement of a
\* rename.
LEMMA GoesOnAnnounced ==
  ASSUME Announced, run.pc \notin Undoing \cup {"idle"}, NEW next,
         next.ahead = run.ahead, next.pc # "rename",
         run' = next, journal'.file = "readable"
  PROVE  Announced'
BY DEF Announced

\* The two ways on from a phase that is not undoing anything.
LEMMA ForwardAnnounced ==
  ASSUME TypeOK, Announced, run.pc \notin Undoing \cup {"idle"},
         NEW on, on.ahead = run.ahead, on.pc # "rename",
         NEW off \in Runs, off = Idle \/ off.pc \in Undoing,
         NEW event, NEW m,
         \/ GoesTo(on) \/ Fails(on) \/ Logs(event, m, on)
         \/ GoesTo(off) \/ Fails(off) \/ LogFails(event, m, off)
  PROVE  Announced'
<1>1. CASE GoesTo(on) \/ Fails(on)
  BY <1>1, GoesOnAnnounced DEF GoesTo, IoFails, ReadFails, Announced
<1>2. CASE Logs(event, m, on)
  BY <1>2, KnownLogs, GoesOnAnnounced
<1>3. CASE GoesTo(off) \/ Fails(off) \/ LogFails(event, m, off)
  BY <1>3, LeavesAnnounced DEF GoesTo, IoFails, ReadFails, LogFails
<1> QED
  BY <1>1, <1>2, <1>3

\* Every step of a rollback stays in it or ends it.
LEMMA UndoAnnounced ==
  ASSUME NEW next \in Runs, next = Idle \/ next.pc \in Undoing, NEW event, NEW m,
         GoesTo(next) \/ Fails(next) \/ Logs(event, m, next) \/ LogFails(event, m, next)
  PROVE  Announced'
BY LeavesAnnounced DEF GoesTo, IoFails, ReadFails, Logs, LogFails

\* Every step of a running executor announces what it is about to rename.
LEMMA ExecuteAnnounced ==
  ASSUME TypeInv, Announced, ~At("idle"), Execute
  PROVE  Announced'
<1>a. run \in Runs /\ TypeOK /\ Idle \in Runs /\ Placed(run)
  BY IdlePlaced DEF TypeInv, TypeOK, Placed
<1>b. Rollback.pc \in Undoing /\ (run.g \in GroupIds => Rollback \in Runs)
  BY <1>a, UndoPlaced DEF Rollback, Undo, Runs, Placed, Undoing
<1>c. \A phase \in {"group", "scan", "revalidate", "prepare", "mkdir", "rename", "renamed",
              "recorded"} :
        phase \notin Undoing \cup {"idle"}
  BY DEF Undoing
<1>d. run.pc \notin {"idle", "group"} => run.g \in GroupIds
  BY <1>a DEF Placed
<1>e. \A phase \in Phases : To(phase).ahead = run.ahead /\ To(phase).pc = phase
  BY <1>a DEF To, Runs
<1>f. "revalidate" \in Phases /\ "mkdir" \in Phases /\ "prepare" \in Phases
      /\ "renamed" \in Phases /\ "recorded" \in Phases
  BY DEF Phases
<1>1. CASE SkipGroup
  <2> DEFINE on == [run EXCEPT !.g = @ + 1]
  <2>1. run.pc = "group" /\ on.ahead = run.ahead /\ on.pc # "rename"
    BY <1>1, <1>a DEF SkipGroup, At, Runs
  <2>2. GoesTo(on) \/ GoesTo(Idle) \/ Fails(Idle)
    BY <1>1 DEF SkipGroup
  <2> QED
    BY <1>a, <1>c, <2>1, <2>2, ForwardAnnounced
<1>2. CASE EnterGroup
  <2>1. run.pc = "group" /\ Entered.ahead = run.ahead /\ Entered.pc # "rename"
    BY <1>2, <1>a DEF EnterGroup, Entered, At, Runs
  <2>2. GoesTo(Entered)
    BY <1>2 DEF EnterGroup
  <2> QED
    BY <1>a, <1>c, <2>1, <2>2, ForwardAnnounced
<1>3. CASE ScanMember
  <2> DEFINE m == Contract[run.g][run.i]
             moved == [run EXCEPT !.i = @ + 1, !.completed = Append(@, m)]
             toDo == [run EXCEPT !.i = @ + 1, !.pending = Append(@, m)]
  <2>1. /\ run.pc = "scan"
        /\ moved.ahead = run.ahead /\ moved.pc # "rename"
        /\ toDo.ahead = run.ahead /\ toDo.pc # "rename"
    BY <1>3, <1>a DEF ScanMember, At, Runs
  <2> HIDE DEF m, moved, toDo
  <2>2. \/ GoesTo(moved) \/ GoesTo(toDo) \/ Fails(toDo) \/ GoesTo(Idle) \/ Fails(Idle)
        \/ Logs("member-completed", m, moved) \/ LogFails("member-completed", m, Idle)
    BY <1>3 DEF ScanMember, m, moved, toDo
  <2>3. CASE GoesTo(toDo) \/ Fails(toDo)
    BY <1>a, <1>c, <2>1, <2>3, ForwardAnnounced
  <2> QED
    BY <1>a, <1>c, <2>1, <2>2, <2>3, ForwardAnnounced
<1>4. CASE BeginGroup
  <2>1. Logs("group-started", {}, To("revalidate")) \/ LogFails("group-started", {}, Idle)
    BY <1>4 DEF BeginGroup
  <2>2. To("revalidate").ahead = run.ahead /\ To("revalidate").pc # "rename"
    BY <1>e, <1>f
  <2>3. run.pc \notin Undoing \cup {"idle"}
    BY <1>4 DEF BeginGroup, At, Undoing
  <2>4. CASE Logs("group-started", {}, To("revalidate"))
    <3>1. run' = To("revalidate") /\ journal'.file = "readable"
      BY <1>a, <2>3, <2>4, KnownLogs
    <3> QED
      BY <2>2, <2>3, <3>1, GoesOnAnnounced
  <2>5. CASE LogFails("group-started", {}, Idle)
    BY <1>a, <2>5, UndoAnnounced
  <2> QED
    BY <2>1, <2>4, <2>5
<1>5. CASE Finish
  <2>1. \/ GoesTo(Idle) \/ Fails(Idle)
        \/ Logs("run-completed", {}, Idle) \/ LogFails("run-completed", {}, Idle)
    BY <1>5 DEF Finish
  <2>2. Idle \in Runs
    BY <1>a
  <2>3. CASE GoesTo(Idle) \/ Fails(Idle)
    BY <2>2, <2>3, UndoAnnounced
  <2>4. CASE Logs("run-completed", {}, Idle) \/ LogFails("run-completed", {}, Idle)
    BY <2>2, <2>4, UndoAnnounced
  <2> QED
    BY <2>1, <2>3, <2>4
<1>6. CASE RevalidateGroup
  <2> DEFINE on == [run EXCEPT !.pc = "prepare", !.i = 1]
  <2>1. run.pc = "revalidate" /\ on.ahead = run.ahead /\ on.pc # "rename"
    BY <1>6, <1>a DEF RevalidateGroup, At, Runs
  <2>2. GoesTo(on) \/ GoesTo(Rollback) \/ Fails(Rollback)
    BY <1>6 DEF RevalidateGroup
  <2> QED
    BY <1>a, <1>b, <1>c, <1>d, <2>1, <2>2, ForwardAnnounced
<1>7. CASE PrepareMember
  <2> DEFINE m == run.pending[run.i]
  <2>1. run.pc = "prepare" /\ run.i \in 1..Len(run.pending)
    BY <1>7 DEF PrepareMember, At
  <2>2. \/ Logs("directory-create-started", m, To("mkdir"))
        \/ LogFails("directory-create-started", m, Rollback)
        \/ Logs("member-started", m, To("rename"))
        \/ LogFails("member-started", m, Rollback)
        \/ GoesTo(Rollback) \/ Fails(Rollback)
    BY <1>7 DEF PrepareMember, StartMember
  <2>3. CASE Logs("member-started", m, To("rename"))
    <3>0. journal' = [Replay("member-started", m) EXCEPT !.file = "readable"]
      BY <1>a, <1>c, <2>1, <2>3, KnownLogs
    <3>4. Replay("member-started", m) = [journal EXCEPT !.started = @ \cup {m}]
      BY DEF Replay
    <3>1. journal'.started = journal.started \cup {m}
      BY <1>a, <3>0, <3>4 DEF TypeOK, Journals
    <3>2. run' = To("rename") /\ run'.pending[run'.i] = m /\ run'.ahead = run.ahead
          /\ run'.pc = "rename"
      BY <1>a, <2>3 DEF Logs, To, Runs
    <3>3. journal'.file = "readable"
      BY <1>a, <1>c, <2>1, <2>3, KnownLogs
    <3> QED
      BY <1>c, <2>1, <3>1, <3>2, <3>3 DEF Announced
  <2>4. CASE Logs("directory-create-started", m, To("mkdir"))
    BY <1>a, <1>c, <1>e, <1>f, <2>1, <2>4, ForwardAnnounced
  <2>5. CASE \/ GoesTo(Rollback) \/ Fails(Rollback) \/ LogFails("directory-create-started", m, Rollback)
             \/ LogFails("member-started", m, Rollback)
    BY <1>b, <1>d, <2>1, <2>5, UndoAnnounced
  <2> QED
    BY <2>2, <2>3, <2>4, <2>5
<1>8. CASE MakeParent
  <2> DEFINE m == run.pending[run.i]
  <2>1. /\ run.pc = "mkdir"
        /\ \/ Logs("directory-created", m, To("prepare"))
           \/ LogFails("directory-created", m, Rollback)
           \/ GoesTo(Rollback) \/ Fails(Rollback)
    BY <1>8 DEF MakeParent, At
  <2> QED
    BY <1>a, <1>b, <1>c, <1>d, <1>e, <1>f, <2>1, ForwardAnnounced
<1>9. CASE RenameMember
  <2>1. run.pc = "rename" /\ (GoesTo(To("renamed")) \/ GoesTo(Rollback) \/ Fails(Rollback))
    BY <1>9 DEF RenameMember, At
  <2> QED
    BY <1>a, <1>b, <1>c, <1>d, <1>e, <1>f, <2>1, ForwardAnnounced
<1>10. CASE RecordMember
  <2> DEFINE m == run.pending[run.i]
             on == [Moved EXCEPT !.pc = "prepare", !.i = @ + 1]
  <2>1. run.pc = "renamed" /\ run.i \in 1..Len(run.pending)
    BY <1>10, <1>a DEF RecordMember, At, Placed
  <2>2. Append(run.completed, m) \in Seq(Members)
    BY <1>a, <2>1, RunType
  <2>3. Moved \in Runs /\ Moved.g = run.g /\ Moved.ahead = run.ahead
    BY <1>a, <2>2 DEF Moved, Runs
  <2>4. on.ahead = run.ahead /\ on.pc # "rename"
    BY <2>3 DEF Runs
  <2>5. Undo(Moved) \in Runs /\ Undo(Moved).pc \in Undoing
    BY <1>d, <2>1, <2>3, UndoPlaced DEF Undo, Runs, Placed, Undoing
  <2> HIDE DEF on
  <2>6. \/ Logs("member-completed", m, on) \/ LogFails("member-completed", m, Undo(Moved))
        \/ GoesTo(Undo(Moved)) \/ Fails(Undo(Moved))
    BY <1>10 DEF RecordMember, on
  <2> QED
    BY <1>a, <1>c, <2>1, <2>4, <2>5, <2>6, ForwardAnnounced
<1>11. CASE CompleteGroup
  <2> DEFINE on == To("recorded")
  <2>1. run.pc = "prepare" /\ on.ahead = run.ahead /\ on.pc # "rename"
    BY <1>11, <1>e, <1>f DEF CompleteGroup, At
  <2> HIDE DEF on
  <2>2. Logs("group-completed", {}, on) \/ LogFails("group-completed", {}, Rollback)
    BY <1>11 DEF CompleteGroup, on
  <2> QED
    BY <1>a, <1>b, <1>c, <1>d, <2>1, <2>2, ForwardAnnounced
<1>r. run.pc \in Undoing /\ run.i \in 1..Len(run.completed) =>
        /\ NextUndo \in Runs /\ NextUndo.pc \in Undoing
        /\ UndoFailed \in Runs /\ UndoFailed.pc \in Undoing
        /\ \A phase \in {"undo-rename", "undone"} :
             To(phase) \in Runs /\ To(phase).pc \in Undoing
  <2> SUFFICES ASSUME run.pc \in Undoing, run.i \in 1..Len(run.completed)
               PROVE  /\ NextUndo \in Runs /\ NextUndo.pc \in Undoing
                      /\ UndoFailed \in Runs /\ UndoFailed.pc \in Undoing
                      /\ \A phase \in {"undo-rename", "undone"} :
                           To(phase) \in Runs /\ To(phase).pc \in Undoing
    OBVIOUS
  <2>1. run.g \in GroupIds
    BY <1>d DEF Undoing
  <2>2. NextUndo \in Runs /\ UndoFailed \in Runs
        /\ \A phase \in {"undo-rename", "undone"} : To(phase) \in Runs
    BY <1>a, <2>1, NextUndoPlaced, ToPlaced DEF Placed
  <2>3. NextUndo.pc = "undo" /\ UndoFailed.pc = "undo"
    BY <1>a DEF NextUndo, UndoFailed, Runs
  <2>4. \A phase \in {"undo-rename", "undone"} : To(phase).pc = phase
    BY <1>a DEF To, Runs
  <2> QED
    BY <2>2, <2>3, <2>4 DEF Undoing
<1>12. CASE UndoMember
  <2>1. run.pc \in Undoing /\ run.i \in 1..Len(run.completed)
    BY <1>12 DEF UndoMember, At, Undoing
  <2>2. \/ GoesTo(UndoFailed) \/ Fails(UndoFailed)
        \/ \E next \in {UndoFailed, To("undo-rename")} :
             LET m == run.completed[run.i]
             IN Logs("member-rollback-started", m, next)
                  \/ LogFails("member-rollback-started", m, next)
    BY <1>12 DEF UndoMember
  <2> QED
    BY <1>r, <2>1, <2>2, UndoAnnounced
<1>13. CASE UndoRename
  <2>1. run.pc \in Undoing /\ run.i \in 1..Len(run.completed)
    BY <1>13, <1>a DEF UndoRename, At, Undoing, Placed
  <2>2. GoesTo(To("undone")) \/ GoesTo(UndoFailed) \/ Fails(UndoFailed)
    BY <1>13 DEF UndoRename
  <2> QED
    BY <1>r, <2>1, <2>2, UndoAnnounced
<1>14. CASE RecordUndo
  <2>1. run.pc \in Undoing /\ run.i \in 1..Len(run.completed)
    BY <1>14, <1>a DEF RecordUndo, At, Undoing, Placed
  <2>2. \/ GoesTo(UndoFailed) \/ Fails(UndoFailed)
        \/ LET m == run.completed[run.i]
           IN Logs("member-rollback-completed", m, NextUndo)
                \/ LogFails("member-rollback-completed", m, NextUndo)
    BY <1>14 DEF RecordUndo
  <2> QED
    BY <1>r, <2>1, <2>2, UndoAnnounced
<1>15. CASE FailGroup
  BY <1>15, <1>a, UndoAnnounced DEF FailGroup
<1>16. CASE LeaveGroup
  <2> DEFINE on == [run EXCEPT !.pc = "group", !.g = @ + 1]
  <2>1. run.pc = "recorded" /\ on.ahead = run.ahead /\ on.pc # "rename"
    BY <1>16, <1>a DEF LeaveGroup, At, Runs
  <2> HIDE DEF on
  <2>2. GoesTo(on)
    BY <1>16 DEF LeaveGroup, on
  <2> QED
    BY <1>a, <1>c, <2>1, <2>2, ForwardAnnounced
<1> QED
  BY <1>1, <1>2, <1>3, <1>4, <1>5, <1>6, <1>7, <1>8, <1>9, <1>10, <1>11,
     <1>12, <1>13, <1>14, <1>15, <1>16 DEF Execute

\* What a step does to the journal's started members: only the event of a
\* completed rollback takes one away, and that one is back at its source.
LEMMA StartedSteps ==
  ASSUME TypeInv, ~At("idle"), Execute
  PROVE  \/ journal.started \subseteq journal'.started
         \/ /\ UNCHANGED files
            /\ \E m \in Members : dst[m] = "absent" /\ journal.started \ {m} \subseteq journal'.started
<1>a. TypeOK
  BY DEF TypeInv
<1>1. CASE RecordUndo
  <2> DEFINE m == run.completed[run.i]
  <2>1. m \in Members
    BY <1>1, RunType DEF RecordUndo, At, TypeInv, Placed
  <2>2. CASE Restored(m) /\ ~ReadFails(UndoFailed)
    <3>1. Logs("member-rollback-completed", m, NextUndo)
            \/ LogFails("member-rollback-completed", m, NextUndo)
      BY <1>1, <2>2 DEF RecordUndo
    <3>2. Replay("member-rollback-completed", m).started = journal.started \ {m}
      BY <1>a DEF Replay, MovedBack, TypeOK, Journals
    <3>3. Replay("member-rollback-completed", m) \in Journals
      BY <1>a, <2>1 DEF Replay, MovedBack, TypeOK, Journals
    <3>4. journal.started \ {m} \subseteq Written("member-rollback-completed", m).started
      BY <1>a, <3>2, <3>3 DEF Written, TypeOK, Journals
    <3>5. journal.started \ {m} \subseteq journal'.started
      BY <1>a, <3>1, <3>4 DEF Logs, LogFails, TypeOK, Journals
    <3> QED
      BY <1>1, <2>1, <2>2, <3>5 DEF RecordUndo, Restored
  <2>3. CASE ~Restored(m) \/ ReadFails(UndoFailed)
    BY <1>1, <2>3 DEF RecordUndo, GoesTo, ReadFails
  <2> QED
    BY <2>2, <2>3
<1>2. CASE ~RecordUndo
  <2>1. \/ UNCHANGED journal
        \/ \E event \in {"member-started", "member-completed", "member-rollback-started",
               "group-completed", "group-started", "rolled-back", "rollback-incomplete",
               "run-completed", "directory-create-started", "directory-created"} :
             \E m, next : Logs(event, m, next) \/ LogFails(event, m, next)
    BY <1>2, Zenon DEF Execute, SkipGroup, EnterGroup, ScanMember, BeginGroup, Finish,
       RevalidateGroup, PrepareMember, StartMember, MakeParent, RenameMember,
       RecordMember, CompleteGroup, LeaveGroup, UndoMember, UndoRename, FailGroup, GoesTo, IoFails, ReadFails
  <2> QED
    BY <1>a, <2>1, StartedKept
<1> QED
  BY <1>1, <1>2

\* The invariant of the write-ahead journal is inductive while nobody interferes.
LEMMA WriteAheadInductive ==
  ASSUME "meddle" \notin Faults
  PROVE  /\ Init => WriteAheadInv
         /\ WriteAheadInv /\ [Next]_vars => WriteAheadInv'
<1>1. ASSUME Init
      PROVE  WriteAheadInv
  <2>1. TypeInv
    BY <1>1, TypeInvInductive
  <2>2. Conservation /\ WriteAhead
    BY <1>1 DEF Init, FilesInit, Conservation, OneCopy, WriteAhead
  <2>3. Announced
    BY <1>1 DEF Init, Idle, Announced
  <2> QED
    BY <2>1, <2>2, <2>3 DEF WriteAheadInv
<1>2. ASSUME WriteAheadInv, [Next]_vars
      PROVE  WriteAheadInv'
  <2>a. TypeInv /\ TypeOK /\ FilesTypeOK /\ Conservation /\ WriteAhead /\ Announced
    BY <1>2 DEF WriteAheadInv, TypeInv, TypeOK
  <2>t. TypeInv'
    BY <1>2, <2>a, TypeInvInductive
  <2>1. CASE Start
    <3>1. UNCHANGED files /\ (Logs("run-started", {}, First) \/ LogFails("run-started", {}, Idle))
      BY <2>1 DEF Start
    <3>2. Conservation'
      BY <2>a, <3>1, FilesConserved
    <3>3. journal.started \subseteq journal'.started
      BY <2>a, <3>1, StartedKept
    <3>4. Announced'
      <4>1. Idle \in Runs /\ First.pc = "group" /\ First.ahead = FALSE
        BY IdlePlaced DEF Placed, First, Idle
      <4>2. CASE Logs("run-started", {}, First)
        <5>1. ~run.ahead /\ journal.file = "none"
          BY <2>1, <2>a DEF Start, At, Announced, Undoing
        <5>2. journal' = [Replay("run-started", {}) EXCEPT !.file = "readable"]
          BY <4>2, <5>1 DEF Logs, Written
        <5>3. Replay("run-started", {}) = journal
          BY DEF Replay
        <5>4. journal'.file = "readable"
          BY <2>a, <5>2, <5>3 DEF TypeOK, Journals
        <5> QED
          BY <4>1, <4>2, <5>4 DEF Logs, Announced
      <4>3. CASE LogFails("run-started", {}, Idle)
        BY <4>1, <4>3, UndoAnnounced
      <4> QED
        BY <3>1, <4>2, <4>3
    <3> QED
      BY <2>a, <2>t, <3>1, <3>2, <3>3, <3>4 DEF WriteAheadInv, WriteAhead, files
  <2>2. CASE Resume
    <3>1. UNCHANGED files /\ UNCHANGED journal /\ journal.file = "readable" /\ run' = First
      BY <2>2 DEF Resume
    <3>2. Announced'
      BY <3>1 DEF Announced, First, Idle
    <3>3. Conservation'
      BY <2>a, <3>1, FilesConserved
    <3> QED
      BY <2>a, <2>t, <3>1, <3>2, <3>3 DEF WriteAheadInv, WriteAhead, files
  <2>3. CASE Step
    <3>1. Conservation'
      BY <2>3, <2>a, StepFiles, FilesConserved
    <3>2. CASE Execute
      <4>1. Announced'
        BY <2>3, <2>a, <3>2, ExecuteAnnounced DEF Step
      <4>2. WriteAhead'
        <5>1. CASE MoveOut(run.pending[run.i]) /\ RenameMember
          <6>1. run.pending[run.i] \in journal.started /\ UNCHANGED journal
            BY <2>a, <5>1 DEF RenameMember, MoveOut, At, Announced, GoesTo, IoFails, ReadFails
          <6> QED
            BY <2>a, <5>1, <6>1 DEF MoveOut, WriteAhead, FilesTypeOK
        <5>2. CASE ~(MoveOut(run.pending[run.i]) /\ RenameMember)
          <6>1. \A m \in Members : dst'[m] = "media" => dst[m] = "media"
            <7>1. CASE RenameMember
              BY <5>2, <7>1 DEF RenameMember, files
            <7>2. CASE MakeParent
              BY <7>2 DEF MakeParent, MakeDir, files
            <7>3. CASE UndoRename
              BY <2>a, <7>3 DEF UndoRename, MoveBack, FilesTypeOK, files
            <7>4. CASE ~RenameMember /\ ~MakeParent /\ ~UndoRename
              BY <3>2, <7>4 DEF Execute, SkipGroup, EnterGroup, ScanMember, BeginGroup,
                 Finish, RevalidateGroup, PrepareMember, RecordMember, CompleteGroup,
                 LeaveGroup, UndoMember, RecordUndo, FailGroup, files
            <7> QED
              BY <7>1, <7>2, <7>3, <7>4
          <6> QED
            BY <2>3, <2>a, <3>2, <6>1, StartedSteps DEF Step, WriteAhead, files
        <5> QED
          BY <5>1, <5>2
      <4> QED
        BY <2>t, <3>1, <4>1, <4>2 DEF WriteAheadInv
    <3>3. CASE Crash
      <4>1. Announced'
        BY <3>3 DEF Crash, Announced, Idle
      <4> QED
        BY <2>a, <2>t, <3>1, <3>3, <4>1 DEF Crash, WriteAheadInv, WriteAhead, files
    <3>4. CASE Interrupt
      <4>1. Announced'
        <5>1. \A r \in {run, Moved} : Undo(r).pc = "undo"
          BY <2>a DEF Undo, Moved, TypeOK, Runs
        <5>2. Idle.pc = "idle" /\ Idle.ahead = FALSE
          BY DEF Idle
        <5>3. run' = Idle \/ \E r \in {run, Moved} : run' = Undo(r)
          BY <3>4 DEF Interrupt, Rollback
        <5> QED
          BY <5>1, <5>2, <5>3 DEF Announced, Undoing
      <4> QED
        BY <2>a, <2>t, <3>1, <3>4, <4>1 DEF Interrupt, WriteAheadInv, WriteAhead, files
    <3> QED
      BY <2>3, <3>2, <3>3, <3>4 DEF Step
  <2>4. CASE Interfere
    BY <2>4 DEF Interfere, Fault, Strike
  <2>5. CASE UNCHANGED vars
    BY <2>a, <2>t, <2>5 DEF WriteAheadInv, Conservation, OneCopy, WriteAhead, Announced,
       vars, applyVars, files
  <2> QED
    BY <1>2, <2>1, <2>2, <2>3, <2>4, <2>5 DEF Next, Command
<1> QED
  BY <1>1, <1>2

\* While nobody else changes the library, no failure, interruption or resume of
\* the executor ever loses or copies a file.
THEOREM FilesAreConserved ==
  ASSUME "meddle" \notin Faults
  PROVE  Spec => []Conservation
<1>1. WriteAheadInv => Conservation
  BY DEF WriteAheadInv
<1> QED
  BY <1>1, WriteAheadInductive, PTL DEF Spec

\* Nor is a file at its destination that the journal does not hold as started.
THEOREM JournalIsWriteAhead ==
  ASSUME "meddle" \notin Faults
  PROVE  Spec => []WriteAhead
<1>1. WriteAheadInv => WriteAhead
  BY DEF WriteAheadInv
<1> QED
  BY <1>1, WriteAheadInductive, PTL DEF Spec

-------------------------------------------------------------------------------
(* A group recorded as rolled back. *)

\* The lists of a control state hold members of its group.
Lists(r) ==
  r.pc \notin {"idle", "group"} =>
    /\ \A k \in 1..Len(r.pending) : r.pending[k] \in InGroup(r.g)
    /\ \A k \in 1..Len(r.completed) : r.completed[k] \in InGroup(r.g)

Listed(r, n, m) == \E k \in 1..Len(r.completed) : k <= n /\ r.completed[k] = m

\* Every member of the group that lies at its destination, as d has it, is one
\* the executor knows it has moved: of those the scan has passed; of all while
\* the group is moved; and while a rollback has not failed, of all, among those
\* it has still to undo.
Covered(r, d) ==
  /\ r.pc = "scan" =>
       \A j \in 1..Len(Contract[r.g]) : j < r.i /\ d[Contract[r.g][j]] = "media" =>
         Listed(r, Len(r.completed), Contract[r.g][j])
  /\ r.pc \in Guarded =>
       \A m \in InGroup(r.g) : d[m] = "media" =>
         \/ Listed(r, Len(r.completed), m)
         \/ r.pc = "renamed" /\ r.pending[r.i] = m
  /\ r.pc \in Undoing /\ ~r.failed =>
       \A m \in InGroup(r.g) : d[m] = "media" => Listed(r, r.i, m)

\* A control state that a step from the present one may lead to, when it leaves
\* d at the destinations.
Follows(r, d) ==
  /\ r \in Runs /\ Lists(r) /\ Covered(r, d)
  /\ r.pc \notin {"idle", "group", "scan"} => r.g = run.g

\* A group that is being moved or undone is not recorded as rolled back.
Open(r, o) == r.pc \notin {"idle", "group", "scan"} => o[r.g] # "rolled-back"

\* No fault has struck that may hide a move from the rollback.
Unhidden == faults.struck \cap {"interrupt", "read"} = {}

RollbackInv ==
  /\ WriteAheadInv
  /\ Lists(run) /\ Covered(run, dst) /\ Open(run, journal.outcome)
  /\ RolledBackMeansRestored

-------------------------------------------------------------------------------

LEMMA LoopFollows ==
  ASSUME NEW r \in Runs, NEW d, r.pc \in {"idle", "group"}
  PROVE  Follows(r, d)
BY DEF Follows, Lists, Covered, Guarded, Undoing

LEMMA IdleFollows ==
  ASSUME NEW d
  PROVE  Follows(Idle, d)
BY IdlePlaced, LoopFollows DEF Placed, Idle

\* When the handler knows every member that lies at its destination, so does
\* the rollback it starts.
LEMMA UndoFollows ==
  ASSUME NEW r \in Runs, NEW d, r.g = run.g, r.g \in GroupIds,
         \A k \in 1..Len(r.pending) : r.pending[k] \in InGroup(r.g),
         \A k \in 1..Len(r.completed) : r.completed[k] \in InGroup(r.g),
         \A m \in InGroup(r.g) : d[m] = "media" => Listed(r, Len(r.completed), m)
  PROVE  Follows(Undo(r), d)
<1>1. Undo(r) \in Runs
  BY UndoPlaced DEF Placed
<1>2. /\ Undo(r).pc = "undo" /\ Undo(r).g = r.g /\ Undo(r).i = Len(r.completed)
      /\ Undo(r).pending = r.pending /\ Undo(r).completed = r.completed
  BY DEF Undo, Runs
<1> QED
  BY <1>1, <1>2 DEF Follows, Lists, Covered, Listed, Guarded

LEMMA AheadFollows ==
  ASSUME NEW r, NEW d, Follows(r, d)
  PROVE  Follows([r EXCEPT !.ahead = r.pc # "idle"], d)
<1> DEFINE q == [r EXCEPT !.ahead = r.pc # "idle"]
<1>1. /\ q \in Runs /\ q.pc = r.pc /\ q.g = r.g /\ q.i = r.i /\ q.pending = r.pending
      /\ q.completed = r.completed /\ q.failed = r.failed
  BY DEF Follows, Runs
<1> HIDE DEF q
<1>2. Follows(q, d)
  BY <1>1 DEF Follows, Lists, Covered, Listed
<1> QED
  BY <1>2 DEF q

LEMMA StepFollows ==
  ASSUME NEW on, NEW off, NEW d, Follows(on, d), Follows(off, d), NEW event, NEW m,
         \/ GoesTo(on) \/ Logs(event, m, on)
         \/ GoesTo(off) \/ Fails(off) \/ LogFails(event, m, off)
  PROVE  Follows(run', d)
BY AheadFollows, IdleFollows DEF GoesTo, Logs, IoFails, ReadFails, LogFails

\* From every phase of the try block but the one just after a rename, the
\* handler knows all that moved.
LEMMA RollbackFollows ==
  ASSUME run \in Runs, Placed(run), Lists(run), Covered(run, dst),
         run.pc \in Guarded \ {"renamed"}
  PROVE  Follows(Rollback, dst)
<1>1. run.g \in GroupIds /\ run.pc \notin {"idle", "group"}
  BY DEF Placed, Guarded
<1> QED
  BY <1>1, UndoFollows DEF Rollback, Lists, Covered

\* From one phase of the try block to another, or of the rollback to another,
\* the lists do not change.
LEMMA ToFollows ==
  ASSUME run \in Runs, Placed(run), Lists(run), Covered(run, dst), NEW phase,
         \/ run.pc \in Guarded \ {"renamed"} /\ phase \in Guarded \ {"renamed"}
         \/ run.pc \in Undoing /\ phase \in Undoing
  PROVE  Follows(To(phase), dst)
<1>1. To(phase) \in Runs /\ To(phase).pc = phase
  BY DEF To, Runs, Phases, Guarded, Undoing
<1>2. /\ To(phase).g = run.g /\ To(phase).i = run.i /\ To(phase).pending = run.pending
      /\ To(phase).completed = run.completed /\ To(phase).failed = run.failed
  BY DEF To, Runs
<1> QED
  BY <1>1, <1>2 DEF Follows, Lists, Covered, Listed, Guarded, Undoing

\* What Append does to a list of members.
LEMMA Appended ==
  ASSUME NEW s \in Seq(Members), NEW m \in Members
  PROVE  /\ Append(s, m) \in Seq(Members) /\ Len(Append(s, m)) = Len(s) + 1
         /\ \A k \in 1..Len(s) : Append(s, m)[k] = s[k]
         /\ Append(s, m)[Len(s) + 1] = m
OBVIOUS

\* A member the scan has classified.
LEMMA ScanFollows ==
  ASSUME RollbackInv, At("scan"), run.i \in 1..Len(Contract[run.g])
  PROVE  LET m == Contract[run.g][run.i]
             moved == [run EXCEPT !.i = @ + 1, !.completed = Append(@, m)]
             toDo  == [run EXCEPT !.i = @ + 1, !.pending = Append(@, m)]
         IN  /\ Follows(moved, dst)
             /\ dst[m] # "media" => Follows(toDo, dst)
<1> DEFINE m == Contract[run.g][run.i]
           moved == [run EXCEPT !.i = @ + 1, !.completed = Append(@, m)]
           toDo  == [run EXCEPT !.i = @ + 1, !.pending = Append(@, m)]
<1>a. run \in Runs /\ Lists(run) /\ Covered(run, dst) /\ run.pc = "scan" /\ run.g \in GroupIds
  BY DEF RollbackInv, WriteAheadInv, TypeInv, TypeOK, At, Placed
<1>b. /\ run.i \in Nat /\ run.pending \in Seq(Members) /\ run.completed \in Seq(Members)
      /\ Len(run.pending) \in Nat /\ Len(run.completed) \in Nat
      /\ Len(Contract[run.g]) \in Nat
  BY <1>a, RunType, GroupType
<1>c. m \in Members /\ m \in InGroup(run.g)
  BY <1>a, GroupType DEF InGroup
<1>d. /\ \A k \in 1..Len(run.pending) : run.pending[k] \in InGroup(run.g)
      /\ \A k \in 1..Len(run.completed) : run.completed[k] \in InGroup(run.g)
  BY <1>a DEF Lists
<1>e. \A j \in 1..Len(Contract[run.g]) : j < run.i /\ dst[Contract[run.g][j]] = "media" =>
        Listed(run, Len(run.completed), Contract[run.g][j])
  BY <1>a DEF Covered
<1>1. Follows(moved, dst)
  <2>1. Append(run.completed, m) \in Seq(Members) /\ run.i + 1 \in Nat
        /\ Len(Append(run.completed, m)) = Len(run.completed) + 1
        /\ \A k \in 1..Len(run.completed) : Append(run.completed, m)[k] = run.completed[k]
        /\ Append(run.completed, m)[Len(run.completed) + 1] = m
    BY <1>b, <1>c, Appended
  <2>2. moved \in Runs
    BY <1>a, <2>1 DEF Runs
  <2>3. /\ moved.pc = "scan" /\ moved.g = run.g /\ moved.i = run.i + 1
        /\ moved.pending = run.pending /\ moved.completed = Append(run.completed, m)
    BY <1>a DEF Runs
  <2> HIDE DEF moved
  <2>4. Lists(moved)
    BY <1>b, <1>c, <1>d, <2>1, <2>3 DEF Lists
  <2>5. ASSUME NEW j \in 1..Len(Contract[run.g]), j < run.i + 1,
               dst[Contract[run.g][j]] = "media"
        PROVE  Listed(moved, Len(moved.completed), Contract[run.g][j])
    <3>1. CASE j = run.i
      <4>1. Len(moved.completed) \in 1..Len(moved.completed)
            /\ moved.completed[Len(moved.completed)] = m
        BY <1>b, <2>1, <2>3
      <4> QED
        BY <3>1, <4>1 DEF Listed
    <3>2. CASE j # run.i
      <4>1. PICK k \in 1..Len(run.completed) : run.completed[k] = Contract[run.g][j]
        BY <1>b, <1>e, <2>5, <3>2 DEF Listed
      <4>2. k \in 1..Len(moved.completed) /\ k <= Len(moved.completed)
            /\ moved.completed[k] = Contract[run.g][j]
        BY <1>b, <2>1, <2>3, <4>1
      <4> QED
        BY <4>2 DEF Listed
    <3> QED
      BY <3>1, <3>2
  <2>6. Covered(moved, dst)
    BY <2>3, <2>5 DEF Covered, Guarded, Undoing
  <2> QED
    BY <2>2, <2>3, <2>4, <2>6 DEF Follows
<1>2. ASSUME dst[m] # "media"
      PROVE  Follows(toDo, dst)
  <2>1. Append(run.pending, m) \in Seq(Members) /\ run.i + 1 \in Nat
        /\ Len(Append(run.pending, m)) = Len(run.pending) + 1
        /\ \A k \in 1..Len(run.pending) : Append(run.pending, m)[k] = run.pending[k]
        /\ Append(run.pending, m)[Len(run.pending) + 1] = m
    BY <1>b, <1>c, Appended
  <2>2. toDo \in Runs
    BY <1>a, <2>1 DEF Runs
  <2>3. /\ toDo.pc = "scan" /\ toDo.g = run.g /\ toDo.i = run.i + 1
        /\ toDo.completed = run.completed /\ toDo.pending = Append(run.pending, m)
    BY <1>a DEF Runs
  <2> HIDE DEF toDo
  <2>4. Lists(toDo)
    BY <1>b, <1>c, <1>d, <2>1, <2>3 DEF Lists
  <2>5. ASSUME NEW j \in 1..Len(Contract[run.g]), j < run.i + 1,
               dst[Contract[run.g][j]] = "media"
        PROVE  Listed(toDo, Len(toDo.completed), Contract[run.g][j])
    BY <1>2, <1>b, <1>e, <2>3, <2>5 DEF Listed
  <2>6. Covered(toDo, dst)
    BY <2>3, <2>5 DEF Covered, Guarded, Undoing
  <2> QED
    BY <2>2, <2>3, <2>4, <2>6 DEF Follows
<1> QED
  BY <1>1, <1>2

\* The member just renamed joins the members the executor knows it has moved.
LEMMA MovedFollows ==
  ASSUME RollbackInv, At("renamed")
  PROVE  /\ Follows(Undo(Moved), dst)
         /\ Follows([Moved EXCEPT !.pc = "prepare", !.i = @ + 1], dst)
<1> DEFINE m == run.pending[run.i]
           on == [Moved EXCEPT !.pc = "prepare", !.i = @ + 1]
<1>a. /\ run \in Runs /\ Lists(run) /\ Covered(run, dst) /\ run.pc = "renamed"
      /\ run.g \in GroupIds /\ run.i \in 1..Len(run.pending)
  BY DEF RollbackInv, WriteAheadInv, TypeInv, TypeOK, At, Placed
<1>b. /\ run.i \in Nat /\ run.pending \in Seq(Members) /\ run.completed \in Seq(Members)
      /\ Len(run.pending) \in Nat /\ Len(run.completed) \in Nat /\ m \in Members
  BY <1>a, RunType
<1>c. /\ \A k \in 1..Len(run.pending) : run.pending[k] \in InGroup(run.g)
      /\ \A k \in 1..Len(run.completed) : run.completed[k] \in InGroup(run.g)
  BY <1>a DEF Lists
<1>d. \A n \in InGroup(run.g) : dst[n] = "media" => Listed(run, Len(run.completed), n) \/ n = m
  BY <1>a DEF Covered, Guarded
<1>1. Append(run.completed, m) \in Seq(Members) /\ run.i + 1 \in Nat
      /\ Len(Append(run.completed, m)) = Len(run.completed) + 1
      /\ \A k \in 1..Len(run.completed) : Append(run.completed, m)[k] = run.completed[k]
      /\ Append(run.completed, m)[Len(run.completed) + 1] = m
  BY <1>b, Appended
<1>2. Moved \in Runs
  BY <1>a, <1>1 DEF Moved, Runs
<1>3. Moved.g = run.g /\ Moved.i = run.i /\ Moved.pending = run.pending
      /\ Moved.completed = Append(run.completed, m)
  BY <1>a DEF Moved, Runs
<1>4. on \in Runs
  BY <1>1, <1>2, <1>3 DEF Runs, Phases
<1>5. on.pc = "prepare" /\ on.g = run.g /\ on.pending = run.pending
      /\ on.completed = Append(run.completed, m)
  BY <1>2, <1>3 DEF Runs
<1> HIDE DEF on
<1>6. ASSUME NEW r, r \in {Moved, on}
      PROVE  /\ r \in Runs /\ r.g = run.g /\ r.pending = run.pending
             /\ r.completed = Append(run.completed, m)
             /\ \A k \in 1..Len(r.completed) : r.completed[k] \in InGroup(run.g)
             /\ \A n \in InGroup(run.g) : dst[n] = "media" => Listed(r, Len(r.completed), n)
  <2>1. /\ r \in Runs /\ r.g = run.g /\ r.pending = run.pending
        /\ r.completed = Append(run.completed, m)
    BY <1>2, <1>3, <1>4, <1>5, <1>6
  <2>2. \A k \in 1..Len(r.completed) : r.completed[k] \in InGroup(run.g)
    BY <1>a, <1>b, <1>c, <1>1, <2>1
  <2>3. ASSUME NEW n \in InGroup(run.g), dst[n] = "media"
        PROVE  Listed(r, Len(r.completed), n)
    <3>1. CASE n = m
      <4>1. Len(r.completed) \in 1..Len(r.completed) /\ r.completed[Len(r.completed)] = n
        BY <1>b, <1>1, <2>1, <3>1
      <4> QED
        BY <4>1 DEF Listed
    <3>2. CASE n # m
      <4>1. PICK k \in 1..Len(run.completed) : run.completed[k] = n
        BY <1>d, <2>3, <3>2 DEF Listed
      <4>2. k \in 1..Len(r.completed) /\ k <= Len(r.completed) /\ r.completed[k] = n
        BY <1>b, <1>1, <2>1, <4>1
      <4> QED
        BY <4>2 DEF Listed
    <3> QED
      BY <3>1, <3>2
  <2> QED
    BY <2>1, <2>2, <2>3
<1>7. Follows(Undo(Moved), dst)
  BY <1>a, <1>c, <1>6, UndoFollows
<1>8. Follows(on, dst)
  BY <1>a, <1>c, <1>5, <1>6 DEF Follows, Lists, Covered, Guarded, Undoing
<1> QED
  BY <1>7, <1>8 DEF on

\* The member just moved back is no longer one that lies at its destination.
LEMMA UndoneFollows ==
  ASSUME RollbackInv, run.pc \in Undoing, run.i \in 1..Len(run.completed)
  PROVE  /\ Follows(UndoFailed, dst)
         /\ dst[run.completed[run.i]] # "media" => Follows(NextUndo, dst)
<1>a. /\ run \in Runs /\ Lists(run) /\ Covered(run, dst) /\ run.g \in GroupIds
  BY DEF RollbackInv, WriteAheadInv, TypeInv, TypeOK, Placed, Undoing
<1>b. run.i \in Nat /\ run.i - 1 \in Nat /\ Len(run.completed) \in Nat
  BY <1>a, RunType
<1>1. NextUndo \in Runs /\ UndoFailed \in Runs
  BY <1>a, NextUndoPlaced DEF Placed
<1>2. /\ NextUndo.pc = "undo" /\ NextUndo.i = run.i - 1 /\ NextUndo.failed = run.failed
      /\ NextUndo.completed = run.completed /\ NextUndo.g = run.g
      /\ NextUndo.pending = run.pending
  BY <1>a DEF NextUndo, Runs
<1>3. /\ UndoFailed.pc = "undo" /\ UndoFailed.failed = TRUE
      /\ UndoFailed.completed = run.completed /\ UndoFailed.g = run.g
      /\ UndoFailed.pending = run.pending
  BY <1>a DEF UndoFailed, NextUndo, Runs
<1>4. Lists(NextUndo) /\ Lists(UndoFailed)
  BY <1>a, <1>2, <1>3 DEF Lists, Undoing
<1>5. Covered(UndoFailed, dst)
  BY <1>3 DEF Covered, Guarded
<1>6. ASSUME dst[run.completed[run.i]] # "media"
      PROVE  Covered(NextUndo, dst)
  <2>1. ASSUME ~run.failed, NEW m \in InGroup(run.g), dst[m] = "media"
        PROVE  Listed(NextUndo, run.i - 1, m)
    <3>1. PICK k \in 1..Len(run.completed) : k <= run.i /\ run.completed[k] = m
      BY <1>a, <2>1 DEF Covered, Listed
    <3>2. k # run.i
      BY <1>6, <2>1, <3>1
    <3>3. k <= run.i - 1
      BY <1>b, <3>1, <3>2
    <3> QED
      BY <1>2, <3>1, <3>3 DEF Listed
  <2> QED
    BY <1>2, <2>1 DEF Covered, Guarded
<1> QED
  BY <1>1, <1>2, <1>3, <1>4, <1>5, <1>6 DEF Follows

\* A read that failed is remembered.
LEMMA UnreadIsRemembered ==
  ASSUME NEW next, ReadFails(next)
  PROVE  "read" \in faults'.struck
BY DEF ReadFails, Fault, Strike

\* Every step leads to a control state that knows what has moved.
LEMMA ExecuteFollows ==
  ASSUME "meddle" \notin Faults, RollbackInv, ~At("idle"), Execute,
         "read" \notin faults'.struck
  PROVE  Follows(run', dst')
<1>a. /\ TypeOK /\ FilesTypeOK /\ run \in Runs /\ Placed(run)
      /\ Lists(run) /\ Covered(run, dst) /\ Conservation /\ WriteAhead
  BY DEF RollbackInv, WriteAheadInv, TypeInv, TypeOK
<1>n. run.g \in Nat /\ run.i \in Nat /\ Len(run.pending) \in Nat /\ Len(run.completed) \in Nat
  BY <1>a, RunType
<1>f. UNCHANGED files => dst' = dst
  BY DEF files
<1>i. Follows(Idle, dst)
  BY IdleFollows
<1>b. run.pc \in Guarded \ {"renamed"} => Follows(Rollback, dst)
  BY <1>a, RollbackFollows
<1>p. run.g + 1 \in Nat
  BY <1>n
<1>1. CASE SkipGroup
  <2> DEFINE next == [run EXCEPT !.g = @ + 1]
  <2>1. next \in Runs
    BY <1>a, <1>p DEF Runs
  <2>2. next.pc = "group"
    BY <1>1, <1>a DEF SkipGroup, At, Runs
  <2> HIDE DEF next
  <2>3. Follows(next, dst)
    BY <2>1, <2>2, LoopFollows
  <2>4. GoesTo(next) \/ GoesTo(Idle) \/ Fails(Idle)
    BY <1>1 DEF SkipGroup, next
  <2> QED
    BY <1>1, <1>f, <1>i, <2>3, <2>4 DEF SkipGroup, GoesTo, IoFails, ReadFails
<1>2. CASE EnterGroup
  <2>1. <<>> \in Seq(Members) /\ "scan" \in Phases /\ 1 \in Nat
    BY DEF Phases
  <2>2. Entered \in Runs
    BY <1>a, <2>1 DEF Entered, Runs
  <2>3. Entered.pc = "scan" /\ Entered.g = run.g /\ Entered.i = 1 /\ Entered.pending = <<>>
        /\ Entered.completed = <<>>
    BY <1>a DEF Entered, Runs
  <2>4. run.g \in GroupIds /\ Len(Contract[run.g]) \in Nat
    BY <1>2, GroupType DEF EnterGroup
  <2>5. Lists(Entered) /\ Covered(Entered, dst)
    BY <2>3, <2>4 DEF Lists, Covered, Guarded, Undoing
  <2> QED
    BY <1>2, <1>f, <2>2, <2>3, <2>5 DEF EnterGroup, GoesTo, Follows
<1>3. CASE ScanMember
  <2> DEFINE m == Contract[run.g][run.i]
             moved == [run EXCEPT !.i = @ + 1, !.completed = Append(@, m)]
             toDo == [run EXCEPT !.i = @ + 1, !.pending = Append(@, m)]
  <2>1. At("scan") /\ run.i \in 1..Len(Contract[run.g]) /\ dst' = dst
    BY <1>3, <1>f DEF ScanMember
  <2>2. m \in Members
    BY <1>a, <2>1, GroupType DEF At, Placed
  <2>3. Follows(moved, dst) /\ (dst[m] # "media" => Follows(toDo, dst))
    BY <2>1, ScanFollows
  <2>4. \/ dst[m] # "media"
        \/ m \in journal.started /\ (SafeParent(m) => Adoptable(m))
    BY <1>a, <2>2 DEF Conservation, OneCopy, WriteAhead, Adoptable, Organized
  <2> HIDE DEF m, moved, toDo
  <2>5. \/ GoesTo(moved) \/ GoesTo(Idle) \/ Fails(Idle)
        \/ Logs("member-completed", m, moved) \/ LogFails("member-completed", m, Idle)
        \/ GoesTo(toDo) /\ (m \in journal.started => SafeParent(m) /\ ~Adoptable(m))
    BY <1>3, UnreadIsRemembered DEF ScanMember, m, moved, toDo
  <2>6. Follows(run', dst)
    BY <1>i, <2>3, <2>4, <2>5, StepFollows
  <2> QED
    BY <2>1, <2>6
<1>4. CASE BeginGroup
  <2>1. run.pc = "scan" /\ run.i = Len(Contract[run.g]) + 1 /\ run.g \in GroupIds
    BY <1>4, <1>a DEF BeginGroup, At, Placed
  <2>2. Len(Contract[run.g]) \in Nat
    BY <2>1, GroupType
  <2>3. \A m \in InGroup(run.g) : dst[m] = "media" => Listed(run, Len(run.completed), m)
    BY <1>a, <2>1, <2>2 DEF Covered, InGroup
  <2>4. To("revalidate") \in Runs
    BY <1>a DEF To, Runs, Phases
  <2>5. LET r == To("revalidate")
        IN  r.pc = "revalidate" /\ r.g = run.g /\ r.pending = run.pending
            /\ r.completed = run.completed
    BY <1>a DEF To, Runs
  <2>6. Follows(To("revalidate"), dst)
    BY <1>a, <2>1, <2>3, <2>4, <2>5 DEF Follows, Lists, Covered, Listed, Guarded, Undoing
  <2>7. Follows(run', dst)
    BY <1>4, <1>i, <2>6, StepFollows DEF BeginGroup
  <2> QED
    BY <1>4, <1>f, <2>7 DEF BeginGroup
<1>5. CASE Finish
  <2>1. Follows(run', dst)
    BY <1>5, <1>i, StepFollows DEF Finish
  <2> QED
    BY <1>5, <1>f, <2>1 DEF Finish
<1>6. CASE RevalidateGroup
  <2> DEFINE next == [run EXCEPT !.pc = "prepare", !.i = 1]
  <2>1. run.pc = "revalidate"
    BY <1>6 DEF RevalidateGroup, At
  <2>2. next \in Runs
    BY <1>a DEF Runs, Phases
  <2>3. next.pc = "prepare" /\ next.g = run.g /\ next.pending = run.pending
        /\ next.completed = run.completed
    BY <1>a DEF Runs
  <2>4. Follows(next, dst)
    BY <1>a, <2>1, <2>2, <2>3 DEF Follows, Lists, Covered, Listed, Guarded, Undoing
  <2> HIDE DEF next
  <2>5. GoesTo(next) \/ GoesTo(Rollback) \/ Fails(Rollback)
    BY <1>6 DEF RevalidateGroup, next
  <2>6. Follows(run', dst)
    BY <1>b, <2>1, <2>4, <2>5, StepFollows DEF Guarded
  <2> QED
    BY <1>6, <1>f, <2>6 DEF RevalidateGroup
<1>7. CASE PrepareMember
  <2>1. run.pc = "prepare"
    BY <1>7 DEF PrepareMember, At
  <2>2. Follows(To("mkdir"), dst) /\ Follows(To("rename"), dst) /\ Follows(Rollback, dst)
    BY <1>a, <1>b, <2>1, ToFollows DEF Guarded
  <2>3. \E event, m :
          \/ Logs(event, m, To("mkdir")) \/ Logs(event, m, To("rename"))
          \/ LogFails(event, m, Rollback) \/ GoesTo(Rollback) \/ Fails(Rollback)
    BY <1>7 DEF PrepareMember, StartMember
  <2>4. Follows(run', dst)
    BY <2>2, <2>3, StepFollows
  <2> QED
    BY <1>7, <1>f, <2>4 DEF PrepareMember
<1>8. CASE MakeParent
  <2>1. run.pc = "mkdir" /\ dst' = dst
    BY <1>8, <1>f DEF MakeParent, At, MakeDir
  <2>2. Follows(To("prepare"), dst) /\ Follows(Rollback, dst)
    BY <1>a, <1>b, <2>1, ToFollows DEF Guarded
  <2>3. \E event, m :
          \/ Logs(event, m, To("prepare"))
          \/ LogFails(event, m, Rollback) \/ GoesTo(Rollback) \/ Fails(Rollback)
    BY <1>8 DEF MakeParent
  <2>4. Follows(run', dst)
    BY <2>2, <2>3, StepFollows
  <2> QED
    BY <2>1, <2>4
<1>9. CASE RenameMember
  <2> DEFINE m == run.pending[run.i]
  <2>1. run.pc = "rename" /\ run.g \in GroupIds /\ run.i \in 1..Len(run.pending)
    BY <1>9, <1>a DEF RenameMember, At, Placed
  <2>2. CASE MoveOut(m) /\ GoesTo(To("renamed"))
    <3>1. To("renamed") \in Runs
      BY <1>a DEF To, Runs, Phases
    <3>2. LET r == To("renamed")
          IN  /\ r.pc = "renamed" /\ r.g = run.g /\ r.i = run.i /\ r.pending = run.pending
              /\ r.completed = run.completed
      BY <1>a DEF To, Runs
    <3>3. \A n \in Members : n # m => dst'[n] = dst[n]
      BY <1>a, <2>2 DEF MoveOut, FilesTypeOK
    <3>4. InGroup(run.g) \subseteq Members
      BY <2>1, GroupType DEF InGroup
    <3>5. \A n \in InGroup(run.g) : dst[n] = "media" => Listed(run, Len(run.completed), n)
      BY <1>a, <2>1 DEF Covered, Guarded
    <3>6. Lists(To("renamed"))
      BY <1>a, <2>1, <3>2 DEF Lists
    <3>7. Covered(To("renamed"), dst')
      BY <3>2, <3>3, <3>4, <3>5 DEF Covered, Listed, Undoing
    <3>8. Follows(To("renamed"), dst')
      BY <3>1, <3>2, <3>6, <3>7 DEF Follows
    <3> QED
      BY <2>2, <3>8 DEF GoesTo
  <2>3. CASE UNCHANGED files /\ (GoesTo(Rollback) \/ Fails(Rollback))
    BY <1>b, <1>f, <2>1, <2>3 DEF GoesTo, IoFails, ReadFails, Guarded
  <2> QED
    BY <1>9, <2>2, <2>3 DEF RenameMember
<1>10. CASE RecordMember
  <2> DEFINE m == run.pending[run.i]
             on == [Moved EXCEPT !.pc = "prepare", !.i = @ + 1]
  <2>1. Follows(Undo(Moved), dst) /\ Follows(on, dst)
    BY <1>10, MovedFollows DEF RecordMember
  <2> HIDE DEF on
  <2>2. \/ Logs("member-completed", m, on) \/ LogFails("member-completed", m, Undo(Moved))
        \/ GoesTo(Undo(Moved)) \/ Fails(Undo(Moved))
    BY <1>10 DEF RecordMember, on
  <2>3. Follows(run', dst)
    BY <2>1, <2>2, StepFollows
  <2> QED
    BY <1>10, <1>f, <2>3 DEF RecordMember
<1>11. CASE CompleteGroup
  <2>1. run.pc = "prepare"
    BY <1>11 DEF CompleteGroup, At
  <2>2. Follows(To("recorded"), dst) /\ Follows(Rollback, dst)
    BY <1>a, <1>b, <2>1, ToFollows DEF Guarded
  <2>3. Logs("group-completed", {}, To("recorded"))
          \/ LogFails("group-completed", {}, Rollback)
    BY <1>11 DEF CompleteGroup
  <2>4. Follows(run', dst)
    BY <2>2, <2>3, StepFollows
  <2> QED
    BY <1>11, <1>f, <2>4 DEF CompleteGroup
<1>12. CASE UndoMember
  <2> DEFINE m == run.completed[run.i]
  <2>1. run.pc \in Undoing /\ run.i \in 1..Len(run.completed)
    BY <1>12 DEF UndoMember, At, Undoing
  <2>2. Follows(UndoFailed, dst) /\ Follows(To("undo-rename"), dst)
    BY <1>a, <2>1, UndoneFollows, ToFollows DEF Undoing
  <2>3. \/ GoesTo(UndoFailed) \/ Fails(UndoFailed)
        \/ \E next \in {UndoFailed, To("undo-rename")} :
             Logs("member-rollback-started", m, next) \/ LogFails("member-rollback-started", m, next)
    BY <1>12 DEF UndoMember
  <2>4. Follows(run', dst)
    BY <2>2, <2>3, StepFollows
  <2> QED
    BY <1>12, <1>f, <2>4 DEF UndoMember
<1>13. CASE UndoRename
  <2> DEFINE m == run.completed[run.i]
  <2>1. run.pc = "undo-rename" /\ run.g \in GroupIds /\ run.i \in 1..Len(run.completed)
    BY <1>13, <1>a DEF UndoRename, At, Placed
  <2>2. CASE MoveBack(m) /\ GoesTo(To("undone"))
    <3>1. Follows(To("undone"), dst)
      BY <1>a, <2>1, ToFollows DEF Undoing
    <3>2. \A n \in Members : dst'[n] = "media" => dst[n] = "media"
      BY <1>a, <2>2 DEF MoveBack, FilesTypeOK
    <3>3. InGroup(run.g) \subseteq Members
      BY <2>1, GroupType DEF InGroup
    <3>4. To("undone").g = run.g /\ To("undone").pc = "undone"
      BY <1>a DEF To, Runs
    <3>5. Follows(To("undone"), dst')
      BY <3>1, <3>2, <3>3, <3>4 DEF Follows, Covered, Guarded
    <3> QED
      BY <2>2, <3>5 DEF GoesTo
  <2>3. CASE UNCHANGED files /\ (GoesTo(UndoFailed) \/ Fails(UndoFailed))
    BY <1>f, <2>1, <2>3, UndoneFollows DEF GoesTo, IoFails, ReadFails, Undoing
  <2> QED
    BY <1>13, <2>2, <2>3 DEF UndoRename
<1>14. CASE RecordUndo
  <2> DEFINE m == run.completed[run.i]
  <2>1. run.pc \in Undoing /\ run.i \in 1..Len(run.completed)
    BY <1>14, <1>a DEF RecordUndo, At, Undoing, Placed
  <2>2. Follows(UndoFailed, dst) /\ (Restored(m) => Follows(NextUndo, dst))
    BY <2>1, UndoneFollows DEF Restored
  <2>3. \/ GoesTo(UndoFailed) \/ Fails(UndoFailed)
        \/ Restored(m) /\ (Logs("member-rollback-completed", m, NextUndo)
                             \/ LogFails("member-rollback-completed", m, NextUndo))
    BY <1>14 DEF RecordUndo
  <2>4. Follows(run', dst)
    BY <2>2, <2>3, StepFollows
  <2> QED
    BY <1>14, <1>f, <2>4 DEF RecordUndo
<1>15. CASE FailGroup
  <2>1. Follows(run', dst)
    BY <1>15, <1>i, StepFollows DEF FailGroup
  <2> QED
    BY <1>15, <1>f, <2>1 DEF FailGroup
<1>16. CASE LeaveGroup
  <2> DEFINE on == [run EXCEPT !.pc = "group", !.g = @ + 1]
  <2>1. on \in Runs /\ on.pc = "group"
    BY <1>a, <1>p DEF Runs, Phases
  <2> HIDE DEF on
  <2>2. Follows(on, dst)
    BY <2>1, LoopFollows
  <2>3. GoesTo(on)
    BY <1>16 DEF LeaveGroup, on
  <2>4. Follows(run', dst)
    BY <2>2, <2>3, StepFollows
  <2> QED
    BY <1>16, <1>f, <2>4 DEF LeaveGroup
<1> QED
  BY <1>1, <1>2, <1>3, <1>4, <1>5, <1>6, <1>7, <1>8, <1>9, <1>10, <1>11,
     <1>12, <1>13, <1>14, <1>15, <1>16 DEF Execute

\* Only the result of a rollback records a group as rolled back.
LEMMA OutcomeKept ==
  ASSUME TypeOK, NEW event, NEW m, NEW next, event # "rolled-back",
         Logs(event, m, next) \/ LogFails(event, m, next),
         NEW h \in GroupIds, journal'.outcome[h] = "rolled-back"
  PROVE  journal.outcome[h] = "rolled-back"
<1>1. Replay(event, m).outcome[h] = "rolled-back" => journal.outcome[h] = "rolled-back"
  BY DEF TypeOK, Replay, MovedBack, Journals
<1>2. Replay(event, m) \in [file : {"none", "readable", "unreadable"},
        started : {Replay(event, m).started}, completed : {Replay(event, m).completed},
        groups : {Replay(event, m).groups}, outcome : {Replay(event, m).outcome},
        done : {Replay(event, m).done}]
  BY DEF TypeOK, Replay, MovedBack, Journals
<1>3. Written(event, m).outcome[h] = "rolled-back" => journal.outcome[h] = "rolled-back"
  BY <1>1, <1>2 DEF TypeOK, Written, Journals
<1> QED
  BY <1>3 DEF TypeOK, Logs, LogFails, Journals

\* A group that a step records as rolled back was recorded so before, or its
\* rollback has just ended without a failure.
LEMMA OutcomeSteps ==
  ASSUME TypeOK, Execute, NEW h \in GroupIds, journal'.outcome[h] = "rolled-back"
  PROVE  \/ journal.outcome[h] = "rolled-back"
         \/ FailGroup /\ ~run.failed /\ h = run.g
<1>1. CASE FailGroup
  <2>1. CASE run.failed
    <3>1. Logs("rollback-incomplete", {}, Idle) \/ LogFails("rollback-incomplete", {}, Idle)
      BY <1>1, <2>1 DEF FailGroup
    <3> QED
      BY <3>1, OutcomeKept
  <2>2. CASE ~run.failed
    <3>1. Logs("rolled-back", {}, Idle) \/ LogFails("rolled-back", {}, Idle)
      BY <1>1, <2>2 DEF FailGroup
    <3>2. Replay("rolled-back", {}) = [journal EXCEPT !.outcome[run.g] = "rolled-back"]
      BY DEF Replay
    <3>3. Written("rolled-back", {}).outcome[h] = "rolled-back" =>
            journal.outcome[h] = "rolled-back" \/ h = run.g
      BY <3>2 DEF TypeOK, Written, Journals
    <3>4. journal'.outcome[h] = "rolled-back" =>
            journal.outcome[h] = "rolled-back" \/ h = run.g
      BY <3>1, <3>3 DEF TypeOK, Logs, LogFails, Journals
    <3> QED
      BY <1>1, <2>2, <3>4
  <2> QED
    BY <2>1, <2>2
<1>2. CASE ~FailGroup
  <2>1. \/ UNCHANGED journal
        \/ \E event \in {"member-started", "member-completed", "member-rollback-started",
               "member-rollback-completed", "group-completed", "group-started",
               "run-completed", "directory-create-started", "directory-created"} :
             \E m, next : Logs(event, m, next) \/ LogFails(event, m, next)
    BY <1>2, Zenon DEF Execute, SkipGroup, EnterGroup, ScanMember, BeginGroup, Finish,
       RevalidateGroup, PrepareMember, StartMember, MakeParent, RenameMember,
       RecordMember, CompleteGroup, LeaveGroup, UndoMember, UndoRename, RecordUndo, GoesTo, IoFails, ReadFails
  <2> QED
    BY <2>1, OutcomeKept
<1> QED
  BY <1>1, <1>2

\* An append that raises outside the try block ends the run.
LEMMA GivesUp ==
  ASSUME NEW event, NEW m, LogFails(event, m, Idle)
  PROVE  run'.pc = "idle"
<1>1. Idle.pc = "idle" /\ [Idle EXCEPT !.ahead = Idle.pc # "idle"].pc = "idle"
  BY DEF Idle
<1> QED
  BY <1>1 DEF LogFails

\* A group is opened before its first member is touched: group-started takes
\* the place of an earlier rollback's result.
LEMMA ExecuteOpens ==
  ASSUME "meddle" \notin Faults, RollbackInv, ~At("idle"), Execute,
         "read" \notin faults'.struck
  PROVE  Open(run', journal'.outcome)
<1>a. /\ TypeOK /\ run \in Runs /\ Placed(run) /\ Announced /\ Open(run, journal.outcome)
      /\ Idle.pc = "idle"
  BY DEF RollbackInv, WriteAheadInv, TypeInv, TypeOK, Idle
<1> SUFFICES ASSUME run'.pc \notin {"idle", "group", "scan"}
             PROVE  journal'.outcome[run'.g] # "rolled-back"
  BY DEF Open
<1>1. run'.g = run.g
  BY ExecuteFollows DEF Follows
<1>2. CASE run.pc \notin {"group", "scan"}
  <2>1. run.g \in GroupIds /\ journal.outcome[run.g] # "rolled-back"
    BY <1>2, <1>a DEF Placed, Open, At
  <2>2. ~FailGroup
    BY <1>a, GivesUp DEF FailGroup, Logs
  <2> QED
    BY <1>a, <1>1, <2>1, <2>2, OutcomeSteps
<1>3. CASE run.pc \in {"group", "scan"}
  <2>1. BeginGroup
    <3>1. CASE SkipGroup
      BY <3>1, <1>a, <1>3 DEF SkipGroup, GoesTo, IoFails, ReadFails, At, Runs
    <3>2. CASE EnterGroup
      BY <3>2, <1>a DEF EnterGroup, GoesTo, Entered, Runs
    <3>3. CASE ScanMember
      <4>1. ASSUME NEW m
            PROVE  LET moved == [run EXCEPT !.i = @ + 1, !.completed = Append(@, m)]
                       toDo == [run EXCEPT !.i = @ + 1, !.pending = Append(@, m)]
                   IN  moved.pc = run.pc /\ toDo.pc = run.pc
        BY <1>a DEF Runs
      <4> DEFINE m == Contract[run.g][run.i]
                 moved == [run EXCEPT !.i = @ + 1, !.completed = Append(@, m)]
                 toDo == [run EXCEPT !.i = @ + 1, !.pending = Append(@, m)]
      <4>2. moved.pc = run.pc /\ toDo.pc = run.pc
        BY <4>1
      <4> HIDE DEF m, moved, toDo
      <4>3. \/ GoesTo(moved) \/ GoesTo(toDo) \/ Fails(toDo) \/ GoesTo(Idle) \/ Fails(Idle)
            \/ Logs("member-completed", m, moved) \/ LogFails("member-completed", m, Idle)
        BY <3>3 DEF ScanMember, m, moved, toDo
      <4>4. run'.pc = run.pc \/ run'.pc = "idle"
        BY <1>a, <4>2, <4>3, GivesUp DEF GoesTo, IoFails, ReadFails, Logs
      <4> QED
        BY <4>4, <1>3
    <3>4. CASE Finish
      BY <3>4, <1>a, GivesUp DEF Finish, GoesTo, IoFails, ReadFails, Logs
    <3> QED
      BY <1>3, <3>1, <3>2, <3>3, <3>4 DEF Execute, At, RevalidateGroup, PrepareMember,
         MakeParent, RenameMember, RecordMember, CompleteGroup, LeaveGroup, UndoMember, UndoRename,
         RecordUndo, FailGroup
  <2>2. Logs("group-started", {}, To("revalidate"))
    BY <2>1, GivesUp DEF BeginGroup
  <2>3. run.g \in GroupIds /\ run.pc \notin Undoing \cup {"idle"}
    BY <1>a, <1>3, <2>1 DEF BeginGroup, At, Placed, Undoing
  <2>4. journal' = [Replay("group-started", {}) EXCEPT !.file = "readable"]
    BY <1>a, <2>2, <2>3, KnownLogs
  <2>5. Replay("group-started", {}) = [journal EXCEPT !.outcome[run.g] = "started"]
    BY DEF Replay
  <2>6. journal'.outcome[run.g] = "started"
    BY <1>a, <2>3, <2>4, <2>5 DEF TypeOK, Journals
  <2> QED
    BY <1>1, <2>6
<1> QED
  BY <1>2, <1>3

\* A step touches only files of the group that is being moved or undone.
LEMMA OtherGroupsUntouched ==
  ASSUME RollbackInv, Execute, NEW h \in GroupIds,
         journal.outcome[h] = "rolled-back", AtSource(h)
  PROVE  AtSource(h)'
<1>a. /\ FilesTypeOK /\ run \in Runs /\ Placed(run) /\ Lists(run) /\ Open(run, journal.outcome)
  BY DEF RollbackInv, WriteAheadInv, TypeInv, TypeOK
<1>b. ASSUME run.pc \notin {"idle", "group", "scan"}
      PROVE  InGroup(h) \cap InGroup(run.g) = {}
  <2>1. run.g \in GroupIds /\ run.g # h
    BY <1>a, <1>b DEF Placed, Open
  <2> QED
    BY <2>1, ContractAssumption DEF InGroup
<1>c. InGroup(h) \subseteq Members
  BY GroupType DEF InGroup
<1>1. CASE RenameMember
  <2>1. CASE MoveOut(run.pending[run.i])
    <3>1. run.pending[run.i] \in InGroup(run.g) /\ run.pc = "rename"
      BY <1>1, <1>a DEF RenameMember, At, Placed, Lists
    <3>2. run.pending[run.i] \notin InGroup(h)
      BY <1>b, <3>1
    <3> QED
      BY <1>a, <1>c, <2>1, <3>2 DEF MoveOut, AtSource, FilesTypeOK
  <2>2. CASE UNCHANGED files
    BY <2>2 DEF files, AtSource
  <2> QED
    BY <1>1, <2>1, <2>2 DEF RenameMember
<1>2. CASE UndoRename
  <2>1. CASE MoveBack(run.completed[run.i])
    <3>1. run.completed[run.i] \in InGroup(run.g) /\ run.pc = "undo-rename"
      BY <1>2, <1>a DEF UndoRename, At, Placed, Lists
    <3>2. run.completed[run.i] \notin InGroup(h)
      BY <1>b, <3>1
    <3> QED
      BY <1>a, <1>c, <2>1, <3>2 DEF MoveBack, AtSource, FilesTypeOK
  <2>2. CASE UNCHANGED files
    BY <2>2 DEF files, AtSource
  <2> QED
    BY <1>2, <2>1, <2>2 DEF UndoRename
<1>3. CASE MakeParent
  BY <1>3 DEF MakeParent, MakeDir, AtSource, files
<1>4. CASE ~RenameMember /\ ~UndoRename /\ ~MakeParent
  <2>1. UNCHANGED files
    BY <1>4 DEF Execute, SkipGroup, EnterGroup, ScanMember, BeginGroup, Finish,
       RevalidateGroup, PrepareMember, RecordMember, CompleteGroup, LeaveGroup, UndoMember,
       RecordUndo, FailGroup
  <2> QED
    BY <2>1 DEF files, AtSource
<1> QED
  BY <1>1, <1>2, <1>3, <1>4

\* A group that a step records as rolled back lies where it was.
LEMMA ExecuteRestores ==
  ASSUME RollbackInv, Execute
  PROVE  RolledBackMeansRestored'
<1>a. TypeOK /\ run \in Runs /\ Covered(run, dst) /\ Conservation /\ RolledBackMeansRestored
  BY DEF RollbackInv, WriteAheadInv, TypeInv, TypeOK
<1> SUFFICES ASSUME NEW h \in GroupIds, journal'.outcome[h] = "rolled-back"
             PROVE  AtSource(h)'
  BY DEF RolledBackMeansRestored
<1>1. CASE journal.outcome[h] = "rolled-back"
  BY <1>a, <1>1, OtherGroupsUntouched DEF RolledBackMeansRestored
<1>2. CASE FailGroup /\ ~run.failed /\ h = run.g
  <2>1. run.pc \in Undoing /\ run.i = 0 /\ UNCHANGED files
    BY <1>2 DEF FailGroup, At, Undoing
  <2>2. \A m \in InGroup(h) : dst[m] # "media"
    BY <1>a, <1>2, <2>1 DEF Covered, Listed
  <2>3. InGroup(h) \subseteq Members
    BY GroupType DEF InGroup
  <2> QED
    BY <1>a, <2>1, <2>2, <2>3 DEF AtSource, Conservation, OneCopy, files
<1> QED
  BY <1>a, <1>1, <1>2, OutcomeSteps

\* The kinds of fault that have struck are never forgotten.
LEMMA FaultsGrow ==
  ASSUME [Next]_vars
  PROVE  faults.struck \subseteq faults'.struck
<1>1. SUFFICES UNCHANGED faults \/ \E kinds \in SUBSET FaultKinds : Strike(kinds)
  BY <1>1 DEF Strike
<1>2. ASSUME NEW kind, Fault(kind)
      PROVE  \E kinds \in SUBSET FaultKinds : Strike(kinds)
  BY <1>2, FaultAssumption DEF Fault, Strike
<1>3. ASSUME NEW event, NEW m, NEW next, NEW otherwise,
             Logs(event, m, next) \/ LogFails(event, m, otherwise)
      PROVE  UNCHANGED faults \/ \E kinds \in SUBSET FaultKinds : Strike(kinds)
  BY <1>2, <1>3, FaultAssumption DEF Logs, LogFails, NoFault, DiesWriting, Strike
<1>4. ASSUME NEW next, GoesTo(next) \/ Fails(next)
      PROVE  UNCHANGED faults \/ \E kinds \in SUBSET FaultKinds : Strike(kinds)
  BY <1>2, <1>4 DEF GoesTo, IoFails, ReadFails, NoFault
<1>5. CASE Start
  BY <1>3, <1>5 DEF Start
<1>6. CASE Resume
  BY <1>6 DEF Resume
<1>7. CASE Step
  <2>1. CASE SkipGroup \/ EnterGroup \/ ScanMember \/ BeginGroup \/ Finish
    BY <1>3, <1>4, <2>1, Zenon DEF SkipGroup, EnterGroup, ScanMember, BeginGroup, Finish
  <2>2. CASE RevalidateGroup \/ PrepareMember \/ MakeParent
    BY <1>3, <1>4, <2>2, Zenon DEF RevalidateGroup, PrepareMember, StartMember, MakeParent
  <2>3. CASE RenameMember \/ RecordMember \/ CompleteGroup \/ LeaveGroup
    BY <1>3, <1>4, <2>3, Zenon DEF RenameMember, RecordMember, CompleteGroup, LeaveGroup
  <2>4. CASE UndoMember \/ UndoRename \/ RecordUndo \/ FailGroup
    BY <1>3, <1>4, <2>4, Zenon DEF UndoMember, UndoRename, RecordUndo, FailGroup
  <2>5. CASE Crash \/ Interrupt
    BY <1>2, <2>5, Zenon DEF Crash, Interrupt
  <2> QED
    BY <1>7, <2>1, <2>2, <2>3, <2>4, <2>5 DEF Step, Execute
<1>8. CASE Interfere
  BY <1>2, <1>8 DEF Interfere
<1>9. CASE UNCHANGED vars
  BY <1>9 DEF vars, applyVars
<1> QED
  BY <1>5, <1>6, <1>7, <1>8, <1>9 DEF Next, Command

\* The invariant of rollback is inductive while nobody interferes or interrupts
\* and every file can be read: an interrupt right after a rename may hide the move
\* from the rollback, and a resume that cannot read a moved file does.
LEMMA RollbackInductive ==
  ASSUME "meddle" \notin Faults
  PROVE  /\ Init => RollbackInv
         /\ RollbackInv /\ [Next]_vars /\ Unhidden' => RollbackInv'
<1>1. ASSUME Init
      PROVE  RollbackInv
  <2>1. WriteAheadInv
    BY <1>1, WriteAheadInductive
  <2>2. Follows(Idle, dst)
    BY IdleFollows
  <2>3. run = Idle /\ Idle.pc = "idle"
    BY <1>1 DEF Init, Idle
  <2>4. RolledBackMeansRestored
    BY <1>1 DEF Init, RolledBackMeansRestored
  <2> QED
    BY <2>1, <2>2, <2>3, <2>4 DEF RollbackInv, Follows, Open
<1>2. ASSUME RollbackInv, [Next]_vars, Unhidden'
      PROVE  RollbackInv'
  <2>a. WriteAheadInv /\ TypeOK /\ RolledBackMeansRestored
    BY <1>2 DEF RollbackInv, WriteAheadInv, TypeInv
  <2>w. WriteAheadInv'
    BY <1>2, <2>a, WriteAheadInductive
  <2>l. ASSUME NEW r \in Runs, r.pc \in {"idle", "group"}, run' = r, UNCHANGED files,
               \A h \in GroupIds : journal'.outcome[h] = "rolled-back" =>
                 journal.outcome[h] = "rolled-back"
        PROVE  RollbackInv'
    <3>1. Follows(run', dst')
      BY <2>l, LoopFollows
    <3>2. Open(run', journal'.outcome)
      BY <2>l DEF Open
    <3>3. RolledBackMeansRestored'
      BY <2>a, <2>l DEF RolledBackMeansRestored, AtSource, files
    <3> QED
      BY <2>w, <3>1, <3>2, <3>3 DEF RollbackInv, Follows
  <2>i. Idle \in Runs /\ Idle.pc = "idle" /\ First \in Runs /\ First.pc = "group"
    BY IdlePlaced, FirstPlaced DEF Placed, First, Idle
  <2>1. CASE Start
    <3>1. UNCHANGED files /\ (Logs("run-started", {}, First) \/ LogFails("run-started", {}, Idle))
      BY <2>1 DEF Start
    <3>2. run' \in Runs
      BY <2>w DEF WriteAheadInv, TypeInv, TypeOK
    <3>3. run'.pc \in {"idle", "group"}
      BY <2>i, <3>1, GivesUp DEF Logs
    <3> QED
      BY <2>a, <2>l, <3>1, <3>2, <3>3, OutcomeKept
  <2>2. CASE Resume
    BY <2>2, <2>i, <2>l DEF Resume
  <2>3. CASE Step
    <3>1. CASE Execute
      <4>1. Follows(run', dst') /\ Open(run', journal'.outcome)
        BY <1>2, <2>3, <3>1, ExecuteFollows, ExecuteOpens DEF Step, Unhidden
      <4>2. RolledBackMeansRestored'
        BY <1>2, <3>1, ExecuteRestores
      <4> QED
        BY <2>w, <4>1, <4>2 DEF RollbackInv, Follows
    <3>2. CASE Crash
      BY <3>2, <2>i, <2>l DEF Crash
    <3>3. CASE Interrupt
      BY <1>2, <3>3 DEF Interrupt, Fault, Strike, Unhidden
    <3> QED
      BY <2>3, <3>1, <3>2, <3>3 DEF Step
  <2>4. CASE Interfere
    BY <2>4 DEF Interfere, Fault, Strike
  <2>5. CASE UNCHANGED vars
    BY <1>2, <2>w, <2>5 DEF RollbackInv, Covered, Listed, Lists, Open,
       RolledBackMeansRestored, AtSource, vars, applyVars, files
  <2> QED
    BY <1>2, <2>1, <2>2, <2>3, <2>4, <2>5 DEF Next, Command
<1> QED
  BY <1>1, <1>2

\* What holds of every behaviour: the invariant of rollback until the first
\* interrupt or failed read, and the write-ahead invariant for ever.
UnhiddenInv == WriteAheadInv /\ (Unhidden => RollbackInv)

\* While nobody else changes the library, a group that the journal holds as
\* rolled back lies where it was, whatever crashes, failed renames, failed new
\* directories and failed appends there were, unless an interrupt was raised or
\* a file could not be read.
THEOREM RolledBackIsTrue ==
  ASSUME "meddle" \notin Faults
  PROVE  Spec => []RollbackResultIsTrue
<1>1. Init => UnhiddenInv
  BY WriteAheadInductive, RollbackInductive DEF UnhiddenInv
<1>2. UnhiddenInv /\ [Next]_vars => UnhiddenInv'
  <2>1. SUFFICES ASSUME UnhiddenInv, [Next]_vars, Unhidden'
                 PROVE  RollbackInv'
    BY WriteAheadInductive DEF UnhiddenInv
  <2>2. Unhidden
    BY <2>1, FaultsGrow DEF Unhidden
  <2> QED
    BY <2>1, <2>2, RollbackInductive DEF UnhiddenInv
<1>3. UnhiddenInv => RollbackResultIsTrue
  BY DEF UnhiddenInv, Unhidden, RollbackInv, RollbackResultIsTrue
<1> QED
  BY <1>1, <1>2, <1>3, PTL DEF Spec

-------------------------------------------------------------------------------
(* An apply is a reorganization. *)

\* A group that the journal, as G has it, or the files at the destinations, as
\* d has them, show to have been reached; and one that both show to be done.
Reached(h, d, G) == h \in G \/ \E m \in InGroup(h) : d[m] = "media"
Behind(h, d, G) == h \in G /\ \A m \in InGroup(h) : d[m] = "media"

Forward == {"scan", "revalidate", "prepare", "mkdir", "rename", "renamed"}

\* The loop has all of the groups before its own behind it, has reached none
\* after it once it has entered its own, and enters only a group that is not
\* recorded as completed.
InTurn(r, d, G) ==
  /\ r.pc # "idle" => r.g >= 1 /\ \A h \in GroupIds : h < r.g => Behind(h, d, G)
  /\ r.pc \notin {"idle", "group"} => \A h \in GroupIds : h > r.g => ~Reached(h, d, G)
  /\ r.pc \in Forward => r.g \notin G
  /\ r.pc = "recorded" => Behind(r.g, d, G)

\* A member of the group that is not at its destination is still to be moved:
\* one of the pending ones, from the n-th on.
ToMove(r, n, m) == \E k \in 1..Len(r.pending) : k >= n /\ r.pending[k] = m

Remaining(r, d) ==
  /\ r.pc = "scan" =>
       \A j \in 1..Len(Contract[r.g]) : j < r.i =>
         d[Contract[r.g][j]] = "media" \/ ToMove(r, 1, Contract[r.g][j])
  /\ r.pc = "revalidate" => \A m \in InGroup(r.g) : d[m] = "media" \/ ToMove(r, 1, m)
  /\ r.pc \in {"prepare", "mkdir", "rename"} =>
       \A m \in InGroup(r.g) : d[m] = "media" \/ ToMove(r, r.i, m)
  /\ r.pc = "renamed" => \A m \in InGroup(r.g) : d[m] = "media" \/ ToMove(r, r.i + 1, m)

Fits(r, d, G) == r \in Runs /\ Lists(r) /\ Remaining(r, d) /\ InTurn(r, d, G)

\* Groups are reached in order; a run that goes on is not recorded as completed;
\* and a group is recorded as completed while it is undone only after a fault
\* that may have come just after its record.
InOrder ==
  \A g, h \in GroupIds : g < h /\ Reached(h, dst, journal.groups) => Behind(g, dst, journal.groups)

Trusted == faults.struck \cap {"fsync", "interrupt"} = {}

OrderInv ==
  /\ WriteAheadInv
  /\ Fits(run, dst, journal.groups) /\ InOrder
  /\ run.pc # "idle" \/ journal.file = "none" => ~journal.done
  /\ run.pc \in Undoing /\ Trusted => run.g \notin journal.groups

-------------------------------------------------------------------------------
(* What a step does to the record of groups and of the run. *)

LEMMA RecordKept ==
  ASSUME TypeOK, NEW event, NEW m, NEW next,
         Logs(event, m, next) \/ LogFails(event, m, next)
  PROVE  /\ event # "group-completed" => journal'.groups = journal.groups
         /\ event # "run-completed" => journal'.done = journal.done
         /\ journal'.file = "none" => journal.file = "none" /\ journal'.done = journal.done
<1>1. /\ event # "group-completed" => Replay(event, m).groups = journal.groups
      /\ event # "run-completed" => Replay(event, m).done = journal.done
  BY DEF TypeOK, Replay, MovedBack, Journals
<1>2. Replay(event, m) \in [file : {"none", "readable", "unreadable"},
        started : {Replay(event, m).started}, completed : {Replay(event, m).completed},
        groups : {Replay(event, m).groups}, outcome : {Replay(event, m).outcome},
        done : {Replay(event, m).done}]
  BY DEF TypeOK, Replay, MovedBack, Journals
<1>3. /\ event # "group-completed" => Written(event, m).groups = journal.groups
      /\ event # "run-completed" => Written(event, m).done = journal.done
      /\ Written(event, m).file # "none"
  BY <1>1, <1>2 DEF TypeOK, Written, Journals
<1> QED
  BY <1>3 DEF TypeOK, Logs, LogFails, Journals

LEMMA GroupRecorded ==
  ASSUME TypeOK, NEW m, NEW next, run.g \in GroupIds,
         Logs("group-completed", m, next) \/ LogFails("group-completed", m, next)
  PROVE  /\ journal'.groups \in {journal.groups, journal.groups \cup {run.g}}
         /\ journal'.groups # journal.groups /\ LogFails("group-completed", m, next) =>
              Fault("fsync")
<1>1. Replay("group-completed", m) =
        [journal EXCEPT !.groups = @ \cup {run.g}, !.outcome[run.g] = "completed"]
  BY DEF Replay
<1>2. Replay("group-completed", m).groups = journal.groups \cup {run.g}
  BY <1>1 DEF TypeOK, Journals
<1>3. Replay("group-completed", m) \in [file : {"none", "readable", "unreadable"},
        started : {Replay("group-completed", m).started},
        completed : {Replay("group-completed", m).completed},
        groups : {Replay("group-completed", m).groups},
        outcome : {Replay("group-completed", m).outcome},
        done : {Replay("group-completed", m).done}]
  BY <1>1 DEF TypeOK, Journals
<1>4. Written("group-completed", m).groups \in {journal.groups, journal.groups \cup {run.g}}
  BY <1>2, <1>3 DEF TypeOK, Written, Journals
<1> QED
  BY <1>4 DEF TypeOK, Logs, LogFails, Journals

-------------------------------------------------------------------------------
(* The control states that a step leads to. *)

LEMMA IdleFits ==
  ASSUME NEW d, NEW G
  PROVE  Fits(Idle, d, G)
<1>1. Idle \in Runs /\ Idle.pc = "idle"
  BY IdlePlaced DEF Placed, Idle
<1> QED
  BY <1>1 DEF Fits, Lists, Remaining, InTurn, Forward

LEMMA AheadFits ==
  ASSUME NEW r, NEW d, NEW G, Fits(r, d, G)
  PROVE  Fits([r EXCEPT !.ahead = r.pc # "idle"], d, G)
<1> DEFINE q == [r EXCEPT !.ahead = r.pc # "idle"]
<1>1. /\ q \in Runs /\ q.pc = r.pc /\ q.g = r.g /\ q.i = r.i /\ q.pending = r.pending
      /\ q.completed = r.completed
  BY DEF Fits, Runs
<1> HIDE DEF q
<1>2. Fits(q, d, G)
  BY <1>1 DEF Fits, Lists, Remaining, ToMove, InTurn
<1> QED
  BY <1>2 DEF q

LEMMA StepFits ==
  ASSUME NEW on, NEW off, NEW d, NEW G, Fits(on, d, G), Fits(off, d, G), NEW event, NEW m,
         \/ GoesTo(on) \/ Logs(event, m, on)
         \/ GoesTo(off) \/ Fails(off) \/ LogFails(event, m, off)
  PROVE  Fits(run', d, G)
BY AheadFits, IdleFits DEF GoesTo, Logs, IoFails, ReadFails, LogFails

\* Whatever is undone, the loop stays at its group.
LEMMA UndoFits ==
  ASSUME NEW r \in Runs, NEW d, NEW G, r.g \in GroupIds,
         \A k \in 1..Len(r.pending) : r.pending[k] \in InGroup(r.g),
         \A k \in 1..Len(r.completed) : r.completed[k] \in InGroup(r.g),
         r.g >= 1, \A h \in GroupIds : h < r.g => Behind(h, d, G),
         \A h \in GroupIds : h > r.g => ~Reached(h, d, G)
  PROVE  Fits(Undo(r), d, G)
<1>1. Undo(r) \in Runs
  BY UndoPlaced DEF Placed
<1>2. /\ Undo(r).pc = "undo" /\ Undo(r).g = r.g
      /\ Undo(r).pending = r.pending /\ Undo(r).completed = r.completed
  BY DEF Undo, Runs
<1> QED
  BY <1>1, <1>2 DEF Fits, Lists, Remaining, InTurn, Forward

LEMMA RollbackFits ==
  ASSUME NEW G, run.pc \notin {"idle", "group"}, Placed(run), Fits(run, dst, G)
  PROVE  Fits(Rollback, dst, G)
<1>1. run.g \in GroupIds /\ run \in Runs
  BY DEF Placed
<1> QED
  BY <1>1, UndoFits DEF Rollback, Fits, Lists, InTurn

\* From one phase of the rollback to another, and from one of those that walk
\* the pending members to another.
LEMMA ToFits ==
  ASSUME NEW G, Placed(run), Fits(run, dst, G), NEW phase,
         \/ run.pc \in {"prepare", "mkdir", "rename"} /\ phase \in {"prepare", "mkdir", "rename"}
         \/ run.pc \in Undoing /\ phase \in Undoing
  PROVE  Fits(To(phase), dst, G)
<1>1. To(phase) \in Runs /\ To(phase).pc = phase
  BY DEF To, Runs, Phases, Undoing, Placed
<1>2. /\ To(phase).g = run.g /\ To(phase).i = run.i /\ To(phase).pending = run.pending
      /\ To(phase).completed = run.completed
  BY DEF To, Runs, Placed
<1> QED
  BY <1>1, <1>2 DEF Fits, Lists, Remaining, ToMove, InTurn, Forward, Undoing

LEMMA ScanFits ==
  ASSUME TypeInv, NEW G, Fits(run, dst, G), At("scan"), run.i \in 1..Len(Contract[run.g])
  PROVE  LET m == Contract[run.g][run.i]
             moved == [run EXCEPT !.i = @ + 1, !.completed = Append(@, m)]
             toDo  == [run EXCEPT !.i = @ + 1, !.pending = Append(@, m)]
         IN  /\ dst[m] = "media" => Fits(moved, dst, G)
             /\ Fits(toDo, dst, G)
<1> DEFINE m == Contract[run.g][run.i]
           moved == [run EXCEPT !.i = @ + 1, !.completed = Append(@, m)]
           toDo  == [run EXCEPT !.i = @ + 1, !.pending = Append(@, m)]
<1>a. /\ run \in Runs /\ Lists(run) /\ Remaining(run, dst) /\ InTurn(run, dst, G)
      /\ run.pc = "scan" /\ run.g \in GroupIds
  BY DEF Fits, TypeInv, At, Placed
<1>b. /\ run.i \in Nat /\ run.pending \in Seq(Members) /\ run.completed \in Seq(Members)
      /\ Len(run.pending) \in Nat /\ Len(run.completed) \in Nat
      /\ Len(Contract[run.g]) \in Nat
  BY <1>a, RunType, GroupType
<1>c. m \in Members /\ m \in InGroup(run.g)
  BY <1>a, GroupType DEF InGroup
<1>d. /\ \A k \in 1..Len(run.pending) : run.pending[k] \in InGroup(run.g)
      /\ \A k \in 1..Len(run.completed) : run.completed[k] \in InGroup(run.g)
  BY <1>a DEF Lists
<1>e. \A j \in 1..Len(Contract[run.g]) : j < run.i =>
        dst[Contract[run.g][j]] = "media" \/ ToMove(run, 1, Contract[run.g][j])
  BY <1>a DEF Remaining
<1>1. ASSUME dst[m] = "media"
      PROVE  Fits(moved, dst, G)
  <2>1. Append(run.completed, m) \in Seq(Members) /\ run.i + 1 \in Nat
        /\ Len(Append(run.completed, m)) = Len(run.completed) + 1
        /\ \A k \in 1..Len(run.completed) : Append(run.completed, m)[k] = run.completed[k]
        /\ Append(run.completed, m)[Len(run.completed) + 1] = m
    BY <1>b, <1>c, Appended
  <2>2. moved \in Runs
    BY <1>a, <2>1 DEF Runs
  <2>3. /\ moved.pc = "scan" /\ moved.g = run.g /\ moved.i = run.i + 1
        /\ moved.pending = run.pending /\ moved.completed = Append(run.completed, m)
    BY <1>a DEF Runs
  <2> HIDE DEF moved
  <2>4. Lists(moved)
    BY <1>b, <1>c, <1>d, <2>1, <2>3 DEF Lists
  <2>5. ASSUME NEW j \in 1..Len(Contract[run.g]), j < run.i + 1
        PROVE  dst[Contract[run.g][j]] = "media" \/ ToMove(moved, 1, Contract[run.g][j])
    <3>1. CASE j = run.i
      BY <1>1, <3>1
    <3>2. CASE j # run.i
      <4>1. j < run.i
        BY <1>b, <2>5, <3>2
      <4>2. ToMove(run, 1, Contract[run.g][j]) => ToMove(moved, 1, Contract[run.g][j])
        BY <2>3 DEF ToMove
      <4> QED
        BY <1>e, <4>1, <4>2
    <3> QED
      BY <3>1, <3>2
  <2>6. Remaining(moved, dst)
    BY <2>3, <2>5 DEF Remaining
  <2> QED
    BY <1>a, <2>2, <2>3, <2>4, <2>6 DEF Fits, InTurn
<1>2. Fits(toDo, dst, G)
  <2>1. Append(run.pending, m) \in Seq(Members) /\ run.i + 1 \in Nat
        /\ Len(Append(run.pending, m)) = Len(run.pending) + 1
        /\ \A k \in 1..Len(run.pending) : Append(run.pending, m)[k] = run.pending[k]
        /\ Append(run.pending, m)[Len(run.pending) + 1] = m
    BY <1>b, <1>c, Appended
  <2>2. toDo \in Runs
    BY <1>a, <2>1 DEF Runs
  <2>3. /\ toDo.pc = "scan" /\ toDo.g = run.g /\ toDo.i = run.i + 1
        /\ toDo.completed = run.completed /\ toDo.pending = Append(run.pending, m)
    BY <1>a DEF Runs
  <2> HIDE DEF toDo
  <2>4. Lists(toDo)
    BY <1>b, <1>c, <1>d, <2>1, <2>3 DEF Lists
  <2>5. ASSUME NEW j \in 1..Len(Contract[run.g]), j < run.i + 1
        PROVE  dst[Contract[run.g][j]] = "media" \/ ToMove(toDo, 1, Contract[run.g][j])
    <3>1. CASE j = run.i
      <4>1. /\ Len(toDo.pending) \in 1..Len(toDo.pending) /\ 1 <= Len(toDo.pending)
            /\ toDo.pending[Len(toDo.pending)] = m
        BY <1>b, <2>1, <2>3
      <4> QED
        BY <3>1, <4>1 DEF ToMove
    <3>2. CASE dst[Contract[run.g][j]] = "media"
      BY <3>2
    <3>3. CASE j # run.i /\ ToMove(run, 1, Contract[run.g][j])
      <4>1. PICK k \in 1..Len(run.pending) : k >= 1 /\ run.pending[k] = Contract[run.g][j]
        BY <3>3 DEF ToMove
      <4>2. k \in 1..Len(toDo.pending) /\ k >= 1 /\ toDo.pending[k] = Contract[run.g][j]
        BY <1>b, <2>1, <2>3, <4>1
      <4> QED
        BY <4>2 DEF ToMove
    <3> QED
      BY <1>b, <1>e, <2>5, <3>1, <3>2, <3>3
  <2>6. Remaining(toDo, dst)
    BY <2>3, <2>5 DEF Remaining
  <2> QED
    BY <1>a, <2>2, <2>3, <2>4, <2>6 DEF Fits, InTurn
<1> QED
  BY <1>1, <1>2

\* After a rename the loop goes on with the next member, or undoes the group.
LEMMA MovedFits ==
  ASSUME TypeInv, NEW G, Fits(run, dst, G), At("renamed")
  PROVE  /\ Fits(Undo(Moved), dst, G)
         /\ Fits([Moved EXCEPT !.pc = "prepare", !.i = @ + 1], dst, G)
<1> DEFINE m == run.pending[run.i]
           on == [Moved EXCEPT !.pc = "prepare", !.i = @ + 1]
<1>a. /\ run \in Runs /\ Lists(run) /\ Remaining(run, dst) /\ InTurn(run, dst, G)
      /\ run.pc = "renamed" /\ run.g \in GroupIds /\ run.i \in 1..Len(run.pending)
  BY DEF Fits, TypeInv, At, Placed
<1>b. /\ run.i \in Nat /\ run.pending \in Seq(Members) /\ run.completed \in Seq(Members)
      /\ Len(run.pending) \in Nat /\ Len(run.completed) \in Nat /\ m \in Members
  BY <1>a, RunType
<1>c. /\ \A k \in 1..Len(run.pending) : run.pending[k] \in InGroup(run.g)
      /\ \A k \in 1..Len(run.completed) : run.completed[k] \in InGroup(run.g)
  BY <1>a DEF Lists
<1>1. Append(run.completed, m) \in Seq(Members) /\ run.i + 1 \in Nat
      /\ Len(Append(run.completed, m)) = Len(run.completed) + 1
      /\ \A k \in 1..Len(run.completed) : Append(run.completed, m)[k] = run.completed[k]
      /\ Append(run.completed, m)[Len(run.completed) + 1] = m
  BY <1>b, Appended
<1>2. Moved \in Runs
  BY <1>a, <1>1 DEF Moved, Runs
<1>3. Moved.g = run.g /\ Moved.i = run.i /\ Moved.pending = run.pending
      /\ Moved.completed = Append(run.completed, m)
  BY <1>a DEF Moved, Runs
<1>4. on \in Runs
  BY <1>1, <1>2, <1>3 DEF Runs, Phases
<1>5. on.pc = "prepare" /\ on.g = run.g /\ on.pending = run.pending /\ on.i = run.i + 1
      /\ on.completed = Append(run.completed, m)
  BY <1>2, <1>3 DEF Runs
<1> HIDE DEF on
<1>6. \A k \in 1..Len(Append(run.completed, m)) : Append(run.completed, m)[k] \in InGroup(run.g)
  BY <1>a, <1>b, <1>c, <1>1
<1>7. run.g >= 1 /\ (\A h \in GroupIds : h < run.g => Behind(h, dst, G))
      /\ (\A h \in GroupIds : h > run.g => ~Reached(h, dst, G)) /\ run.g \notin G
  BY <1>a DEF InTurn, Forward
<1>8. Fits(Undo(Moved), dst, G)
  BY <1>a, <1>c, <1>2, <1>3, <1>6, <1>7, UndoFits
<1>9. Remaining(on, dst)
  BY <1>a, <1>5 DEF Remaining, ToMove
<1>10. Fits(on, dst, G)
  BY <1>c, <1>4, <1>5, <1>6, <1>7, <1>9 DEF Fits, Lists, InTurn
<1> QED
  BY <1>8, <1>10 DEF on

LEMMA NextUndoFits ==
  ASSUME TypeInv, NEW G, Fits(run, dst, G), run.pc \in Undoing, run.i \in 1..Len(run.completed)
  PROVE  Fits(NextUndo, dst, G) /\ Fits(UndoFailed, dst, G)
<1>a. run \in Runs /\ Lists(run) /\ InTurn(run, dst, G) /\ run.g \in GroupIds
  BY DEF Fits, TypeInv, Placed, Undoing
<1>1. NextUndo \in Runs /\ UndoFailed \in Runs
  BY <1>a, NextUndoPlaced DEF Placed
<1>2. /\ NextUndo.pc = "undo" /\ NextUndo.g = run.g
      /\ NextUndo.completed = run.completed /\ NextUndo.pending = run.pending
  BY <1>a DEF NextUndo, Runs
<1>3. /\ UndoFailed.pc = "undo" /\ UndoFailed.g = run.g
      /\ UndoFailed.completed = run.completed /\ UndoFailed.pending = run.pending
  BY <1>a DEF UndoFailed, NextUndo, Runs
<1> QED
  BY <1>a, <1>1, <1>2, <1>3 DEF Fits, Lists, Remaining, InTurn, Forward, Undoing

\* The record of groups and of the run stays in all but two actions.
LEMMA OthersRecordNothing ==
  ASSUME TypeOK, Execute
  PROVE  /\ ~CompleteGroup => journal'.groups = journal.groups
         /\ ~Finish => journal'.done = journal.done
         /\ journal'.file = "none" => journal.file = "none" /\ journal'.done = journal.done
<1>1. ASSUME ~CompleteGroup, ~Finish
      PROVE  \/ UNCHANGED journal
             \/ \E event \in {"member-started", "member-completed", "member-rollback-started",
                    "member-rollback-completed", "group-started", "rolled-back",
                    "rollback-incomplete", "directory-create-started", "directory-created"} :
                  \E m, next : Logs(event, m, next) \/ LogFails(event, m, next)
  <2>1. CASE FailGroup
    BY <2>1 DEF FailGroup
  <2>2. CASE ~FailGroup
    BY <1>1, <2>2, Zenon DEF Execute, SkipGroup, EnterGroup, ScanMember, BeginGroup,
       RevalidateGroup, PrepareMember, StartMember, MakeParent, RenameMember,
       RecordMember, LeaveGroup, UndoMember, UndoRename, RecordUndo, GoesTo, IoFails, ReadFails
  <2> QED
    BY <2>1, <2>2
<1>2. CASE ~CompleteGroup /\ ~Finish
  BY <1>1, <1>2, RecordKept
<1>3. CASE CompleteGroup
  <2>1. ~Finish
    BY <1>3 DEF CompleteGroup, Finish, At
  <2> QED
    BY <1>3, <2>1, RecordKept DEF CompleteGroup
<1>4. CASE Finish
  <2>1. ~CompleteGroup
    BY <1>4 DEF CompleteGroup, Finish, At
  <2> QED
    BY <1>4, <2>1, RecordKept DEF Finish, GoesTo, IoFails, ReadFails
<1> QED
  BY <1>2, <1>3, <1>4

\* A group that is through: nothing of it is left to be moved.
LEMMA GroupThrough ==
  ASSUME TypeInv, NEW G, Fits(run, dst, G), At("prepare"), run.i = Len(run.pending) + 1
  PROVE  \A m \in InGroup(run.g) : dst[m] = "media"
<1>1. \A m \in InGroup(run.g) : dst[m] = "media" \/ ToMove(run, run.i, m)
  BY DEF Fits, Remaining, At
<1>2. Len(run.pending) \in Nat
  BY RunType DEF TypeInv, Placed
<1> QED
  BY <1>1, <1>2 DEF ToMove

\* A group is recorded as completed, and perhaps undone all the same.
LEMMA CompleteFits ==
  ASSUME OrderInv, CompleteGroup
  PROVE  Fits(run', dst, journal'.groups) /\ InOrder'
<1> DEFINE G == journal.groups
           H == journal.groups \cup {run.g}
<1>a. /\ TypeInv /\ TypeOK /\ Announced /\ Fits(run, dst, G) /\ InOrder
      /\ run.pc = "prepare" /\ run.g \in GroupIds /\ run \in Runs /\ UNCHANGED files
  BY DEF OrderInv, WriteAheadInv, TypeInv, CompleteGroup, At, Placed
<1>b. \A m \in InGroup(run.g) : dst[m] = "media"
  BY <1>a, GroupThrough DEF CompleteGroup
<1>c. /\ \A k \in 1..Len(run.pending) : run.pending[k] \in InGroup(run.g)
      /\ \A k \in 1..Len(run.completed) : run.completed[k] \in InGroup(run.g)
      /\ run.g >= 1 /\ (\A h \in GroupIds : h < run.g => Behind(h, dst, G))
      /\ (\A h \in GroupIds : h > run.g => ~Reached(h, dst, G))
  BY <1>a DEF Fits, Lists, InTurn
<1>n. run.g \in Nat /\ GroupIds \subseteq Nat
  BY <1>a, RunType DEF GroupIds
<1>d. /\ \A h \in GroupIds : h < run.g => Behind(h, dst, H)
      /\ \A h \in GroupIds : h > run.g => ~Reached(h, dst, H)
      /\ Behind(run.g, dst, H)
  BY <1>b, <1>c, <1>n DEF Behind, Reached
<1>1. ASSUME NEW K \in {G, H}
      PROVE  Fits(Rollback, dst, K)
  <2>1. /\ \A h \in GroupIds : h < run.g => Behind(h, dst, K)
        /\ \A h \in GroupIds : h > run.g => ~Reached(h, dst, K)
    BY <1>c, <1>d
  <2> HIDE DEF G, H
  <2> QED
    BY <1>a, <1>c, <2>1, UndoFits DEF Rollback
<1>2. Fits(To("recorded"), dst, H)
  <2>1. To("recorded") \in Runs /\ To("recorded").pc = "recorded"
    BY <1>a DEF To, Runs, Phases
  <2>2. /\ To("recorded").g = run.g /\ To("recorded").pending = run.pending
        /\ To("recorded").completed = run.completed
    BY <1>a DEF To, Runs
  <2> HIDE DEF H
  <2> QED
    BY <1>c, <1>d, <2>1, <2>2 DEF Fits, Lists, Remaining, InTurn, Forward
<1>3. InOrder'
  <2>1. journal'.groups \in {G, H} /\ dst' = dst
    BY <1>a, GroupRecorded DEF CompleteGroup, files
  <2>2. ASSUME NEW g \in GroupIds, NEW h \in GroupIds, g < h, Reached(h, dst, H)
        PROVE  Behind(g, dst, H)
    <3>1. CASE h = run.g
      BY <1>d, <2>2, <3>1
    <3>2. CASE h # run.g
      BY <1>a, <2>2, <3>2 DEF InOrder, Reached, Behind
    <3> QED
      BY <3>1, <3>2
  <2> HIDE DEF H
  <2> QED
    BY <1>a, <2>1, <2>2 DEF InOrder
<1>4. CASE Logs("group-completed", {}, To("recorded"))
  <2>1. run' = To("recorded") /\ journal' = [Replay("group-completed", {}) EXCEPT !.file = "readable"]
    BY <1>4, <1>a, KnownLogs DEF Undoing
  <2>2. Replay("group-completed", {}) =
          [journal EXCEPT !.groups = @ \cup {run.g}, !.outcome[run.g] = "completed"]
    BY DEF Replay
  <2>3. journal'.groups = H
    BY <1>a, <2>1, <2>2 DEF TypeOK, Journals
  <2> QED
    BY <1>2, <1>3, <2>1, <2>3
<1>5. CASE LogFails("group-completed", {}, Rollback)
  <2>1. journal'.groups \in {G, H}
    BY <1>5, <1>a, GroupRecorded
  <2>2. Fits(Rollback, dst, journal'.groups) /\ Fits(Idle, dst, journal'.groups)
    BY <1>1, <2>1, IdleFits
  <2>3. Fits(run', dst, journal'.groups)
    BY <1>5, <2>2, StepFits
  <2> QED
    BY <1>3, <2>3
<1> QED
  BY <1>4, <1>5 DEF CompleteGroup

LEMMA GroupsDisjoint ==
  ASSUME NEW g \in GroupIds, NEW h \in GroupIds, g # h
  PROVE  InGroup(g) \cap InGroup(h) = {}
BY ContractAssumption DEF InGroup

\* A rename of a member of the loop's group keeps the order of the groups.
LEMMA RenameFits ==
  ASSUME OrderInv, At("rename"), MoveOut(run.pending[run.i]), GoesTo(To("renamed"))
  PROVE  Fits(run', dst', journal'.groups) /\ InOrder'
<1> DEFINE m == run.pending[run.i]
           G == journal.groups
<1>a. /\ TypeInv /\ FilesTypeOK /\ Conservation /\ Fits(run, dst, G) /\ InOrder
      /\ run.pc = "rename" /\ run.g \in GroupIds /\ run \in Runs
      /\ run.i \in 1..Len(run.pending)
  BY DEF OrderInv, WriteAheadInv, TypeInv, TypeOK, At, Placed
<1>b. /\ \A k \in 1..Len(run.pending) : run.pending[k] \in InGroup(run.g)
      /\ \A k \in 1..Len(run.completed) : run.completed[k] \in InGroup(run.g)
      /\ run.g >= 1 /\ (\A h \in GroupIds : h < run.g => Behind(h, dst, G))
      /\ (\A h \in GroupIds : h > run.g => ~Reached(h, dst, G)) /\ run.g \notin G
      /\ \A n \in InGroup(run.g) : dst[n] = "media" \/ ToMove(run, run.i, n)
  BY <1>a DEF Fits, Lists, InTurn, Forward, Remaining
<1>c. m \in InGroup(run.g) /\ m \in Members /\ run.i \in Nat /\ Len(run.pending) \in Nat
      /\ \A h \in GroupIds : InGroup(h) \subseteq Members
  BY <1>a, <1>b, RunType, GroupType DEF InGroup
<1>n. run.g \in Nat /\ GroupIds \subseteq Nat
  BY <1>a, RunType DEF GroupIds
<1>d. dst'[m] = "media" /\ \A n \in Members : n # m => dst'[n] = dst[n]
  BY <1>a, <1>c DEF MoveOut, CanMoveOut, FilesTypeOK, Conservation, OneCopy
<1>e. \A h \in GroupIds : h # run.g => m \notin InGroup(h)
  BY <1>a, <1>c, GroupsDisjoint
<1>1. /\ \A h \in GroupIds : Behind(h, dst, G) => Behind(h, dst', G)
      /\ \A h \in GroupIds : h # run.g /\ Reached(h, dst', G) => Reached(h, dst, G)
  BY <1>c, <1>d, <1>e DEF Behind, Reached
<1>2. journal'.groups = G /\ run' = To("renamed")
  BY DEF GoesTo
<1>3. To("renamed") \in Runs /\ To("renamed").pc = "renamed"
  BY <1>a DEF To, Runs, Phases
<1>4. /\ To("renamed").g = run.g /\ To("renamed").pending = run.pending
      /\ To("renamed").completed = run.completed /\ To("renamed").i = run.i
  BY <1>a DEF To, Runs
<1> HIDE DEF G
<1>5. ASSUME NEW n \in InGroup(run.g)
      PROVE  dst'[n] = "media" \/ ToMove(To("renamed"), run.i + 1, n)
  <2>1. CASE n = m
    BY <1>d, <2>1
  <2>2. CASE n # m
    <3>1. dst[n] = "media" => dst'[n] = "media"
      BY <1>a, <1>c, <1>d, <2>2
    <3>2. ToMove(run, run.i, n) => ToMove(To("renamed"), run.i + 1, n)
      BY <1>c, <1>4, <2>2 DEF ToMove
    <3> QED
      BY <1>b, <3>1, <3>2
  <2> QED
    BY <2>1, <2>2
<1>6. Fits(To("renamed"), dst', G)
  <2>1. Remaining(To("renamed"), dst')
    BY <1>3, <1>4, <1>5 DEF Remaining
  <2>2. InTurn(To("renamed"), dst', G)
    BY <1>b, <1>n, <1>1, <1>3, <1>4 DEF InTurn
  <2> QED
    BY <1>b, <1>3, <1>4, <2>1, <2>2 DEF Fits, Lists
<1>7. InOrder'
  <2>1. ASSUME NEW g \in GroupIds, NEW h \in GroupIds, g < h, Reached(h, dst', G)
        PROVE  Behind(g, dst', G)
    <3>1. CASE h = run.g
      BY <1>b, <1>1, <2>1, <3>1
    <3>2. CASE h # run.g
      BY <1>a, <1>1, <2>1, <3>2 DEF InOrder, G
    <3> QED
      BY <3>1, <3>2
  <2> QED
    BY <1>2, <2>1 DEF InOrder
<1> QED
  BY <1>2, <1>6, <1>7

\* So does a member that goes back, as no group after its own was reached.
LEMMA UndoRenameFits ==
  ASSUME OrderInv, At("undo-rename"), MoveBack(run.completed[run.i]), GoesTo(To("undone"))
  PROVE  Fits(run', dst', journal'.groups) /\ InOrder'
<1> DEFINE m == run.completed[run.i]
           G == journal.groups
<1>a. /\ TypeInv /\ FilesTypeOK /\ Fits(run, dst, G) /\ InOrder
      /\ run.pc = "undo-rename" /\ run.g \in GroupIds /\ run \in Runs
      /\ run.i \in 1..Len(run.completed)
  BY DEF OrderInv, WriteAheadInv, TypeInv, TypeOK, At, Placed
<1>b. /\ \A k \in 1..Len(run.pending) : run.pending[k] \in InGroup(run.g)
      /\ \A k \in 1..Len(run.completed) : run.completed[k] \in InGroup(run.g)
      /\ run.g >= 1 /\ (\A h \in GroupIds : h < run.g => Behind(h, dst, G))
      /\ (\A h \in GroupIds : h > run.g => ~Reached(h, dst, G))
  BY <1>a DEF Fits, Lists, InTurn
<1>c. m \in InGroup(run.g) /\ m \in Members
      /\ \A h \in GroupIds : InGroup(h) \subseteq Members
  BY <1>a, <1>b, RunType, GroupType DEF InGroup
<1>n. run.g \in Nat /\ GroupIds \subseteq Nat
  BY <1>a, RunType DEF GroupIds
<1>d. dst'[m] # "media" /\ \A n \in Members : n # m => dst'[n] = dst[n]
  BY <1>a, <1>c DEF MoveBack, CanMoveBack, FilesTypeOK
<1>e. \A h \in GroupIds : h # run.g => m \notin InGroup(h)
  BY <1>a, <1>c, GroupsDisjoint
<1>1. /\ \A h \in GroupIds : h # run.g /\ Behind(h, dst, G) => Behind(h, dst', G)
      /\ \A h \in GroupIds : Reached(h, dst', G) => Reached(h, dst, G)
  BY <1>c, <1>d, <1>e DEF Behind, Reached
<1>2. journal'.groups = G /\ run' = To("undone")
  BY DEF GoesTo
<1>3. To("undone") \in Runs /\ To("undone").pc = "undone"
  BY <1>a DEF To, Runs, Phases
<1>4. /\ To("undone").g = run.g /\ To("undone").pending = run.pending
      /\ To("undone").completed = run.completed
  BY <1>a DEF To, Runs
<1> HIDE DEF G
<1>5. Fits(To("undone"), dst', G)
  BY <1>b, <1>n, <1>1, <1>3, <1>4 DEF Fits, Lists, Remaining, InTurn, Forward
<1>6. InOrder'
  <2>1. ASSUME NEW g \in GroupIds, NEW h \in GroupIds, g < h, Reached(h, dst', G)
        PROVE  Behind(g, dst', G)
    <3>1. Reached(h, dst, G) /\ Behind(g, dst, G)
      BY <1>a, <1>1, <2>1 DEF InOrder, G
    <3>2. g # run.g
      BY <1>b, <1>n, <2>1, <3>1
    <3> QED
      BY <1>1, <3>1, <3>2
  <2> QED
    BY <1>2, <2>1 DEF InOrder
<1> QED
  BY <1>2, <1>5, <1>6

\* Every step of a running executor keeps the order of the groups.
LEMMA ExecuteFits ==
  ASSUME "meddle" \notin Faults, OrderInv, ~At("idle"), Execute
  PROVE  Fits(run', dst', journal'.groups) /\ InOrder'
<1> DEFINE G == journal.groups
<1>a. /\ TypeInv /\ TypeOK /\ run \in Runs /\ Placed(run)
      /\ Fits(run, dst, G) /\ InOrder
      /\ run.pc \notin {"idle", "group"} => run.g \in GroupIds
  BY DEF OrderInv, WriteAheadInv, TypeInv, TypeOK, Placed
<1>n. run.g \in Nat /\ run.i \in Nat /\ Len(run.pending) \in Nat /\ Len(run.completed) \in Nat
      /\ run.g + 1 \in Nat /\ GroupIds \subseteq Nat
  BY <1>a, RunType DEF GroupIds
<1>i. Fits(Idle, dst, G)
  BY IdleFits
<1>b. run.pc \notin {"idle", "group"} => Fits(Rollback, dst, G)
  BY <1>a, RollbackFits
<1>t. InTurn(run, dst, G)
  BY <1>a DEF Fits
<1>s. ASSUME UNCHANGED files, ~CompleteGroup, Fits(run', dst, G)
      PROVE  Fits(run', dst', journal'.groups) /\ InOrder'
  <2>1. dst' = dst /\ journal'.groups = G
    BY <1>a, <1>s, OthersRecordNothing DEF files
  <2> QED
    BY <1>a, <1>s, <2>1 DEF InOrder
<1>1. CASE SkipGroup
  <2> DEFINE next == [run EXCEPT !.g = @ + 1]
  <2>1. next \in Runs
    BY <1>a, <1>n DEF Runs
  <2>2. next.pc = "group" /\ next.g = run.g + 1 /\ run.pc = "group"
    BY <1>1, <1>a DEF SkipGroup, At, Runs
  <2> HIDE DEF next
  <2>3. ASSUME Verified(run.g)
        PROVE  Fits(next, dst, G)
    <3>1. Behind(run.g, dst, G)
      BY <1>1, <2>3 DEF SkipGroup, Verified, Organized, Behind
    <3>2. \A h \in GroupIds : h < run.g + 1 => Behind(h, dst, G)
      BY <1>n, <1>t, <2>2, <3>1 DEF InTurn
    <3>3. run.g + 1 >= 1
      BY <1>n
    <3> QED
      BY <2>1, <2>2, <3>2, <3>3 DEF Fits, Lists, Remaining, InTurn, Forward
  <2>4. (Verified(run.g) /\ GoesTo(next)) \/ GoesTo(Idle) \/ Fails(Idle)
    BY <1>1 DEF SkipGroup, next
  <2>5. Fits(run', dst, G)
    BY <1>i, <2>3, <2>4 DEF GoesTo, IoFails, ReadFails
  <2> QED
    BY <1>1, <1>s, <2>2, <2>5 DEF SkipGroup, CompleteGroup, At
<1>2. CASE EnterGroup
  <2>1. <<>> \in Seq(Members) /\ "scan" \in Phases /\ 1 \in Nat
    BY DEF Phases
  <2>2. Entered \in Runs
    BY <1>a, <2>1 DEF Entered, Runs
  <2>3. Entered.pc = "scan" /\ Entered.g = run.g /\ Entered.i = 1 /\ Entered.pending = <<>>
        /\ Entered.completed = <<>>
    BY <1>a DEF Entered, Runs
  <2>4. run.g \in GroupIds /\ Len(Contract[run.g]) \in Nat /\ run.g \notin G /\ run.pc = "group"
    BY <1>2, GroupType DEF EnterGroup, At
  <2>5. Lists(Entered) /\ Remaining(Entered, dst)
    BY <2>3, <2>4 DEF Lists, Remaining
  <2>6. \A h \in GroupIds : h > run.g => ~Reached(h, dst, G)
    BY <1>a, <1>n, <2>4 DEF InOrder, Behind
  <2>7. InTurn(Entered, dst, G)
    BY <1>t, <2>3, <2>4, <2>6 DEF InTurn
  <2>8. Fits(run', dst, G)
    BY <1>2, <2>2, <2>5, <2>7 DEF EnterGroup, GoesTo, Fits
  <2> QED
    BY <1>2, <1>s, <2>4, <2>8 DEF EnterGroup, CompleteGroup, At
<1>3. CASE ScanMember
  <2> DEFINE m == Contract[run.g][run.i]
             moved == [run EXCEPT !.i = @ + 1, !.completed = Append(@, m)]
             toDo == [run EXCEPT !.i = @ + 1, !.pending = Append(@, m)]
  <2>1. At("scan") /\ run.i \in 1..Len(Contract[run.g]) /\ UNCHANGED files
    BY <1>3 DEF ScanMember
  <2>2. (dst[m] = "media" => Fits(moved, dst, G)) /\ Fits(toDo, dst, G)
    BY <1>a, <2>1, ScanFits
  <2>3. Adoptable(m) \/ Organized(m) => dst[m] = "media"
    BY DEF Adoptable, Organized
  <2> HIDE DEF m, moved, toDo
  <2>4. \/ GoesTo(toDo) \/ Fails(toDo) \/ GoesTo(Idle) \/ Fails(Idle)
        \/ dst[m] = "media" /\ GoesTo(moved)
        \/ dst[m] = "media" /\ (Logs("member-completed", m, moved)
                                  \/ LogFails("member-completed", m, Idle))
    BY <1>3, <2>3 DEF ScanMember, m, moved, toDo
  <2>5. Fits(run', dst, G)
    BY <1>i, <2>2, <2>4, StepFits
  <2> QED
    BY <1>s, <2>1, <2>5 DEF CompleteGroup, At
<1>4. CASE BeginGroup
  <2>1. run.pc = "scan" /\ run.i = Len(Contract[run.g]) + 1 /\ run.g \in GroupIds
    BY <1>4, <1>a DEF BeginGroup, At
  <2>2. Len(Contract[run.g]) \in Nat
    BY <2>1, GroupType
  <2>3. \A m \in InGroup(run.g) : dst[m] = "media" \/ ToMove(run, 1, m)
    BY <1>a, <2>1, <2>2 DEF Fits, Remaining, InGroup
  <2>4. To("revalidate") \in Runs /\ To("revalidate").pc = "revalidate"
    BY <1>a DEF To, Runs, Phases
  <2>5. To("revalidate").g = run.g /\ To("revalidate").pending = run.pending
        /\ To("revalidate").completed = run.completed
    BY <1>a DEF To, Runs
  <2>6. Fits(To("revalidate"), dst, G)
    BY <1>a, <2>1, <2>3, <2>4, <2>5 DEF Fits, Lists, Remaining, ToMove, InTurn, Forward
  <2>7. Fits(run', dst, G)
    BY <1>4, <1>i, <2>6, StepFits DEF BeginGroup
  <2> QED
    BY <1>4, <1>s, <2>1, <2>7 DEF BeginGroup, CompleteGroup, At
<1>5. CASE Finish
  <2>1. Fits(run', dst, G)
    BY <1>5, <1>i, StepFits DEF Finish
  <2> QED
    BY <1>5, <1>s, <2>1 DEF Finish, CompleteGroup, At
<1>6. CASE RevalidateGroup
  <2> DEFINE next == [run EXCEPT !.pc = "prepare", !.i = 1]
  <2>1. run.pc = "revalidate"
    BY <1>6 DEF RevalidateGroup, At
  <2>2. next \in Runs
    BY <1>a DEF Runs, Phases
  <2>3. next.pc = "prepare" /\ next.g = run.g /\ next.pending = run.pending /\ next.i = 1
        /\ next.completed = run.completed
    BY <1>a DEF Runs
  <2> HIDE DEF next
  <2>4. Fits(next, dst, G)
    BY <1>a, <2>1, <2>2, <2>3 DEF Fits, Lists, Remaining, ToMove, InTurn, Forward
  <2>5. GoesTo(next) \/ GoesTo(Rollback) \/ Fails(Rollback)
    BY <1>6 DEF RevalidateGroup, next
  <2>6. Fits(run', dst, G)
    BY <1>b, <2>1, <2>4, <2>5, StepFits
  <2> QED
    BY <1>6, <1>s, <2>1, <2>6 DEF RevalidateGroup, CompleteGroup, At
<1>7. CASE PrepareMember
  <2>1. run.pc = "prepare" /\ run.i \in 1..Len(run.pending)
    BY <1>7 DEF PrepareMember, At
  <2>2. Fits(To("mkdir"), dst, G) /\ Fits(To("rename"), dst, G) /\ Fits(Rollback, dst, G)
    BY <1>a, <1>b, <2>1, ToFits
  <2>3. \E event, m :
          \/ Logs(event, m, To("mkdir")) \/ Logs(event, m, To("rename"))
          \/ LogFails(event, m, Rollback) \/ GoesTo(Rollback) \/ Fails(Rollback)
    BY <1>7 DEF PrepareMember, StartMember
  <2>4. Fits(run', dst, G)
    BY <2>2, <2>3, StepFits
  <2>5. ~CompleteGroup
    BY <1>n, <2>1 DEF CompleteGroup
  <2> QED
    BY <1>7, <1>s, <2>4, <2>5 DEF PrepareMember
<1>8. CASE MakeParent
  <2>1. run.pc = "mkdir" /\ dst' = dst
    BY <1>8 DEF MakeParent, At, MakeDir, files
  <2>2. Fits(To("prepare"), dst, G) /\ Fits(Rollback, dst, G)
    BY <1>a, <1>b, <2>1, ToFits
  <2>3. \E event, m :
          \/ Logs(event, m, To("prepare"))
          \/ LogFails(event, m, Rollback) \/ GoesTo(Rollback) \/ Fails(Rollback)
    BY <1>8 DEF MakeParent
  <2>4. Fits(run', dst, G)
    BY <2>2, <2>3, StepFits
  <2>5. journal'.groups = G
    BY <1>a, <2>1, OthersRecordNothing DEF CompleteGroup, At
  <2> QED
    BY <1>a, <2>1, <2>4, <2>5 DEF InOrder
<1>9. CASE RenameMember
  <2> DEFINE m == run.pending[run.i]
  <2>1. run.pc = "rename" /\ At("rename")
    BY <1>9 DEF RenameMember, At
  <2>2. CASE MoveOut(m) /\ GoesTo(To("renamed"))
    BY <2>1, <2>2, RenameFits
  <2>3. CASE UNCHANGED files /\ (GoesTo(Rollback) \/ Fails(Rollback))
    <3>1. Fits(run', dst, G)
      BY <1>b, <2>1, <2>3, StepFits
    <3> QED
      BY <1>s, <2>1, <2>3, <3>1 DEF CompleteGroup, At
  <2> QED
    BY <1>9, <2>2, <2>3 DEF RenameMember
<1>10. CASE RecordMember
  <2> DEFINE m == run.pending[run.i]
             on == [Moved EXCEPT !.pc = "prepare", !.i = @ + 1]
  <2>1. Fits(Undo(Moved), dst, G) /\ Fits(on, dst, G) /\ run.pc = "renamed"
    BY <1>10, <1>a, MovedFits DEF RecordMember, At
  <2> HIDE DEF on
  <2>2. \/ Logs("member-completed", m, on) \/ LogFails("member-completed", m, Undo(Moved))
        \/ GoesTo(Undo(Moved)) \/ Fails(Undo(Moved))
    BY <1>10 DEF RecordMember, on
  <2>3. Fits(run', dst, G)
    BY <2>1, <2>2, StepFits
  <2> QED
    BY <1>10, <1>s, <2>1, <2>3 DEF RecordMember, CompleteGroup, At
<1>11. CASE CompleteGroup
  <2>1. UNCHANGED files
    BY <1>11 DEF CompleteGroup
  <2> QED
    BY <1>11, <2>1, CompleteFits DEF files
<1>12. CASE UndoMember
  <2> DEFINE m == run.completed[run.i]
  <2>1. run.pc = "undo" /\ run.pc \in Undoing /\ run.i \in 1..Len(run.completed)
    BY <1>12 DEF UndoMember, At, Undoing
  <2>2. Fits(UndoFailed, dst, G) /\ Fits(To("undo-rename"), dst, G)
    BY <1>a, <2>1, NextUndoFits, ToFits DEF Undoing
  <2>3. \/ GoesTo(UndoFailed) \/ Fails(UndoFailed)
        \/ \E next \in {UndoFailed, To("undo-rename")} :
             Logs("member-rollback-started", m, next) \/ LogFails("member-rollback-started", m, next)
    BY <1>12 DEF UndoMember
  <2>4. Fits(run', dst, G)
    BY <2>2, <2>3, StepFits
  <2> QED
    BY <1>12, <1>s, <2>1, <2>4 DEF UndoMember, CompleteGroup, At
<1>13. CASE UndoRename
  <2> DEFINE m == run.completed[run.i]
  <2>1. run.pc = "undo-rename" /\ At("undo-rename") /\ run.i \in 1..Len(run.completed)
    BY <1>13, <1>a DEF UndoRename, At, Placed
  <2>2. CASE MoveBack(m) /\ GoesTo(To("undone"))
    BY <2>1, <2>2, UndoRenameFits
  <2>3. CASE UNCHANGED files /\ (GoesTo(UndoFailed) \/ Fails(UndoFailed))
    <3>1. Fits(run', dst, G)
      BY <1>a, <2>1, <2>3, NextUndoFits, StepFits DEF Undoing
    <3> QED
      BY <1>s, <2>1, <2>3, <3>1 DEF CompleteGroup, At
  <2> QED
    BY <1>13, <2>2, <2>3 DEF UndoRename
<1>14. CASE RecordUndo
  <2> DEFINE m == run.completed[run.i]
  <2>1. run.pc = "undone" /\ run.pc \in Undoing /\ run.i \in 1..Len(run.completed)
    BY <1>14, <1>a DEF RecordUndo, At, Undoing, Placed
  <2>2. Fits(UndoFailed, dst, G) /\ Fits(NextUndo, dst, G)
    BY <1>a, <2>1, NextUndoFits
  <2>3. \/ GoesTo(UndoFailed) \/ Fails(UndoFailed)
        \/ Logs("member-rollback-completed", m, NextUndo)
        \/ LogFails("member-rollback-completed", m, NextUndo)
    BY <1>14 DEF RecordUndo
  <2>4. Fits(run', dst, G)
    BY <2>2, <2>3, StepFits
  <2> QED
    BY <1>14, <1>s, <2>1, <2>4 DEF RecordUndo, CompleteGroup, At
<1>15. CASE FailGroup
  <2>1. Fits(run', dst, G)
    BY <1>15, <1>i, StepFits DEF FailGroup
  <2> QED
    BY <1>15, <1>s, <2>1 DEF FailGroup, CompleteGroup, At
<1>16. CASE LeaveGroup
  <2> DEFINE on == [run EXCEPT !.pc = "group", !.g = @ + 1]
  <2>1. on \in Runs /\ on.pc = "group" /\ on.g = run.g + 1 /\ run.pc = "recorded"
    BY <1>16, <1>a, <1>n DEF Runs, Phases, LeaveGroup, At
  <2> HIDE DEF on
  <2>2. ASSUME NEW h \in GroupIds, h < run.g + 1
        PROVE  Behind(h, dst, G)
    <3>1. h < run.g \/ h = run.g
      BY <1>n, <2>2 DEF GroupIds
    <3>2. h < run.g => Behind(h, dst, G)
      BY <1>t, <2>1 DEF InTurn
    <3>3. Behind(run.g, dst, G)
      BY <1>t, <2>1 DEF InTurn
    <3> QED
      BY <3>1, <3>2, <3>3
  <2>3. run.g + 1 >= 1
    BY <1>n
  <2>4. Fits(on, dst, G)
    BY <2>1, <2>2, <2>3 DEF Fits, Lists, Remaining, InTurn, Forward
  <2>5. GoesTo(on)
    BY <1>16 DEF LeaveGroup, on
  <2>6. Fits(run', dst, G)
    BY <2>4, <2>5 DEF GoesTo
  <2> QED
    BY <1>16, <1>s, <2>1, <2>6 DEF LeaveGroup, CompleteGroup, At
<1> QED
  BY <1>1, <1>2, <1>3, <1>4, <1>5, <1>6, <1>7, <1>8, <1>9, <1>10, <1>11,
     <1>12, <1>13, <1>14, <1>15, <1>16 DEF Execute

\* The group of a control state that an append or a move leads to.
LEMMA KeepsGroup ==
  ASSUME NEW on, NEW off, on.g = run.g, off \in Runs, off.g = run.g, NEW event, NEW m,
         \/ GoesTo(on) \/ Logs(event, m, on)
         \/ GoesTo(off) \/ Fails(off) \/ LogFails(event, m, off)
  PROVE  run'.g = run.g \/ run'.pc = "idle"
<1>1. [off EXCEPT !.ahead = off.pc # "idle"].g = off.g /\ Idle.pc = "idle"
  BY DEF Runs, Idle
<1> QED
  BY <1>1 DEF GoesTo, Logs, IoFails, ReadFails, LogFails

\* A rollback is that of the group the loop is at, once it has been begun.
LEMMA RollbackStays ==
  ASSUME TypeInv, ~At("idle"), Execute, run'.pc \in Undoing
  PROVE  run.pc \notin {"idle", "group", "scan", "recorded"} /\ run'.g = run.g
<1>a. run \in Runs /\ Placed(run) /\ run.pc # "idle"
  BY DEF TypeInv, Placed, At
<1>i. /\ Idle.pc = "idle"
      /\ \A phase \in {"idle", "group", "scan", "recorded", "revalidate"} : phase \notin Undoing
  BY DEF Idle, Undoing
<1>1. CASE SkipGroup
  <2>1. [run EXCEPT !.g = @ + 1].pc = "group"
    BY <1>1, <1>a DEF SkipGroup, At, Runs
  <2> QED
    BY <1>1, <1>i, <2>1 DEF SkipGroup, GoesTo, IoFails, ReadFails
<1>2. CASE EnterGroup
  BY <1>2, <1>a, <1>i DEF EnterGroup, GoesTo, Entered, Runs
<1>3. CASE ScanMember
  <2> DEFINE m == Contract[run.g][run.i]
             moved == [run EXCEPT !.i = @ + 1, !.completed = Append(@, m)]
             toDo == [run EXCEPT !.i = @ + 1, !.pending = Append(@, m)]
  <2>1. moved.pc = "scan" /\ toDo.pc = "scan"
    BY <1>3, <1>a DEF ScanMember, At, Runs
  <2> HIDE DEF m, moved, toDo
  <2>2. \/ GoesTo(moved) \/ GoesTo(toDo) \/ Fails(toDo) \/ GoesTo(Idle) \/ Fails(Idle)
        \/ Logs("member-completed", m, moved) \/ LogFails("member-completed", m, Idle)
    BY <1>3 DEF ScanMember, m, moved, toDo
  <2> QED
    BY <1>i, <2>1, <2>2, GivesUp DEF GoesTo, IoFails, ReadFails, Logs
<1>4. CASE BeginGroup
  <2>1. To("revalidate").pc = "revalidate"
    BY <1>a DEF To, Runs
  <2> QED
    BY <1>4, <1>i, <2>1, GivesUp DEF BeginGroup, Logs
<1>5. CASE Finish
  BY <1>5, <1>i, GivesUp DEF Finish, GoesTo, IoFails, ReadFails, Logs
<1>6. CASE LeaveGroup
  <2>1. [run EXCEPT !.pc = "group", !.g = @ + 1].pc = "group"
    BY <1>a DEF Runs
  <2> QED
    BY <1>6, <1>i, <2>1 DEF LeaveGroup, GoesTo
<1>7. CASE FailGroup
  BY <1>7, <1>i, GivesUp DEF FailGroup, Logs
<1>8. ASSUME \/ RevalidateGroup \/ PrepareMember \/ MakeParent \/ RenameMember \/ RecordMember
             \/ CompleteGroup \/ UndoMember \/ UndoRename \/ RecordUndo
      PROVE  run.pc \notin {"idle", "group", "scan", "recorded"} /\ run'.g = run.g
  <2>1. run.pc \notin {"idle", "group", "scan", "recorded"} /\ run.g \in GroupIds
    BY <1>8, <1>a DEF RevalidateGroup, PrepareMember, MakeParent, RenameMember, RecordMember,
       CompleteGroup, UndoMember, UndoRename, RecordUndo, At, Placed
  <2>2. \A phase : To(phase).g = run.g
    BY <1>a DEF To, Runs
  <2>3. Rollback \in Runs /\ Rollback.g = run.g
    BY <1>a, <2>1, UndoPlaced DEF Rollback, Undo, Runs, Placed
  <2>4. CASE RevalidateGroup
    <3> DEFINE next == [run EXCEPT !.pc = "prepare", !.i = 1]
    <3>1. next.g = run.g
      BY <1>a DEF Runs
    <3> HIDE DEF next
    <3>2. GoesTo(next) \/ GoesTo(Rollback) \/ Fails(Rollback)
      BY <2>4 DEF RevalidateGroup, next
    <3> QED
      BY <1>i, <2>1, <2>3, <3>1, <3>2, KeepsGroup
  <2>5. CASE PrepareMember \/ MakeParent \/ RenameMember \/ CompleteGroup
    <3>1. \E phase, event, m :
            \/ Logs(event, m, To(phase)) \/ GoesTo(To(phase))
            \/ LogFails(event, m, Rollback) \/ GoesTo(Rollback) \/ Fails(Rollback)
      BY <2>5, Zenon DEF PrepareMember, StartMember, MakeParent, RenameMember, CompleteGroup
    <3> QED
      BY <1>i, <2>1, <2>2, <2>3, <3>1, KeepsGroup
  <2>6. CASE RecordMember
    <3> DEFINE m == run.pending[run.i]
               on == [Moved EXCEPT !.pc = "prepare", !.i = @ + 1]
    <3>1. Moved \in Runs /\ Moved.g = run.g
      <4>1. m \in Members /\ run.completed \in Seq(Members)
        BY <2>6, <1>a, RunType DEF RecordMember, At, Placed
      <4>2. Append(run.completed, m) \in Seq(Members)
        BY <4>1, Appended
      <4> QED
        BY <1>a, <4>2 DEF Moved, Runs
    <3>2. on.g = run.g
      BY <3>1 DEF Runs
    <3>3. Undo(Moved) \in Runs /\ Undo(Moved).g = run.g
      BY <2>1, <3>1, UndoPlaced DEF Undo, Runs, Placed
    <3> HIDE DEF m, on
    <3>4. \/ Logs("member-completed", m, on) \/ LogFails("member-completed", m, Undo(Moved))
          \/ GoesTo(Undo(Moved)) \/ Fails(Undo(Moved))
      BY <2>6 DEF RecordMember, m, on
    <3> QED
      BY <1>i, <2>1, <3>2, <3>3, <3>4, KeepsGroup
  <2>7. CASE UndoMember \/ UndoRename \/ RecordUndo
    <3>1. run.i \in 1..Len(run.completed)
      BY <2>7, <1>a DEF UndoMember, UndoRename, RecordUndo, At, Placed
    <3>2. NextUndo \in Runs /\ UndoFailed \in Runs /\ NextUndo.g = run.g /\ UndoFailed.g = run.g
      BY <1>a, <2>1, <3>1, NextUndoPlaced DEF NextUndo, UndoFailed, Runs, Placed
    <3>3. ASSUME NEW phase \in Phases
          PROVE  To(phase) \in Runs
      BY <1>a DEF To, Runs
    <3>4. "undo-rename" \in Phases /\ "undone" \in Phases
      BY DEF Phases
    <3>5. \E on \in {NextUndo, UndoFailed, To("undo-rename"), To("undone")} : \E event, m :
            Logs(event, m, on) \/ GoesTo(on) \/ LogFails(event, m, on) \/ Fails(on)
      BY <2>7, Zenon DEF UndoMember, UndoRename, RecordUndo
    <3> QED
      BY <1>i, <2>1, <2>2, <3>2, <3>3, <3>4, <3>5, KeepsGroup
  <2> QED
    BY <1>8, <2>4, <2>5, <2>6, <2>7
<1> QED
  BY <1>1, <1>2, <1>3, <1>4, <1>5, <1>6, <1>7, <1>8 DEF Execute

\* From outside a rollback only the loop over the groups and the group's own
\* end can lead to one.
LEMMA RollbackTrusted ==
  ASSUME "meddle" \notin Faults, OrderInv, Step, run'.pc \in Undoing, Trusted'
  PROVE  run'.g \notin journal'.groups
<1>a. /\ TypeInv /\ TypeOK /\ run \in Runs /\ Placed(run) /\ InTurn(run, dst, journal.groups)
      /\ run.pc \in Undoing /\ Trusted => run.g \notin journal.groups
      /\ [Next]_vars
  BY DEF OrderInv, WriteAheadInv, TypeInv, TypeOK, Fits, Next, Command
<1>b. Trusted
  BY <1>a, FaultsGrow DEF Trusted
<1>i. Idle.pc = "idle" /\ "idle" \notin Undoing /\ "group" \notin Undoing /\ "scan" \notin Undoing
  BY DEF Idle, Undoing
<1>1. CASE Interrupt
  BY <1>1 DEF Interrupt, Fault, Strike, Trusted
<1>2. CASE Crash
  BY <1>2, <1>i DEF Crash
<1>3. CASE Execute
  <2>1. run.pc \notin {"idle", "group", "scan", "recorded"} /\ run'.g = run.g
    BY <1>a, <1>3, RollbackStays DEF Step
  <2>2. run.g \notin journal.groups
    BY <1>a, <1>b, <2>1 DEF InTurn, Forward, Placed, Runs, Phases, Undoing
  <2>3. CASE ~CompleteGroup
    BY <1>a, <1>3, <2>1, <2>2, <2>3, OthersRecordNothing
  <2>4. CASE CompleteGroup
    <3>1. run.g \in GroupIds
      BY <1>a, <2>1 DEF Placed
    <3>2. LogFails("group-completed", {}, Rollback)
      BY <1>a, <2>4 DEF CompleteGroup, Logs, To, Runs, Undoing
    <3>3. ~Fault("fsync")
      BY DEF Fault, Strike, Trusted
    <3> QED
      BY <1>a, <2>1, <2>2, <3>1, <3>2, <3>3, GroupRecorded
  <2> QED
    BY <2>3, <2>4
<1> QED
  BY <1>1, <1>2, <1>3 DEF Step

LEMMA OrderInductive ==
  ASSUME "meddle" \notin Faults
  PROVE  /\ Init => OrderInv
         /\ OrderInv /\ [Next]_vars => OrderInv'
<1>1. ASSUME Init
      PROVE  OrderInv
  <2>1. WriteAheadInv
    BY <1>1, WriteAheadInductive
  <2>2. run = Idle /\ Idle.pc = "idle" /\ Idle.pc \notin Undoing
    BY <1>1 DEF Init, Idle, Undoing
  <2>3. Fits(run, dst, journal.groups)
    BY <2>2, IdleFits
  <2>4. \A h \in GroupIds : ~Reached(h, dst, journal.groups)
    <3>1. \A h \in GroupIds : InGroup(h) \subseteq Members
      BY GroupType DEF InGroup
    <3>2. journal.groups = {} /\ \A m \in Members : dst[m] # "media"
      BY <1>1 DEF Init, FilesInit
    <3> QED
      BY <3>1, <3>2 DEF Reached
  <2>5. ~journal.done
    BY <1>1 DEF Init
  <2> QED
    BY <2>1, <2>2, <2>3, <2>4, <2>5 DEF OrderInv, InOrder
<1>2. ASSUME OrderInv, [Next]_vars
      PROVE  OrderInv'
  <2>a. /\ WriteAheadInv /\ TypeInv /\ TypeOK /\ Placed(run) /\ run \in Runs
        /\ Fits(run, dst, journal.groups) /\ InOrder
        /\ (run.pc # "idle" \/ journal.file = "none" => ~journal.done)
    BY <1>2 DEF OrderInv, WriteAheadInv, TypeInv, TypeOK
  <2>w. WriteAheadInv'
    BY <1>2, <2>a, WriteAheadInductive
  <2>i. Idle.pc = "idle" /\ First.pc = "group" /\ First.g = 1 /\ First \in Runs
    BY IdlePlaced, FirstPlaced DEF Placed, First, Idle, Runs
  <2>f. ASSUME NEW G
        PROVE  Fits(First, dst, G)
    <3>1. \A h \in GroupIds : ~(h < 1)
      BY DEF GroupIds
    <3> QED
      BY <2>i, <3>1 DEF Fits, Lists, Remaining, InTurn, Forward
  <2>k. ASSUME Fits(run', dst, journal.groups), run'.pc \in {"idle", "group"},
               UNCHANGED files, journal'.groups = journal.groups,
               run'.pc # "idle" \/ journal'.file = "none" => ~journal'.done
        PROVE  OrderInv'
    <3>1. Fits(run', dst', journal'.groups)
      BY <2>k DEF files
    <3>2. InOrder'
      BY <2>a, <2>k DEF InOrder, files
    <3>3. run'.pc \notin Undoing
      BY <2>k DEF Undoing
    <3> QED
      BY <2>w, <2>k, <3>1, <3>2, <3>3 DEF OrderInv
  <2>1. CASE Start
    <3>1. Logs("run-started", {}, First) \/ LogFails("run-started", {}, Idle)
      BY <2>1 DEF Start
    <3>2. journal'.groups = journal.groups /\ journal'.done = journal.done /\ ~journal.done
      BY <2>1, <2>a, <3>1, RecordKept DEF Start
    <3>3. Fits(run', dst, journal.groups)
      BY <2>f, <3>1, IdleFits, StepFits
    <3>4. run'.pc \in {"idle", "group"}
      BY <2>i, <3>1, GivesUp DEF Logs
    <3> QED
      BY <2>1, <2>k, <3>2, <3>3, <3>4 DEF Start
  <2>2. CASE Resume
    BY <2>2, <2>f, <2>i, <2>k DEF Resume
  <2>3. CASE Step
    <3>1. Fits(run', dst', journal'.groups) /\ InOrder'
      <4>1. CASE Execute
        BY <1>2, <2>3, <4>1, ExecuteFits DEF Step
      <4>2. CASE Crash
        BY <2>a, <4>2, IdleFits DEF Crash, InOrder, files
      <4>3. CASE Interrupt
        <5>1. UNCHANGED files /\ UNCHANGED journal
          BY <4>3 DEF Interrupt
        <5>2. Fits(run', dst, journal.groups)
          <6>1. CASE run.pc \in Guarded /\ run' = Rollback
            BY <2>a, <6>1, RollbackFits DEF Guarded
          <6>2. CASE At("renamed") /\ run' = Undo(Moved)
            BY <2>a, <6>2, MovedFits
          <6>3. CASE run' = Idle
            BY <6>3, IdleFits
          <6> QED
            BY <4>3, <6>1, <6>2, <6>3 DEF Interrupt
        <5> QED
          BY <2>a, <5>1, <5>2 DEF InOrder, files
      <4> QED
        BY <2>3, <4>1, <4>2, <4>3 DEF Step
    <3>2. run'.pc # "idle" \/ journal'.file = "none" => ~journal'.done
      <4>1. CASE Crash \/ Interrupt
        BY <2>3, <2>a, <4>1 DEF Crash, Interrupt, Step, At
      <4>2. CASE Execute /\ ~Finish
        BY <2>3, <2>a, <4>2, OthersRecordNothing DEF Step, At
      <4>3. CASE Finish
        <5>1. run'.pc = "idle"
          BY <4>3, <2>i, GivesUp DEF Finish, Logs, GoesTo, IoFails, ReadFails
        <5>2. journal'.file = "none" => journal'.done = journal.done
          BY <4>3, <2>a, RecordKept DEF Finish, GoesTo, IoFails, ReadFails
        <5> QED
          BY <2>3, <2>a, <5>1, <5>2 DEF Step, At
      <4> QED
        BY <2>3, <4>1, <4>2, <4>3 DEF Step
    <3>3. run'.pc \in Undoing /\ Trusted' => run'.g \notin journal'.groups
      BY <1>2, <2>3, RollbackTrusted
    <3> QED
      BY <2>w, <3>1, <3>2, <3>3 DEF OrderInv
  <2>4. CASE Interfere
    BY <2>4 DEF Interfere, Fault, Strike
  <2>5. CASE UNCHANGED vars
    BY <1>2, <2>w, <2>5 DEF OrderInv, Fits, Lists, Remaining, ToMove, InTurn, InOrder, Reached,
       Behind, Trusted, vars, applyVars, files
  <2> QED
    BY <1>2, <2>1, <2>2, <2>3, <2>4, <2>5 DEF Next, Command
<1> QED
  BY <1>1, <1>2

-------------------------------------------------------------------------------
(* Its steps are steps of a reorganization. *)

AtDest(d) == {m \in Members : d[m] = "media"}

LEMMA AbstractGroups ==
  /\ Abstract!GroupIds = GroupIds
  /\ \A g \in GroupIds : Abstract!FilesOf(g) = InGroup(g) /\ InGroup(g) \subseteq Members
BY GroupType DEF Abstract!GroupIds, GroupIds, Abstract!FilesOf, InGroup

LEMMA BehindIsThrough ==
  ASSUME NEW g \in GroupIds, \A m \in InGroup(g) : dst[m] = "media"
  PROVE  Abstract!Through(g)
BY AbstractGroups DEF Abstract!Through

\* Trust in the record of a group is lost for ever.
LEMMA TrustIsLost ==
  ASSUME [Next]_vars
  PROVE  Abstract!MayLoseTrust
<1>1. Trusted' => Trusted
  BY FaultsGrow DEF Trusted
<1> QED
  BY <1>1 DEF Trusted, Abstract!MayLoseTrust

LEMMA RenameMoves ==
  ASSUME OrderInv, [Next]_vars, At("rename"), MoveOut(run.pending[run.i]),
         UNCHANGED journal
  PROVE  \E g \in Abstract!GroupIds : \E f \in Abstract!FilesOf(g) : Abstract!Move(g, f)
<1> DEFINE m == run.pending[run.i]
<1>a. /\ TypeInv /\ FilesTypeOK /\ Conservation
      /\ run.pc = "rename" /\ run.g \in GroupIds /\ run \in Runs /\ ~journal.done
      /\ run.i \in 1..Len(run.pending) /\ Lists(run) /\ InTurn(run, dst, journal.groups)
  BY DEF OrderInv, WriteAheadInv, TypeInv, TypeOK, At, Placed, Fits
<1>1. m \in InGroup(run.g) /\ m \in Members
  BY <1>a, AbstractGroups DEF Lists
<1>2. dst[m] # "media" /\ dst'[m] = "media" /\ \A n \in Members : n # m => dst'[n] = dst[n]
  BY <1>a, <1>1 DEF MoveOut, CanMoveOut, FilesTypeOK, Conservation, OneCopy
<1> HIDE DEF m
<1>3. AtDest(dst') = AtDest(dst) \cup {m} /\ m \notin AtDest(dst)
  BY <1>1, <1>2 DEF AtDest
<1>4. \A h \in GroupIds : h < run.g => Abstract!Through(h)
  BY <1>a, BehindIsThrough DEF InTurn, Behind
<1>5. Abstract!MayLoseTrust
  BY TrustIsLost
<1>6. PICK g \in Abstract!GroupIds : g = run.g
  BY <1>a, AbstractGroups
<1>7. PICK f \in Abstract!FilesOf(g) : f = m
  BY <1>1, <1>6, AbstractGroups
<1>8. Abstract!Move(g, f)
  BY <1>a, <1>1, <1>3, <1>4, <1>5, <1>6, <1>7, AbstractGroups DEF Abstract!Move, AtDest
<1> QED
  BY <1>8

LEMMA UndoMovesBack ==
  ASSUME OrderInv, [Next]_vars, At("undo-rename"), MoveBack(run.completed[run.i]),
         UNCHANGED journal
  PROVE  \/ \E g \in Abstract!GroupIds : \E f \in Abstract!FilesOf(g) : Abstract!Back(g, f)
         \/ AtDest(dst') = AtDest(dst)
<1> DEFINE m == run.completed[run.i]
<1>a. /\ TypeInv /\ FilesTypeOK
      /\ run.pc = "undo-rename" /\ run.g \in GroupIds /\ run \in Runs /\ ~journal.done
      /\ run.i \in 1..Len(run.completed) /\ Lists(run) /\ InTurn(run, dst, journal.groups)
      /\ Trusted => run.g \notin journal.groups
  BY DEF OrderInv, WriteAheadInv, TypeInv, TypeOK, At, Placed, Fits, Undoing
<1>1. m \in InGroup(run.g) /\ m \in Members
  BY <1>a, AbstractGroups DEF Lists
<1>2. dst'[m] # "media" /\ \A n \in Members : n # m => dst'[n] = dst[n]
  BY <1>a, <1>1 DEF MoveBack, CanMoveBack, FilesTypeOK
<1> HIDE DEF m
<1>3. AtDest(dst') = AtDest(dst) \ {m}
  BY <1>1, <1>2 DEF AtDest
<1>4. \A h \in GroupIds : h > run.g => InGroup(h) \cap AtDest(dst) = {}
  BY <1>a DEF InTurn, Reached, AtDest
<1>5. Abstract!MayLoseTrust
  BY TrustIsLost
<1>6. CASE m \in AtDest(dst)
  <2>1. PICK g \in Abstract!GroupIds : g = run.g
    BY <1>a, AbstractGroups
  <2>2. PICK f \in Abstract!FilesOf(g) : f = m
    BY <1>1, <2>1, AbstractGroups
  <2>3. Abstract!Back(g, f)
    BY <1>a, <1>1, <1>3, <1>4, <1>5, <1>6, <2>1, <2>2, AbstractGroups
       DEF Abstract!Back, AtDest, Trusted
  <2> QED
    BY <2>3
<1>7. CASE m \notin AtDest(dst)
  BY <1>3, <1>7
<1> QED
  BY <1>6, <1>7

LEMMA CompleteSettles ==
  ASSUME OrderInv, [Next]_vars, CompleteGroup
  PROVE  \/ \E g \in Abstract!GroupIds : Abstract!Settle(g)
         \/ journal'.groups = journal.groups
<1>a. /\ TypeInv /\ TypeOK /\ Fits(run, dst, journal.groups)
      /\ run.pc = "prepare" /\ run.g \in GroupIds /\ UNCHANGED files /\ ~journal.done
      /\ At("prepare") /\ run.i = Len(run.pending) + 1
      /\ (Logs("group-completed", {}, To("recorded")) \/ LogFails("group-completed", {}, Rollback))
  BY DEF OrderInv, WriteAheadInv, TypeInv, TypeOK, CompleteGroup, At, Placed
<1>1. Abstract!Through(run.g)
  BY <1>a, GroupThrough, BehindIsThrough
<1>2. journal'.groups \in {journal.groups, journal.groups \cup {run.g}}
      /\ journal'.done = journal.done
  BY <1>a, GroupRecorded, RecordKept
<1>3. Abstract!MayLoseTrust
  BY TrustIsLost
<1>4. journal'.groups = journal.groups \cup {run.g} => Abstract!Settle(run.g)
  BY <1>a, <1>1, <1>2, <1>3 DEF Abstract!Settle, files
<1> QED
  BY <1>a, <1>2, <1>4, AbstractGroups

LEMMA FinishFinishes ==
  ASSUME OrderInv, [Next]_vars, Finish
  PROVE  Abstract!Finish \/ journal'.done = journal.done
<1>a. /\ TypeOK /\ run \in Runs /\ InTurn(run, dst, journal.groups) /\ run.pc = "group"
      /\ run.g \notin GroupIds /\ UNCHANGED files
      /\ journal.groups \subseteq GroupIds
  BY DEF OrderInv, WriteAheadInv, TypeInv, TypeOK, Finish, At, Fits, Journals
<1>b. run.g \in Nat /\ run.g >= 1 /\ Len(Contract) \in Nat
  BY <1>a, RunType, ContractAssumption DEF InTurn
<1>1. \A g \in GroupIds : Behind(g, dst, journal.groups)
  BY <1>a, <1>b DEF InTurn, GroupIds
<1>2. (\A g \in Abstract!GroupIds : Abstract!Through(g)) /\ journal.groups = Abstract!GroupIds
  BY <1>a, <1>1, AbstractGroups, BehindIsThrough DEF Behind
<1>3. journal'.groups = journal.groups
  BY <1>a, RecordKept DEF Finish, GoesTo, IoFails, ReadFails
<1>4. journal'.done \in BOOLEAN /\ journal.done \in BOOLEAN
  <2>1. TypeOK'
    BY TypeInvInductive DEF OrderInv, WriteAheadInv, TypeInv
  <2> QED
    BY <1>a, <2>1 DEF TypeOK, Journals
<1>5. Abstract!MayLoseTrust
  BY TrustIsLost
<1>6. journal'.done = TRUE => Abstract!Finish
  BY <1>a, <1>2, <1>3, <1>5 DEF Abstract!Finish, files
<1>7. ~journal.done
  BY <1>a DEF OrderInv
<1> QED
  BY <1>4, <1>6, <1>7

\* A step that neither moves a file nor changes the record of the groups or of
\* the run may still lose trust.
LEMMA QuietStep ==
  ASSUME [Next]_vars, AtDest(dst') = AtDest(dst), journal'.groups = journal.groups,
         journal'.done = journal.done
  PROVE  [Abstract!ReorganizationNext]_Abstract!reorganizationVars
<1>1. CASE Trusted' = Trusted
  BY <1>1 DEF Trusted, AtDest, Abstract!reorganizationVars
<1>2. CASE Trusted' # Trusted
  <2>1. Trusted' => Trusted
    BY FaultsGrow DEF Trusted
  <2>2. Trusted' = FALSE
    BY <1>2, <2>1 DEF Trusted
  <2>3. Abstract!LoseTrust
    BY <2>2 DEF Trusted, AtDest, Abstract!LoseTrust
  <2> QED
    BY <2>3 DEF Abstract!ReorganizationNext
<1> QED
  BY <1>1, <1>2

LEMMA StepReorganizes ==
  ASSUME "meddle" \notin Faults, OrderInv, [Next]_vars
  PROVE  [Abstract!ReorganizationNext]_Abstract!reorganizationVars
<1>a. TypeOK /\ TypeInv
  BY DEF OrderInv, WriteAheadInv, TypeInv
<1>f. UNCHANGED files => AtDest(dst') = AtDest(dst)
  BY DEF files, AtDest
<1>1. CASE Start
  BY <1>1, <1>a, <1>f, QuietStep, RecordKept DEF Start
<1>2. CASE Resume
  BY <1>2, <1>f, QuietStep DEF Resume
<1>3. CASE Step
  <2>1. CASE Crash \/ Interrupt
    BY <2>1, <1>f, QuietStep DEF Crash, Interrupt
  <2>2. CASE RenameMember
    <3>1. CASE MoveOut(run.pending[run.i]) /\ GoesTo(To("renamed"))
      BY <2>2, <3>1, RenameMoves DEF RenameMember, GoesTo, Abstract!ReorganizationNext
    <3>2. CASE UNCHANGED files /\ (GoesTo(Rollback) \/ Fails(Rollback))
      BY <1>f, <3>2, QuietStep DEF GoesTo, IoFails, ReadFails
    <3> QED
      BY <2>2, <3>1, <3>2 DEF RenameMember
  <2>3. CASE UndoRename
    <3>1. CASE MoveBack(run.completed[run.i]) /\ GoesTo(To("undone"))
      <4>1. At("undo-rename") /\ UNCHANGED journal
        BY <2>3, <3>1 DEF UndoRename, GoesTo
      <4> QED
        BY <3>1, <4>1, UndoMovesBack, QuietStep DEF Abstract!ReorganizationNext
    <3>2. CASE UNCHANGED files /\ (GoesTo(UndoFailed) \/ Fails(UndoFailed))
      BY <1>f, <3>2, QuietStep DEF GoesTo, IoFails, ReadFails
    <3> QED
      BY <2>3, <3>1, <3>2 DEF UndoRename
  <2>4. CASE CompleteGroup
    <3>1. UNCHANGED files /\ journal'.done = journal.done
      BY <2>4, <1>a, RecordKept DEF CompleteGroup
    <3> QED
      BY <1>f, <2>4, <3>1, CompleteSettles, QuietStep DEF Abstract!ReorganizationNext
  <2>5. CASE Finish
    <3>1. UNCHANGED files /\ journal'.groups = journal.groups
      BY <2>5, <1>a, RecordKept DEF Finish, GoesTo, IoFails, ReadFails
    <3> QED
      BY <1>f, <2>5, <3>1, FinishFinishes, QuietStep DEF Abstract!ReorganizationNext
  <2>6. CASE Execute /\ ~RenameMember /\ ~UndoRename /\ ~CompleteGroup /\ ~Finish
    <3>1. journal'.groups = journal.groups /\ journal'.done = journal.done
      BY <1>a, <2>6, OthersRecordNothing
    <3>2. dst' = dst
      BY <2>6 DEF Execute, SkipGroup, EnterGroup, ScanMember, BeginGroup, RevalidateGroup,
         PrepareMember, MakeParent, MakeDir, RecordMember, LeaveGroup, UndoMember, RecordUndo,
         FailGroup, files
    <3> QED
      BY <3>1, <3>2, QuietStep
  <2> QED
    BY <1>3, <2>1, <2>2, <2>3, <2>4, <2>5, <2>6 DEF Step
<1>4. CASE Interfere
  BY <1>4 DEF Interfere, Fault, Strike
<1>5. CASE UNCHANGED vars
  BY <1>f, <1>5, QuietStep DEF vars, applyVars
<1> QED
  BY <1>1, <1>2, <1>3, <1>4, <1>5 DEF Next, Command

LEMMA InitReorganizes == Init => Abstract!ReorganizationInit
BY DEF Init, FilesInit, NoneYet, Abstract!ReorganizationInit

\* While nobody else changes the library, an apply of any contract, through any
\* number of failures and resumes, is a reorganization: files move group by
\* group, only the last group touched is in part at its new place, a group that
\* the journal holds as completed stays as long as its record can be trusted,
\* and the run is recorded as completed only when every group is.
THEOREM ApplyReorganizes ==
  ASSUME "meddle" \notin Faults
  PROVE  Spec => Reorganizes
<1>1. Init => OrderInv
  BY OrderInductive
<1>2. OrderInv /\ [Next]_vars => OrderInv'
  BY OrderInductive
<1>3. OrderInv /\ [Next]_vars => [Abstract!ReorganizationNext]_Abstract!reorganizationVars
  BY StepReorganizes
<1> QED
  BY <1>1, <1>2, <1>3, InitReorganizes, PTL
     DEF Spec, Reorganizes, Abstract!ReorganizationSpec

-------------------------------------------------------------------------------
(* Groups are whole when only the journal has failed. *)

\* Nothing but an append has failed.
Calm == Only({"append", "fsync", "torn"})

\* All of a group is at its destination, or none of it.
Whole(h, d) == (\A m \in InGroup(h) : d[m] = "media") \/ (\A m \in InGroup(h) : d[m] # "media")

\* The first n of the completed members are at their destinations.
Held(r, n, d) == \A k \in 1..Len(r.completed) : k <= n => d[r.completed[k]] = "media"

\* Every group but the one being moved or undone is whole.  The completed
\* members are distinct and at their destinations; a rollback has not failed,
\* and those it has still to undo are still there.  d holds what lies at the
\* destinations, e what at the directories' paths.
Keeps(r, d, e) ==
  /\ \A h \in GroupIds : r.pc \in {"idle", "group", "scan"} \/ h # r.g => Whole(h, d)
  /\ r.pc \notin {"idle", "group"} =>
       \A j, k \in 1..Len(r.completed) : r.completed[j] = r.completed[k] => j = k
  /\ r.pc = "scan" =>
       \A k \in 1..Len(r.completed) : \E j \in 1..Len(Contract[r.g]) :
         j < r.i /\ r.completed[k] = Contract[r.g][j]
  /\ r.pc \in Guarded \cup {"scan"} => Held(r, Len(r.completed), d)
  /\ r.pc = "renamed" =>
       /\ d[r.pending[r.i]] = "media"
       /\ \A k \in 1..Len(r.completed) : r.completed[k] # r.pending[r.i]
  /\ r.pc \in {"undo", "undo-rename"} => Held(r, r.i, d)
  /\ r.pc = "undone" =>
       /\ Held(r, r.i - 1, d) /\ d[r.completed[r.i]] # "media"
       /\ e[Parent[r.completed[r.i]]] = "directory"
  /\ r.pc \in Undoing => ~r.failed

NoLinks == \A d \in Dirs : dir[d] # "link"

WholeInv ==
  /\ OrderInv /\ NoLinks
  /\ Calm => RollbackInv /\ Keeps(run, dst, dir)

-------------------------------------------------------------------------------

LEMMA LoopKeeps ==
  ASSUME NEW r, NEW d, NEW e, r.pc \in {"idle", "group"}, \A h \in GroupIds : Whole(h, d)
  PROVE  Keeps(r, d, e)
BY DEF Keeps, Guarded, Undoing

LEMMA AheadKeeps ==
  ASSUME NEW r \in Runs, NEW d, NEW e, Keeps(r, d, e)
  PROVE  Keeps([r EXCEPT !.ahead = r.pc # "idle"], d, e)
<1> DEFINE q == [r EXCEPT !.ahead = r.pc # "idle"]
<1>1. /\ q.pc = r.pc /\ q.g = r.g /\ q.i = r.i /\ q.pending = r.pending
      /\ q.completed = r.completed /\ q.failed = r.failed
  BY DEF Runs
<1> HIDE DEF q
<1>2. Keeps(q, d, e)
  BY <1>1 DEF Keeps, Held
<1> QED
  BY <1>2 DEF q

\* When only the journal may fail, a step goes on as planned, or as it does
\* when its line could not be written.
LEMMA StepKeeps ==
  ASSUME Calm', NEW on \in Runs, NEW off \in Runs, NEW d, NEW e, Keeps(on, d, e), Keeps(off, d, e),
         NEW event, NEW m,
         \/ GoesTo(on) \/ Logs(event, m, on) \/ GoesTo(off) \/ LogFails(event, m, off)
  PROVE  Keeps(run', d, e)
<1>1. ~DiesWriting
  BY DEF Calm, Only, DiesWriting, Strike
<1> QED
  BY <1>1, AheadKeeps DEF GoesTo, Logs, LogFails

LEMMA NoFileFault ==
  ASSUME Calm', NEW next
  PROVE  ~Fails(next)
BY DEF Calm, Only, IoFails, ReadFails, Fault, Strike

\* A rollback begins with all that was moved before it.
LEMMA UndoKeeps ==
  ASSUME NEW r \in Runs, NEW d, NEW e,
         \A h \in GroupIds : h # r.g => Whole(h, d),
         \A j, k \in 1..Len(r.completed) : r.completed[j] = r.completed[k] => j = k,
         Held(r, Len(r.completed), d)
  PROVE  Keeps(Undo(r), d, e)
<1>1. /\ Undo(r).pc = "undo" /\ Undo(r).g = r.g /\ Undo(r).i = Len(r.completed)
      /\ Undo(r).completed = r.completed /\ Undo(r).failed = FALSE
  BY DEF Undo, Runs
<1> QED
  BY <1>1 DEF Keeps, Held, Guarded, Undoing

LEMMA RollbackKeeps ==
  ASSUME run \in Runs, NEW e, Keeps(run, dst, dir), run.pc \in Guarded \ {"renamed"}
  PROVE  Keeps(Rollback, dst, e)
<1>1. /\ \A h \in GroupIds : h # run.g => Whole(h, dst)
      /\ \A j, k \in 1..Len(run.completed) : run.completed[j] = run.completed[k] => j = k
      /\ Held(run, Len(run.completed), dst)
  BY DEF Keeps, Guarded
<1> QED
  BY <1>1, UndoKeeps DEF Rollback

LEMMA ToKeeps ==
  ASSUME run \in Runs, NEW e, Keeps(run, dst, dir), NEW phase,
         \/ run.pc \in Guarded \cup {"scan"} /\ phase \in Guarded \ {"renamed"}
         \/ run.pc = "undo" /\ phase = "undo-rename"
  PROVE  Keeps(To(phase), dst, e)
<1>1. To(phase).pc = phase
  BY DEF To, Runs
<1>2. /\ To(phase).g = run.g /\ To(phase).i = run.i /\ To(phase).pending = run.pending
      /\ To(phase).completed = run.completed /\ To(phase).failed = run.failed
  BY DEF To, Runs
<1>3. CASE run.pc \in Guarded \cup {"scan"} /\ phase \in Guarded \ {"renamed"}
  BY <1>1, <1>2, <1>3 DEF Keeps, Held, Guarded, Undoing
<1>4. CASE run.pc = "undo" /\ phase = "undo-rename"
  BY <1>1, <1>2, <1>4 DEF Keeps, Held, Guarded, Undoing
<1> QED
  BY <1>3, <1>4

\* The scan takes a member for moved only once.
LEMMA ScanKeeps ==
  ASSUME TypeInv, Lists(run), Keeps(run, dst, dir), At("scan"), run.i \in 1..Len(Contract[run.g])
  PROVE  LET m == Contract[run.g][run.i]
             moved == [run EXCEPT !.i = @ + 1, !.completed = Append(@, m)]
             toDo  == [run EXCEPT !.i = @ + 1, !.pending = Append(@, m)]
         IN  /\ moved \in Runs /\ toDo \in Runs
             /\ dst[m] = "media" => Keeps(moved, dst, dir)
             /\ Keeps(toDo, dst, dir)
<1> DEFINE m == Contract[run.g][run.i]
           moved == [run EXCEPT !.i = @ + 1, !.completed = Append(@, m)]
           toDo  == [run EXCEPT !.i = @ + 1, !.pending = Append(@, m)]
<1>a. run \in Runs /\ run.pc = "scan" /\ run.g \in GroupIds
  BY DEF TypeInv, At, Placed
<1>b. /\ run.i \in Nat /\ run.i + 1 \in Nat /\ run.pending \in Seq(Members)
      /\ run.completed \in Seq(Members) /\ Len(run.completed) \in Nat /\ m \in Members
      /\ Len(Contract[run.g]) \in Nat
  BY <1>a, RunType, GroupType
<1>c. /\ \A h \in GroupIds : Whole(h, dst)
      /\ \A j, k \in 1..Len(run.completed) : run.completed[j] = run.completed[k] => j = k
      /\ \A k \in 1..Len(run.completed) : \E j \in 1..Len(Contract[run.g]) :
           j < run.i /\ run.completed[k] = Contract[run.g][j]
      /\ Held(run, Len(run.completed), dst)
  BY <1>a DEF Keeps
<1>1. Append(run.completed, m) \in Seq(Members) /\ Append(run.pending, m) \in Seq(Members)
      /\ Len(Append(run.completed, m)) = Len(run.completed) + 1
      /\ \A k \in 1..Len(run.completed) : Append(run.completed, m)[k] = run.completed[k]
      /\ Append(run.completed, m)[Len(run.completed) + 1] = m
  BY <1>b, Appended
<1>2. moved \in Runs /\ toDo \in Runs
  BY <1>a, <1>b, <1>1 DEF Runs
<1>3. /\ moved.pc = "scan" /\ moved.g = run.g /\ moved.i = run.i + 1
      /\ moved.completed = Append(run.completed, m)
  BY <1>a DEF Runs
<1>4. toDo.pc = "scan" /\ toDo.g = run.g /\ toDo.i = run.i + 1 /\ toDo.completed = run.completed
  BY <1>a DEF Runs
<1>5. \A k \in 1..Len(run.completed) : run.completed[k] # m
  <2>1. SUFFICES ASSUME NEW k \in 1..Len(run.completed), run.completed[k] = m
                 PROVE  FALSE
    OBVIOUS
  <2>2. PICK j \in 1..Len(Contract[run.g]) : j < run.i /\ run.completed[k] = Contract[run.g][j]
    BY <1>c
  <2>3. \A l, o \in 1..Len(Contract[run.g]) :
          Contract[run.g][l] = Contract[run.g][o] => l = o
    BY <1>a, ContractAssumption
  <2>4. j = run.i
    BY <2>1, <2>2, <2>3
  <2> QED
    BY <1>b, <2>2, <2>4
<1> HIDE DEF moved, toDo
<1>6. Keeps(toDo, dst, dir)
  <2>1. \A k \in 1..Len(run.completed) : \E j \in 1..Len(Contract[run.g]) :
          j < run.i + 1 /\ run.completed[k] = Contract[run.g][j]
    <3>1. \A j \in 1..Len(Contract[run.g]) : j < run.i => j < run.i + 1
      BY <1>b
    <3> QED
      BY <1>c, <3>1
  <2> QED
    BY <1>c, <1>4, <2>1 DEF Keeps, Held, Guarded, Undoing
<1>7. ASSUME dst[m] = "media"
      PROVE  Keeps(moved, dst, dir)
  <2> DEFINE n == Len(run.completed)
             s == Append(run.completed, m)
  <2>1. n \in Nat /\ Len(s) = n + 1 /\ s[n + 1] = m /\ \A k \in 1..n : s[k] = run.completed[k]
    BY <1>b, <1>1
  <2>2. \A k \in 1..n : s[k] # m
    BY <1>5, <2>1
  <2>3. \A j, k \in 1..n : s[j] = s[k] => j = k
    BY <1>c, <2>1
  <2>4. \A k \in 1..n : dst[s[k]] = "media"
    BY <1>b, <1>c, <2>1 DEF Held
  <2>5. \A k \in 1..n : \E j \in 1..Len(Contract[run.g]) : j < run.i + 1 /\ s[k] = Contract[run.g][j]
    BY <1>b, <1>c, <2>1
  <2> HIDE DEF n, s
  <2>6. \A k \in 1..(n + 1) : k \in 1..n \/ k = n + 1
    BY <2>1
  <2>7. \A j, k \in 1..Len(s) : s[j] = s[k] => j = k
    BY <2>1, <2>2, <2>3, <2>6
  <2>8. \A k \in 1..Len(s) : dst[s[k]] = "media"
    BY <1>7, <2>1, <2>4, <2>6
  <2>9. \A k \in 1..Len(s) : \E j \in 1..Len(Contract[run.g]) :
          j < run.i + 1 /\ s[k] = Contract[run.g][j]
    <3>1. run.i < run.i + 1 /\ m = Contract[run.g][run.i]
      BY <1>b
    <3> QED
      BY <3>1, <2>1, <2>5, <2>6
  <2>10. moved.completed = s
    BY <1>3 DEF s
  <2> QED
    BY <1>c, <1>3, <2>7, <2>8, <2>9, <2>10 DEF Keeps, Held, Guarded, Undoing
<1> QED
  BY <1>2, <1>6, <1>7 DEF moved, toDo

\* The member just renamed was at its source before, so it joins completed once.
LEMMA MovedKeeps ==
  ASSUME TypeInv, Keeps(run, dst, dir), At("renamed")
  PROVE  LET on == [Moved EXCEPT !.pc = "prepare", !.i = @ + 1]
         IN  /\ on \in Runs /\ Undo(Moved) \in Runs
             /\ Keeps(on, dst, dir) /\ Keeps(Undo(Moved), dst, dir)
<1> DEFINE m == run.pending[run.i]
           n == Len(run.completed)
           s == Append(run.completed, m)
           on == [Moved EXCEPT !.pc = "prepare", !.i = @ + 1]
<1>a. run \in Runs /\ run.pc = "renamed" /\ run.g \in GroupIds /\ run.i \in 1..Len(run.pending)
  BY DEF TypeInv, At, Placed
<1>b. run.i + 1 \in Nat /\ run.completed \in Seq(Members) /\ n \in Nat /\ m \in Members
  BY <1>a, RunType
<1>c. /\ \A h \in GroupIds : h # run.g => Whole(h, dst)
      /\ \A j, k \in 1..n : run.completed[j] = run.completed[k] => j = k
      /\ Held(run, n, dst) /\ dst[m] = "media" /\ \A k \in 1..n : run.completed[k] # m
  BY <1>a DEF Keeps, Guarded
<1>1. s \in Seq(Members) /\ Len(s) = n + 1 /\ s[n + 1] = m
      /\ \A k \in 1..n : s[k] = run.completed[k]
  BY <1>b, Appended
<1>2. Moved \in Runs /\ Moved.g = run.g /\ Moved.i = run.i /\ Moved.completed = s
  BY <1>a, <1>1 DEF Moved, Runs
<1>3. on \in Runs
  BY <1>b, <1>2 DEF Runs, Phases
<1>4. on.pc = "prepare" /\ on.g = run.g /\ on.completed = s
  BY <1>2 DEF Runs
<1>5. Undo(Moved) \in Runs
  BY <1>a, <1>2, UndoPlaced DEF Placed
<1> HIDE DEF on
<1>6. \A k \in 1..n : s[k] # m /\ dst[s[k]] = "media"
  BY <1>b, <1>c, <1>1 DEF Held
<1>7. \A j, k \in 1..n : s[j] = s[k] => j = k
  BY <1>c, <1>1
<1> HIDE DEF n, s, m
<1>8. \A k \in 1..(n + 1) : k \in 1..n \/ k = n + 1
  BY <1>b
<1>9. \A j, k \in 1..Len(s) : s[j] = s[k] => j = k
  BY <1>1, <1>6, <1>7, <1>8
<1>10. \A k \in 1..Len(s) : dst[s[k]] = "media"
  BY <1>c, <1>1, <1>6, <1>8
<1>11. Keeps(Undo(Moved), dst, dir)
  BY <1>c, <1>2, <1>9, <1>10, UndoKeeps DEF Held
<1>12. Keeps(on, dst, dir)
  BY <1>c, <1>4, <1>9, <1>10 DEF Keeps, Held, Guarded, Undoing
<1> QED
  BY <1>3, <1>5, <1>11, <1>12 DEF on

LEMMA NextUndoKeeps ==
  ASSUME TypeInv, Keeps(run, dst, dir), At("undone")
  PROVE  NextUndo \in Runs /\ Keeps(NextUndo, dst, dir)
<1>a. run \in Runs /\ run.pc = "undone" /\ run.g \in GroupIds /\ run.i \in 1..Len(run.completed)
  BY DEF TypeInv, At, Placed
<1>1. NextUndo \in Runs
  BY <1>a, NextUndoPlaced DEF Placed
<1>2. /\ NextUndo.pc = "undo" /\ NextUndo.i = run.i - 1 /\ NextUndo.failed = run.failed
      /\ NextUndo.completed = run.completed /\ NextUndo.g = run.g
  BY <1>a DEF NextUndo, Runs
<1> QED
  BY <1>a, <1>1, <1>2 DEF Keeps, Held, Guarded, Undoing

LEMMA RenameKeeps ==
  ASSUME TypeInv, Conservation, Lists(run), Keeps(run, dst, dir), At("rename"), MoveOut(run.pending[run.i])
  PROVE  Keeps(To("renamed"), dst', dir')
<1> DEFINE m == run.pending[run.i]
<1>a. /\ FilesTypeOK /\ run \in Runs /\ run.pc = "rename" /\ run.g \in GroupIds
      /\ run.i \in 1..Len(run.pending)
  BY DEF TypeInv, TypeOK, At, Placed
<1>b. m \in InGroup(run.g) /\ m \in Members
      /\ \A k \in 1..Len(run.completed) : run.completed[k] \in Members
  BY <1>a, RunType DEF Lists
<1>c. /\ \A h \in GroupIds : h # run.g => Whole(h, dst)
      /\ \A j, k \in 1..Len(run.completed) : run.completed[j] = run.completed[k] => j = k
      /\ Held(run, Len(run.completed), dst)
  BY <1>a DEF Keeps, Guarded
<1>1. dst[m] # "media" /\ dst'[m] = "media" /\ \A n \in Members : n # m => dst'[n] = dst[n]
  BY <1>a, <1>b DEF MoveOut, CanMoveOut, FilesTypeOK, Conservation, OneCopy
<1>2. To("renamed").pc = "renamed" /\ To("renamed").g = run.g /\ To("renamed").i = run.i
      /\ To("renamed").pending = run.pending /\ To("renamed").completed = run.completed
  BY <1>a DEF To, Runs
<1> HIDE DEF m
<1>3. \A h \in GroupIds : h # run.g => Whole(h, dst')
  <2>1. \A h \in GroupIds : h # run.g => m \notin InGroup(h) /\ InGroup(h) \subseteq Members
    BY <1>a, <1>b, GroupsDisjoint, GroupType DEF InGroup
  <2> QED
    BY <1>c, <1>1, <2>1 DEF Whole
<1>4. Len(run.completed) \in Nat
  BY <1>a, RunType
<1>5. \A k \in 1..Len(run.completed) : run.completed[k] # m
  BY <1>c, <1>1, <1>4 DEF Held
<1>6. Held(run, Len(run.completed), dst')
  BY <1>b, <1>c, <1>1, <1>5 DEF Held
<1> QED
  BY <1>c, <1>1, <1>2, <1>3, <1>5, <1>6 DEF Keeps, Held, Guarded, Undoing, m

LEMMA UndoRenameKeeps ==
  ASSUME TypeInv, NoLinks, Lists(run), Keeps(run, dst, dir), At("undo-rename"), MoveBack(run.completed[run.i])
  PROVE  Keeps(To("undone"), dst', dir')
<1> DEFINE m == run.completed[run.i]
<1>a. /\ FilesTypeOK /\ run \in Runs /\ run.pc = "undo-rename" /\ run.g \in GroupIds
      /\ run.i \in 1..Len(run.completed)
  BY DEF TypeInv, TypeOK, At, Placed
<1>b. m \in InGroup(run.g) /\ m \in Members /\ run.i \in Nat /\ Len(run.completed) \in Nat
      /\ \A k \in 1..Len(run.completed) : run.completed[k] \in Members
  BY <1>a, RunType DEF Lists
<1>c. /\ \A h \in GroupIds : h # run.g => Whole(h, dst)
      /\ \A j, k \in 1..Len(run.completed) : run.completed[j] = run.completed[k] => j = k
      /\ Held(run, run.i, dst) /\ ~run.failed
  BY <1>a DEF Keeps, Guarded, Undoing
<1>1. dst'[m] # "media" /\ \A n \in Members : n # m => dst'[n] = dst[n]
  BY <1>a, <1>b DEF MoveBack, CanMoveBack, FilesTypeOK
<1>4. dir'[Parent[m]] = "directory"
  <2>1. dst[m] = "media"
    BY <1>a, <1>b, <1>c DEF Held
  <2> QED
    BY <1>a, <1>b, <2>1, ParentAssumption DEF FilesTypeOK, NoLinks, MoveBack
<1>2. To("undone").pc = "undone" /\ To("undone").g = run.g /\ To("undone").i = run.i
      /\ To("undone").failed = run.failed /\ To("undone").completed = run.completed
  BY <1>a DEF To, Runs
<1>5. \A k \in 1..Len(run.completed) : k <= run.i - 1 => k <= run.i /\ run.completed[k] # m
  BY <1>a, <1>b, <1>c
<1> HIDE DEF m
<1>3. \A h \in GroupIds : h # run.g => Whole(h, dst')
  <2>1. \A h \in GroupIds : h # run.g => m \notin InGroup(h) /\ InGroup(h) \subseteq Members
    BY <1>a, <1>b, GroupsDisjoint, GroupType DEF InGroup
  <2> QED
    BY <1>c, <1>1, <2>1 DEF Whole
<1>6. Held(run, run.i - 1, dst')
  BY <1>b, <1>c, <1>1, <1>5 DEF Held
<1> QED
  BY <1>c, <1>1, <1>2, <1>3, <1>4, <1>6 DEF Keeps, Held, Guarded, Undoing, m

\* While only the journal fails, every step of the executor leads to a control
\* state from which the groups can be left whole.
LEMMA ExecuteKeeps ==
  ASSUME "meddle" \notin Faults, OrderInv, RollbackInv, NoLinks, Keeps(run, dst, dir),
         Calm', ~At("idle"), Execute
  PROVE  Keeps(run', dst', dir')
<1>a. /\ TypeInv /\ FilesTypeOK /\ run \in Runs /\ Placed(run) /\ Lists(run)
      /\ Covered(run, dst) /\ Conservation /\ InTurn(run, dst, journal.groups)
  BY DEF OrderInv, RollbackInv, WriteAheadInv, TypeInv, TypeOK, Fits
<1>n. run.g \in Nat /\ run.g + 1 \in Nat /\ run.i \in Nat /\ Len(run.completed) \in Nat
  BY <1>a, RunType
<1>f. UNCHANGED files => dst' = dst /\ dir' = dir
  BY DEF files
<1>i. Idle \in Runs /\ Idle.pc = "idle"
  BY IdlePlaced DEF Placed, Idle
<1>w. run.pc \in {"group", "scan"} => \A h \in GroupIds : Whole(h, dst)
  BY DEF Keeps
<1>l. ASSUME NEW r \in Runs, r.pc \in {"idle", "group"}, run.pc \in {"group", "scan"}
      PROVE  Keeps(r, dst, dir)
  BY <1>w, <1>l, LoopKeeps
<1>b. ASSUME NEW e, run.pc \in Guarded \ {"renamed"}
      PROVE  Rollback \in Runs /\ Keeps(Rollback, dst, e)
  <2>1. run.pc \in Guarded => Rollback \in Runs
    BY <1>a, UndoPlaced DEF Rollback, Placed, Guarded
  <2> QED
    BY <1>a, <1>b, <2>1, RollbackKeeps
<1>t. ASSUME NEW phase \in Phases
      PROVE  To(phase) \in Runs
  BY <1>a DEF To, Runs
<1>1. CASE SkipGroup
  <2> DEFINE next == [run EXCEPT !.g = @ + 1]
  <2>1. run.pc = "group" /\ next \in Runs /\ next.pc = "group"
    BY <1>1, <1>a, <1>n DEF SkipGroup, At, Runs
  <2> HIDE DEF next
  <2>2. Keeps(next, dst, dir) /\ Keeps(Idle, dst, dir)
    BY <1>i, <1>l, <2>1
  <2>3. GoesTo(next) \/ GoesTo(Idle)
    BY <1>1, NoFileFault DEF SkipGroup, next
  <2> QED
    BY <1>1, <1>f, <2>2, <2>3 DEF SkipGroup, GoesTo
<1>2. CASE EnterGroup
  <2>1. Entered.pc = "scan" /\ Entered.g = run.g /\ Entered.i = 1 /\ Entered.completed = <<>>
    BY <1>a DEF Entered, Runs
  <2>2. run.pc = "group"
    BY <1>2 DEF EnterGroup, At
  <2>3. Keeps(Entered, dst, dir)
    BY <1>w, <2>1, <2>2 DEF Keeps, Held, Guarded, Undoing
  <2> QED
    BY <1>2, <1>f, <2>3 DEF EnterGroup, GoesTo
<1>3. CASE ScanMember
  <2> DEFINE m == Contract[run.g][run.i]
             moved == [run EXCEPT !.i = @ + 1, !.completed = Append(@, m)]
             toDo == [run EXCEPT !.i = @ + 1, !.pending = Append(@, m)]
  <2>1. At("scan") /\ run.pc = "scan" /\ run.i \in 1..Len(Contract[run.g]) /\ dst' = dst /\ dir' = dir
    BY <1>3, <1>f DEF ScanMember, At
  <2>2. /\ moved \in Runs /\ toDo \in Runs /\ Keeps(toDo, dst, dir)
        /\ dst[m] = "media" => Keeps(moved, dst, dir)
    BY <1>a, <2>1, ScanKeeps
  <2>3. Keeps(Idle, dst, dir)
    BY <1>i, <1>l, <2>1
  <2> HIDE DEF m, moved, toDo
  <2>4. \/ GoesTo(Idle) \/ GoesTo(toDo)
        \/ Organized(m) /\ (\/ GoesTo(moved) \/ Logs("member-completed", m, moved)
                            \/ LogFails("member-completed", m, Idle))
    BY <1>3, NoFileFault DEF ScanMember, Adoptable, m, moved, toDo
  <2>5. Organized(m) => Keeps(moved, dst, dir)
    BY <2>2 DEF Organized
  <2>6. Keeps(run', dst, dir)
    BY <1>i, <2>2, <2>3, <2>4, <2>5, StepKeeps
  <2> QED
    BY <2>1, <2>6
<1>4. CASE BeginGroup
  <2>1. run.pc = "scan"
    BY <1>4 DEF BeginGroup, At
  <2>2. Keeps(Idle, dst, dir) /\ Keeps(To("revalidate"), dst, dir) /\ To("revalidate") \in Runs
    BY <1>a, <1>i, <1>l, <1>t, <2>1, ToKeeps DEF Guarded, Phases
  <2>3. Keeps(run', dst, dir)
    BY <1>4, <1>i, <2>2, StepKeeps DEF BeginGroup
  <2> QED
    BY <1>4, <1>f, <2>3 DEF BeginGroup
<1>5. CASE Finish
  <2>1. run.pc = "group"
    BY <1>5 DEF Finish, At
  <2>2. Keeps(Idle, dst, dir)
    BY <1>i, <1>l, <2>1
  <2>3. Keeps(run', dst, dir)
    BY <1>5, <1>i, <2>2, StepKeeps, NoFileFault DEF Finish
  <2> QED
    BY <1>5, <1>f, <2>3 DEF Finish
<1>6. CASE RevalidateGroup
  <2> DEFINE next == [run EXCEPT !.pc = "prepare", !.i = 1]
  <2>1. run.pc = "revalidate"
    BY <1>6 DEF RevalidateGroup, At
  <2>2. next \in Runs
    BY <1>a DEF Runs, Phases
  <2>3. next.pc = "prepare" /\ next.g = run.g /\ next.completed = run.completed
    BY <1>a DEF Runs
  <2> HIDE DEF next
  <2>4. Keeps(next, dst, dir)
    BY <2>1, <2>3 DEF Keeps, Held, Guarded, Undoing
  <2>5. GoesTo(next) \/ GoesTo(Rollback)
    BY <1>6, NoFileFault DEF RevalidateGroup, next
  <2>6. Keeps(run', dst, dir)
    BY <1>b, <2>1, <2>4, <2>5 DEF Guarded, GoesTo
  <2> QED
    BY <1>6, <1>f, <2>6 DEF RevalidateGroup
<1>7. CASE PrepareMember
  <2>1. run.pc = "prepare"
    BY <1>7 DEF PrepareMember, At
  <2>2. /\ Keeps(To("mkdir"), dst, dir) /\ Keeps(To("rename"), dst, dir) /\ Keeps(Rollback, dst, dir)
        /\ To("mkdir") \in Runs /\ To("rename") \in Runs /\ Rollback \in Runs
    BY <1>a, <1>b, <1>t, <2>1, ToKeeps DEF Guarded, Phases
  <2>3. \E event, m :
          \/ Logs(event, m, To("mkdir")) \/ Logs(event, m, To("rename"))
          \/ LogFails(event, m, Rollback) \/ GoesTo(Rollback)
    BY <1>7, NoFileFault DEF PrepareMember, StartMember
  <2>4. Keeps(run', dst, dir)
    BY <2>2, <2>3, StepKeeps
  <2> QED
    BY <1>7, <1>f, <2>4 DEF PrepareMember
<1>8. CASE MakeParent
  <2>1. run.pc = "mkdir" /\ dst' = dst
    BY <1>8, <1>f DEF MakeParent, At, MakeDir
  <2>2. Keeps(To("prepare"), dst, dir') /\ Keeps(Rollback, dst, dir') /\ To("prepare") \in Runs
        /\ Rollback \in Runs
    BY <1>a, <1>b, <1>t, <2>1, ToKeeps DEF Guarded, Phases
  <2>3. \E event, m :
          Logs(event, m, To("prepare")) \/ LogFails(event, m, Rollback) \/ GoesTo(Rollback)
    BY <1>8, NoFileFault DEF MakeParent
  <2>4. Keeps(run', dst, dir')
    BY <2>2, <2>3, StepKeeps
  <2> QED
    BY <2>1, <2>4
<1>9. CASE RenameMember
  <2>1. run.pc = "rename" /\ At("rename")
    BY <1>9 DEF RenameMember, At
  <2>2. CASE MoveOut(run.pending[run.i]) /\ GoesTo(To("renamed"))
    BY <1>a, <2>1, <2>2, RenameKeeps DEF GoesTo
  <2>3. CASE UNCHANGED files /\ GoesTo(Rollback)
    BY <1>b, <1>f, <2>1, <2>3 DEF GoesTo, Guarded
  <2> QED
    BY <1>9, <2>2, <2>3, NoFileFault DEF RenameMember
<1>10. CASE RecordMember
  <2> DEFINE m == run.pending[run.i]
             on == [Moved EXCEPT !.pc = "prepare", !.i = @ + 1]
  <2>1. At("renamed") /\ run.pc = "renamed"
    BY <1>10 DEF RecordMember, At
  <2>2. on \in Runs /\ Undo(Moved) \in Runs /\ Keeps(on, dst, dir) /\ Keeps(Undo(Moved), dst, dir)
    BY <1>a, <2>1, MovedKeeps
  <2> HIDE DEF on
  <2>3. \/ Logs("member-completed", m, on) \/ LogFails("member-completed", m, Undo(Moved))
        \/ GoesTo(Undo(Moved))
    BY <1>10, NoFileFault DEF RecordMember, on
  <2>4. Keeps(run', dst, dir)
    BY <2>2, <2>3, StepKeeps
  <2> QED
    BY <1>10, <1>f, <2>4 DEF RecordMember
<1>11. CASE CompleteGroup
  <2>1. run.pc = "prepare"
    BY <1>11 DEF CompleteGroup, At
  <2>2. /\ Keeps(To("recorded"), dst, dir) /\ Keeps(Rollback, dst, dir)
        /\ To("recorded") \in Runs /\ Rollback \in Runs
    BY <1>a, <1>b, <1>t, <2>1, ToKeeps DEF Guarded, Phases
  <2>3. Keeps(run', dst, dir)
    BY <1>11, <2>2, StepKeeps DEF CompleteGroup
  <2> QED
    BY <1>11, <1>f, <2>3 DEF CompleteGroup
<1>12. CASE UndoMember
  <2> DEFINE m == run.completed[run.i]
  <2>1. run.pc = "undo" /\ run.g \in GroupIds /\ run.i \in 1..Len(run.completed)
    BY <1>12, <1>a DEF UndoMember, At, Placed
  <2>2. m \in Members /\ dst[m] = "media"
    BY <1>a, <1>n, <2>1, RunType DEF Keeps, Held
  <2>3. SafeParent(m) /\ src[m] = "absent"
    BY <1>a, <2>2, ParentAssumption DEF SafeParent, FilesTypeOK, NoLinks, Conservation, OneCopy
  <2>4. Keeps(To("undo-rename"), dst, dir) /\ To("undo-rename") \in Runs
    BY <1>a, <1>t, <2>1, ToKeeps DEF Phases
  <2>5. \/ Logs("member-rollback-started", m, To("undo-rename"))
        \/ LogFails("member-rollback-started", m, To("undo-rename"))
    BY <1>12, <2>2, <2>3, NoFileFault DEF UndoMember
  <2>6. Keeps(run', dst, dir)
    BY <2>4, <2>5, StepKeeps
  <2> QED
    BY <1>12, <1>f, <2>6 DEF UndoMember
<1>13. CASE UndoRename
  <2> DEFINE m == run.completed[run.i]
  <2>1. run.pc = "undo-rename" /\ At("undo-rename") /\ run.i \in 1..Len(run.completed)
    BY <1>13, <1>a DEF UndoRename, At, Placed
  <2>2. m \in Members /\ dst[m] = "media"
    BY <1>a, <1>n, <2>1, RunType DEF Keeps, Held
  <2>3. CanMoveBack(m)
    BY <1>a, <2>2 DEF CanMoveBack, Conservation, OneCopy
  <2>4. MoveBack(m) /\ GoesTo(To("undone"))
    BY <1>13, <2>3, NoFileFault DEF UndoRename
  <2> QED
    BY <1>a, <2>1, <2>4, UndoRenameKeeps DEF GoesTo
<1>14. CASE RecordUndo
  <2> DEFINE m == run.completed[run.i]
  <2>1. run.pc = "undone" /\ At("undone") /\ run.i \in 1..Len(run.completed)
    BY <1>14, <1>a DEF RecordUndo, At, Placed
  <2>2. m \in Members /\ dst[m] # "media" /\ SafeParent(m)
    BY <1>a, <2>1, RunType DEF Keeps, SafeParent
  <2>3. Restored(m)
    BY <1>a, <2>2 DEF Restored, Conservation, OneCopy
  <2>4. NextUndo \in Runs /\ Keeps(NextUndo, dst, dir)
    BY <1>a, <2>1, NextUndoKeeps
  <2>5. Keeps(run', dst, dir)
    BY <1>14, <2>3, <2>4, StepKeeps, NoFileFault DEF RecordUndo
  <2> QED
    BY <1>14, <1>f, <2>5 DEF RecordUndo
<1>15. CASE FailGroup
  <2>1. run.pc = "undo" /\ run.i = 0 /\ run.g \in GroupIds /\ ~run.failed
    BY <1>15, <1>a DEF FailGroup, At, Keeps, Undoing, Placed
  <2>2. \A m \in InGroup(run.g) : dst[m] # "media"
    BY <1>a, <1>n, <2>1 DEF Covered, Listed, Undoing
  <2>3. \A h \in GroupIds : Whole(h, dst)
    BY <2>1, <2>2 DEF Keeps, Whole
  <2>4. Keeps(Idle, dst, dir)
    BY <1>i, <2>3, LoopKeeps
  <2>5. Keeps(run', dst, dir)
    BY <1>15, <1>i, <2>4, StepKeeps DEF FailGroup
  <2> QED
    BY <1>15, <1>f, <2>5 DEF FailGroup
<1>16. CASE LeaveGroup
  <2> DEFINE on == [run EXCEPT !.pc = "group", !.g = @ + 1]
  <2>1. run.pc = "recorded" /\ on \in Runs /\ on.pc = "group"
    BY <1>16, <1>a, <1>n DEF LeaveGroup, At, Runs, Phases
  <2> HIDE DEF on
  <2>2. \A h \in GroupIds : Whole(h, dst)
    BY <1>a, <2>1 DEF InTurn, Behind, Keeps, Whole
  <2>3. Keeps(on, dst, dir)
    BY <2>1, <2>2, LoopKeeps
  <2>4. GoesTo(on)
    BY <1>16 DEF LeaveGroup, on
  <2> QED
    BY <1>16, <1>f, <2>3, <2>4 DEF LeaveGroup, GoesTo
<1> QED
  BY <1>1, <1>2, <1>3, <1>4, <1>5, <1>6, <1>7, <1>8, <1>9, <1>10, <1>11,
     <1>12, <1>13, <1>14, <1>15, <1>16 DEF Execute

\* Directories turn into links only when somebody interferes.
LEMMA LinksStayAway ==
  ASSUME "meddle" \notin Faults, TypeInv, NoLinks, [Next]_vars
  PROVE  NoLinks'
<1>1. FilesTypeOK
  BY DEF TypeInv, TypeOK
<1>2. CASE MakeParent
  BY <1>1, <1>2 DEF MakeParent, MakeDir, NoLinks, FilesTypeOK, files
<1>3. CASE Execute /\ ~MakeParent
  <2>1. UNCHANGED dir
    BY <1>3, Zenon DEF Execute, SkipGroup, EnterGroup, ScanMember, BeginGroup, Finish,
       RevalidateGroup, PrepareMember, RenameMember, MoveOut, RecordMember, CompleteGroup,
       LeaveGroup, UndoMember, UndoRename, MoveBack, RecordUndo, FailGroup, files
  <2> QED
    BY <2>1 DEF NoLinks
<1>4. CASE Start \/ Resume \/ Crash \/ Interrupt
  BY <1>4 DEF Start, Resume, Crash, Interrupt, files, NoLinks
<1>5. CASE Interfere
  BY <1>5 DEF Interfere, Fault, Strike
<1>6. CASE UNCHANGED vars
  BY <1>6 DEF vars, files, NoLinks
<1> QED
  BY <1>2, <1>3, <1>4, <1>5, <1>6 DEF Next, Command, Step

LEMMA WholeInductive ==
  ASSUME "meddle" \notin Faults
  PROVE  /\ Init => WholeInv
         /\ WholeInv /\ [Next]_vars => WholeInv'
<1>i. Idle.pc = "idle" /\ First.pc = "group" /\ Idle \in Runs /\ First \in Runs
  BY IdlePlaced, FirstPlaced DEF Placed, First, Idle, Runs
<1>1. ASSUME Init
      PROVE  WholeInv
  <2>1. NoLinks
    BY <1>1 DEF Init, FilesInit, NoLinks
  <2>2. \A h \in GroupIds : Whole(h, dst)
    <3>1. \A h \in GroupIds : InGroup(h) \subseteq Members
      BY GroupType DEF InGroup
    <3>2. \A m \in Members : dst[m] # "media"
      BY <1>1 DEF Init, FilesInit
    <3> QED
      BY <3>1, <3>2 DEF Whole
  <2>3. run.pc = "idle"
    BY <1>1, <1>i DEF Init
  <2> QED
    BY <1>1, <2>1, <2>2, <2>3, OrderInductive, RollbackInductive, LoopKeeps DEF WholeInv
<1>2. ASSUME WholeInv, [Next]_vars
      PROVE  WholeInv'
  <2>1. OrderInv' /\ NoLinks'
    BY <1>2, OrderInductive, LinksStayAway DEF WholeInv, OrderInv, WriteAheadInv
  <2>2. ASSUME Calm'
        PROVE  RollbackInv' /\ Keeps(run', dst', dir')
    <3>1. Calm /\ Unhidden'
      BY <1>2, <2>2, FaultsGrow DEF Calm, Only, Unhidden
    <3>2. /\ OrderInv /\ NoLinks /\ RollbackInv /\ Keeps(run, dst, dir)
      BY <1>2, <3>1 DEF WholeInv
    <3>3. RollbackInv'
      BY <1>2, <3>1, <3>2, RollbackInductive
    <3>4. Keeps(run', dst', dir')
      <4>1. CASE Start
        <5>1. run.pc = "idle" /\ dst' = dst /\ dir' = dir
          BY <4>1 DEF Start, At, files
        <5>2. Keeps(First, dst, dir) /\ Keeps(Idle, dst, dir)
          BY <1>i, <3>2, <5>1, LoopKeeps DEF Keeps
        <5>3. Keeps(run', dst, dir)
          BY <1>i, <2>2, <4>1, <5>2, StepKeeps DEF Start
        <5> QED
          BY <5>1, <5>3
      <4>2. CASE Resume
        <5>1. run.pc = "idle" /\ dst' = dst /\ dir' = dir /\ run' = First
          BY <4>2 DEF Resume, At, files
        <5> QED
          BY <1>i, <3>2, <5>1, LoopKeeps DEF Keeps
      <4>3. CASE Step
        <5>1. ~Crash /\ ~Interrupt
          BY <2>2 DEF Crash, Interrupt, Calm, Only, Fault, Strike
        <5>2. Execute /\ ~At("idle")
          BY <4>3, <5>1 DEF Step
        <5> QED
          BY <2>2, <3>2, <5>2, ExecuteKeeps
      <4>4. CASE Interfere
        BY <4>4 DEF Interfere, Fault, Strike
      <4>5. CASE UNCHANGED vars
        BY <3>2, <4>5 DEF vars, applyVars, files
      <4> QED
        BY <1>2, <4>1, <4>2, <4>3, <4>4, <4>5 DEF Next, Command
    <3> QED
      BY <3>3, <3>4
  <2> QED
    BY <2>1, <2>2 DEF WholeInv
<1> QED
  BY <1>1, <1>2

\* While only the journal fails, and however often it does, every run of any
\* contract ends with each group at its sources or at its destinations: a move
\* whose record fails is undone, and the undoing needs no journal.
THEOREM GroupsAreLeftWhole ==
  ASSUME "meddle" \notin Faults
  PROVE  Spec => []GroupsWholeWhenIdle
<1>1. WholeInv => GroupsWholeWhenIdle
  <2>1. SUFFICES ASSUME WholeInv, At("idle"), Calm, NEW g \in GroupIds
                 PROVE  AtSource(g) \/ AtDestination(g)
    BY DEF GroupsWholeWhenIdle, Calm
  <2>2. Whole(g, dst) /\ Conservation
    BY <2>1 DEF WholeInv, Keeps, At, OrderInv, WriteAheadInv
  <2>3. InGroup(g) \subseteq Members
    BY GroupType DEF InGroup
  <2> QED
    BY <2>2, <2>3 DEF Whole, Conservation, OneCopy, AtSource, AtDestination
<1> QED
  BY <1>1, WholeInductive, PTL DEF Spec
===============================================================================
