--------------------------- MODULE QuarantineProofs ---------------------------
(***************************************************************************)
(* Proofs about QuarantineExecution and QuarantineRestore, for every plan, *)
(* every kind of fault and every number of faults: first the quarantine on *)
(* its own, then its whole life up to the last step of a restore.          *)
(***************************************************************************)
EXTENDS QuarantineRestore, TLAPS

\* Where the loops may be: r.g names a group, r.i a member of the list that the
\* phase walks.
Placed(r) ==
  /\ r \in Runs
  /\ r.pc \notin {"idle", "group"} => r.g \in GroupIds
  /\ r.pc \in {"scan", "prepare"} => r.i >= 1
  /\ r.pc \in {"mkdir", "rename", "renamed"} => r.i \in 1..Len(r.pending)
  /\ r.pc = "undo" => r.i \in 0..Len(r.moved)
  /\ r.pc \in {"undo-rename", "undone"} => r.i \in 1..Len(r.moved)

QuarantineTypeInv == QuarantineTypeOK /\ Placed(run)

LoserEvents == {"member-started", "member-completed", "member-rollback-completed"}

-------------------------------------------------------------------------------
(* The files. *)

\* What this command, or somebody, does to one file.
OneFile(m) ==
  \/ MakeDir(Parent[m]) \/ MoveOut(m) \/ MoveBack(m)
  \/ src[m] = "media" /\ src' = [src EXCEPT ![m] = "absent"] /\ UNCHANGED <<dst, dir>>
  \/ dst[m] = "media" /\ dst' = [dst EXCEPT ![m] = "absent"] /\ UNCHANGED <<src, dir>>

\* Each leaves the files well typed, and no file in a directory that does not
\* exist.
LEMMA FilesType ==
  ASSUME FilesTypeOK, (\E m \in Members : OneFile(m)) \/ UNCHANGED files
  PROVE  FilesTypeOK'
<1>0. Parent \in [Members -> Dirs]
  BY ParentAssumption
<1>1. CASE UNCHANGED files
  BY <1>1 DEF FilesTypeOK, files
<1>2. CASE \E m \in Members : OneFile(m)
  <2>1. PICK m \in Members : OneFile(m)
    BY <1>2
  <2>2. CASE MakeDir(Parent[m])
    BY <1>0, <2>2 DEF FilesTypeOK, MakeDir, Contents
  <2>3. CASE MoveOut(m)
    BY <1>0, <2>3 DEF FilesTypeOK, MoveOut, CanMoveOut, Contents
  <2>4. CASE MoveBack(m)
    BY <1>0, <2>4 DEF FilesTypeOK, MoveBack, CanMoveBack, Contents
  <2>5. CASE src' = [src EXCEPT ![m] = "absent"] /\ UNCHANGED <<dst, dir>>
    BY <2>5 DEF FilesTypeOK, Contents
  <2>6. CASE dst' = [dst EXCEPT ![m] = "absent"] /\ UNCHANGED <<src, dir>>
    BY <2>6 DEF FilesTypeOK, Contents
  <2> QED
    BY <2>1, <2>2, <2>3, <2>4, <2>5, <2>6 DEF OneFile
<1> QED
  BY <1>1, <1>2

-------------------------------------------------------------------------------
(* The control states an action may go to. *)

\* A group is a sequence of losers.
LEMMA GroupType ==
  ASSUME NEW g \in GroupIds
  PROVE  /\ g \in Nat
         /\ Plan[g] \in Seq(Members) /\ Len(Plan[g]) \in Nat
         /\ \A k \in 1..Len(Plan[g]) : Plan[g][k] \in Members
<1>1. Plan \in Seq(Seq(Members)) /\ Len(Plan) \in Nat
  BY PlanAssumption
<1>2. Plan[g] \in Seq(Members)
  BY <1>1 DEF GroupIds
<1> QED
  BY <1>1, <1>2 DEF GroupIds

\* What the types of the lists of a control state say.
LEMMA RunType ==
  ASSUME NEW r \in Runs
  PROVE  /\ r.g \in Nat /\ r.i \in Nat
         /\ r.pending \in Seq(Members) /\ Len(r.pending) \in Nat
         /\ r.moved \in Seq(Members) /\ Len(r.moved) \in Nat
         /\ \A k \in 1..Len(r.pending) : r.pending[k] \in Members
         /\ \A k \in 1..Len(r.moved) : r.moved[k] \in Members
<1>1. r.pending \in Seq(Members) /\ r.moved \in Seq(Members)
      /\ r.g \in Nat /\ r.i \in Nat
  BY DEF Runs
<1> QED
  BY <1>1

LEMMA IdlePlaced == Placed(Idle) /\ Idle.pc = "idle"
BY DEF Placed, Idle, Runs, Phases

LEMMA FirstPlaced == Placed(First) /\ First.pc = "group"
<1>1. Idle \in Runs /\ "group" \in Phases /\ 1 \in Nat
  BY IdlePlaced DEF Placed, Phases
<1>2. First \in Runs /\ First.pc = "group"
  BY <1>1 DEF First, Runs
<1> QED
  BY <1>2 DEF Placed

\* The handler starts a rollback at the end of moved.
LEMMA UndoPlaced ==
  ASSUME NEW r \in Runs, r.g \in GroupIds
  PROVE  Placed(Undo(r)) /\ Undo(r).pc = "undo"
<1>1. Len(r.moved) \in Nat
  BY RunType
<1>2. Undo(r) \in Runs
  BY <1>1 DEF Undo, Runs, Phases
<1>3. Undo(r).pc = "undo" /\ Undo(r).g = r.g /\ Undo(r).i = Len(r.moved)
      /\ Undo(r).moved = r.moved
  BY DEF Undo, Runs
<1> QED
  BY <1>1, <1>2, <1>3 DEF Placed

\* The move just made is remembered.
LEMMA MovedPlaced ==
  ASSUME Placed(run), run.pc = "renamed"
  PROVE  /\ Moved \in Runs /\ Moved.g = run.g /\ Moved.i = run.i /\ Moved.pending = run.pending
         /\ Moved.moved = Append(run.moved, run.pending[run.i]) /\ Moved.ahead = run.ahead
         /\ Placed(Undo(Moved))
<1>1. run \in Runs /\ run.g \in GroupIds /\ run.i \in 1..Len(run.pending)
  BY DEF Placed
<1>2. Append(run.moved, run.pending[run.i]) \in Seq(Members)
  BY <1>1, RunType
<1>3. /\ Moved \in Runs /\ Moved.g = run.g /\ Moved.i = run.i /\ Moved.pending = run.pending
      /\ Moved.moved = Append(run.moved, run.pending[run.i]) /\ Moved.ahead = run.ahead
  BY <1>1, <1>2 DEF Moved, Runs
<1> QED
  BY <1>1, <1>3, UndoPlaced

\* The loops stay where they are.
LEMMA ToPlaced ==
  ASSUME run \in Runs, run.g \in GroupIds
  PROVE  /\ Placed(To("recorded")) /\ Placed(To("validate"))
         /\ run.i \in 1..Len(run.pending) =>
               \A phase \in {"prepare", "mkdir", "rename", "renamed"} : Placed(To(phase))
         /\ run.i \in 1..Len(run.moved) =>
               \A phase \in {"undo-rename", "undone"} : Placed(To(phase))
<1>1. ASSUME NEW phase \in Phases
      PROVE  /\ To(phase) \in Runs
             /\ To(phase).pc = phase /\ To(phase).g = run.g /\ To(phase).i = run.i
             /\ To(phase).pending = run.pending /\ To(phase).moved = run.moved
  BY DEF To, Runs
<1>2. Len(run.pending) \in Nat /\ Len(run.moved) \in Nat
  BY RunType
<1>3. \A phase \in {"prepare", "mkdir", "rename", "renamed", "recorded", "validate",
              "undo-rename", "undone"} : phase \in Phases
  BY DEF Phases
<1> QED
  BY <1>1, <1>2, <1>3 DEF Placed

\* The rollback goes on with the loser before.
LEMMA NextUndoPlaced ==
  ASSUME run \in Runs, run.g \in GroupIds, run.i \in 1..Len(run.moved)
  PROVE  Placed(NextUndo)
<1>1. run.i - 1 \in Nat /\ run.i - 1 \in 0..Len(run.moved)
  BY RunType
<1>2. NextUndo \in Runs
  BY <1>1 DEF NextUndo, Runs, Phases
<1>3. /\ NextUndo.pc = "undo" /\ NextUndo.i = run.i - 1
      /\ NextUndo.moved = run.moved /\ NextUndo.g = run.g
  BY DEF NextUndo, Runs
<1> QED
  BY <1>1, <1>2, <1>3 DEF Placed

\* A line the process does not know of moves nothing in its control state.
LEMMA AheadPlaced ==
  ASSUME NEW r, Placed(r)
  PROVE  Placed([r EXCEPT !.ahead = r.pc # "idle"])
BY DEF Placed, Runs

-------------------------------------------------------------------------------
(* The journal. *)

\* Whatever is appended, to whichever journal, it stays well typed.
LEMMA WrittenType ==
  ASSUME NEW state \in Journals, NEW process, NEW event, NEW m,
         event \in LoserEvents => m \in Members,
         event = "group-completed" => process.g \in GroupIds
  PROVE  Written(state, process, event, m) \in Journals
<1>1. Replay(state, event, process.g, m) \in Journals
  BY DEF Replay, Undone, Journals, LoserEvents
<1> QED
  BY <1>1 DEF Written, Journals

\* A fault keeps the record of the faults well typed.
LEMMA FaultType ==
  ASSUME faults \in FaultRecords, NEW kinds, Strike(kinds)
  PROVE  faults' \in FaultRecords
BY FaultAssumption DEF Strike, FaultRecords

\* append() returns or raises: what follows is well typed.
LEMMA LogsType ==
  ASSUME QuarantineTypeOK, NEW event, NEW m, NEW next, NEW otherwise,
         Placed(next), Placed(otherwise),
         event \in LoserEvents => m \in Members,
         event = "group-completed" => run.g \in GroupIds,
         Logs(event, m, next) \/ LogFails(event, m, otherwise)
  PROVE  journal' \in Journals /\ faults' \in FaultRecords /\ Placed(run')
<1>1. Written(journal, run, event, m) \in Journals
  BY WrittenType DEF QuarantineTypeOK
<1>2. [journal EXCEPT !.file = "unreadable"] \in Journals
  BY DEF QuarantineTypeOK, Journals
<1>3. Placed([otherwise EXCEPT !.ahead = otherwise.pc # "idle"])
  BY AheadPlaced
<1>4. CASE Logs(event, m, next)
  BY <1>1, <1>4 DEF QuarantineTypeOK, Logs, NoFault
<1>5. CASE LogFails(event, m, otherwise)
  <2>1. faults' \in FaultRecords
    BY <1>5, FaultType DEF QuarantineTypeOK, LogFails, Fault, DiesWriting
  <2> QED
    BY <1>1, <1>2, <1>3, <1>5, <2>1, IdlePlaced DEF QuarantineTypeOK, LogFails
<1> QED
  BY <1>4, <1>5

LEMMA LogsAmidType ==
  ASSUME QuarantineTypeOK, NEW kind, NEW event, NEW m, NEW next, Placed(next),
         event \in LoserEvents => m \in Members,
         event = "group-completed" => run.g \in GroupIds,
         LogsAmid(kind, event, m, next)
  PROVE  journal' \in Journals /\ faults' \in FaultRecords /\ Placed(run')
<1>1. Written(journal, run, event, m) \in Journals
  BY WrittenType DEF QuarantineTypeOK
<1>2. faults' \in FaultRecords
  BY FaultType DEF QuarantineTypeOK, LogsAmid, Fault
<1> QED
  BY <1>1, <1>2 DEF LogsAmid

\* A step that appends nothing.
LEMMA GoesToType ==
  ASSUME QuarantineTypeOK, NEW next, Placed(next), NEW kind,
         GoesTo(next) \/ IoFails(kind, next)
  PROVE  journal' \in Journals /\ faults' \in FaultRecords /\ Placed(run')
BY FaultType DEF QuarantineTypeOK, GoesTo, IoFails, Fault, NoFault

-------------------------------------------------------------------------------
(* Type correctness. *)

\* Each step of a running executor keeps the run and the journal well typed and
\* its loops inside their lists.
LEMMA QuarantineStepType ==
  ASSUME QuarantineTypeInv, QuarantineStep
  PROVE  journal' \in Journals /\ faults' \in FaultRecords /\ Placed(run')
<1>a. run \in Runs /\ journal \in Journals /\ faults \in FaultRecords
      /\ QuarantineTypeOK /\ Placed(run)
  BY DEF QuarantineTypeInv, QuarantineTypeOK
<1>n. run.g \in Nat /\ run.i \in Nat /\ Len(run.pending) \in Nat /\ Len(run.moved) \in Nat
  BY <1>a, RunType
<1>b. run.g \in GroupIds => Placed(Rollback)
  BY <1>a, UndoPlaced DEF Rollback
<1>1. CASE SkipGroup
  <2> DEFINE next == [run EXCEPT !.g = @ + 1]
  <2>1. next \in Runs
    BY <1>a, <1>n DEF Runs
  <2>2. next.pc = "group"
    BY <1>1, <1>a DEF SkipGroup, At, Runs
  <2>3. Placed(next)
    BY <2>1, <2>2 DEF Placed
  <2> QED
    BY <1>1, <1>a, <2>3, IdlePlaced, GoesToType DEF SkipGroup
<1>2. CASE EnterGroup
  <2>1. run.g \in GroupIds
    BY <1>2 DEF EnterGroup
  <2>2. Entered \in Runs
    <3>1. <<>> \in Seq(Members) /\ "scan" \in Phases /\ 1 \in Nat
      BY DEF Phases
    <3> QED
      BY <1>a, <3>1 DEF Entered, Runs
  <2>3. Entered.pc = "scan" /\ Entered.g = run.g /\ Entered.i = 1
    BY <1>a DEF Entered, Runs
  <2>4. Placed(Entered)
    BY <2>1, <2>2, <2>3 DEF Placed
  <2> QED
    BY <1>2, <1>a, <2>4, IdlePlaced, GoesToType DEF EnterGroup
<1>3. CASE ScanLoser
  <2> DEFINE m == Plan[run.g][run.i]
             done == [run EXCEPT !.i = @ + 1]
             toDo == [run EXCEPT !.i = @ + 1, !.pending = Append(@, m)]
  <2>1. m \in Members /\ run.pc = "scan" /\ run.g \in GroupIds /\ run.i + 1 \in Nat /\ run.i + 1 >= 1
    BY <1>3, <1>a, <1>n, GroupType DEF ScanLoser, At, Placed
  <2>2. Append(run.pending, m) \in Seq(Members)
    BY <1>a, <2>1, RunType
  <2>3. done \in Runs /\ toDo \in Runs
    BY <1>a, <2>1, <2>2 DEF Runs
  <2>4. /\ done.pc = "scan" /\ done.g = run.g /\ done.i >= 1
        /\ toDo.pc = "scan" /\ toDo.g = run.g /\ toDo.i >= 1
    BY <1>a, <2>1 DEF Runs
  <2>5. Placed(done) /\ Placed(toDo)
    BY <2>1, <2>3, <2>4 DEF Placed
  <2> HIDE DEF m, done, toDo
  <2>6. \/ GoesTo(done) \/ GoesTo(toDo) \/ GoesTo(Idle)
        \/ IoFails("look", done) \/ IoFails("read", Idle)
        \/ Logs("member-completed", m, done) \/ LogFails("member-completed", m, Idle)
        \/ LogsAmid("look", "member-completed", m, done)
    BY <1>3 DEF ScanLoser, m, done, toDo
  <2>7. CASE LogsAmid("look", "member-completed", m, done)
    BY <1>a, <2>1, <2>5, <2>7, LogsAmidType
  <2> QED
    BY <1>a, <2>1, <2>5, <2>6, <2>7, IdlePlaced, GoesToType, LogsType
<1>4. CASE BeginGroup
  <2>1. Placed(To("validate"))
    BY <1>4, <1>a, ToPlaced DEF BeginGroup, At, Placed
  <2> QED
    BY <1>4, <1>a, <2>1, IdlePlaced, LogsType DEF BeginGroup, LoserEvents
<1>5. CASE FinishQuarantine
  BY <1>5, <1>a, IdlePlaced, LogsType, GoesToType DEF FinishQuarantine, LoserEvents
<1>6. CASE ValidateGroup
  <2> DEFINE next == [run EXCEPT !.pc = "prepare", !.i = 1]
  <2>1. run.g \in GroupIds
    BY <1>6, <1>a DEF ValidateGroup, At, Placed
  <2>2. next \in Runs
    BY <1>a DEF Runs, Phases
  <2>3. next.pc = "prepare" /\ next.i = 1 /\ next.g = run.g
    BY <1>a DEF Runs
  <2>4. Placed(next)
    BY <2>1, <2>2, <2>3 DEF Placed
  <2> QED
    BY <1>6, <1>a, <1>b, <2>1, <2>4, GoesToType DEF ValidateGroup
<1>7. CASE PrepareLoser
  <2>1. run.g \in GroupIds /\ run.pc = "prepare" /\ run.i \in 1..Len(run.pending)
    BY <1>7, <1>a DEF PrepareLoser, At, Placed
  <2>2. run.pending[run.i] \in Members
    BY <1>a, <2>1, RunType
  <2>3. Placed(To("mkdir")) /\ Placed(To("rename")) /\ Placed(Rollback)
    BY <1>a, <1>b, <2>1, ToPlaced
  <2>4. \E m \in {run.pending[run.i]}, on \in {To("mkdir"), To("rename"), Rollback},
           event \in {"directory-create-started", "member-started"} :
          Logs(event, m, on) \/ LogFails(event, m, Rollback) \/ GoesTo(Rollback)
            \/ LogsAmid("read", event, m, Rollback)
    BY <1>7, Zenon DEF PrepareLoser, Announce
  <2>5. PICK m \in {run.pending[run.i]}, on \in {To("mkdir"), To("rename"), Rollback},
             event \in {"directory-create-started", "member-started"} :
          Logs(event, m, on) \/ LogFails(event, m, Rollback) \/ GoesTo(Rollback)
            \/ LogsAmid("read", event, m, Rollback)
    BY <2>4
  <2>6. Placed(on) /\ m \in Members /\ event # "group-completed"
    BY <2>2, <2>3, <2>5
  <2>7. CASE LogsAmid("read", event, m, Rollback)
    BY <1>a, <2>3, <2>6, <2>7, LogsAmidType
  <2> QED
    BY <1>a, <2>3, <2>5, <2>6, <2>7, LogsType, GoesToType
<1>8. CASE MakeQuarantineParent
  <2>1. run.g \in GroupIds /\ run.pc = "mkdir" /\ run.i \in 1..Len(run.pending)
    BY <1>8, <1>a DEF MakeQuarantineParent, At, Placed
  <2>2. Placed(To("prepare"))
    BY <1>a, <2>1, ToPlaced
  <2>3. \/ GoesTo(Rollback) \/ IoFails("io", Rollback)
        \/ \E m \in {run.pending[run.i]} : \/ Logs("directory-created", m, To("prepare"))
                                         \/ LogFails("directory-created", m, Rollback)
    BY <1>8 DEF MakeQuarantineParent
  <2> QED
    BY <1>a, <1>b, <2>1, <2>2, <2>3, LogsType, GoesToType DEF LoserEvents
<1>9. CASE RenameLoser
  <2>1. run.g \in GroupIds /\ run.pc = "rename" /\ run.i \in 1..Len(run.pending)
    BY <1>9, <1>a DEF RenameLoser, At, Placed
  <2>2. Placed(To("renamed"))
    BY <1>a, <2>1, ToPlaced
  <2> QED
    BY <1>9, <1>a, <1>b, <2>1, <2>2, GoesToType DEF RenameLoser
<1>10. CASE RecordLoser
  <2> DEFINE next == [Moved EXCEPT !.pc = "prepare", !.i = @ + 1]
  <2>1. run.g \in GroupIds /\ run.pc = "renamed" /\ run.i \in 1..Len(run.pending)
    BY <1>10, <1>a DEF RecordLoser, At, Placed
  <2>2. run.pending[run.i] \in Members
    BY <1>a, <2>1, RunType
  <2>3. Moved \in Runs /\ Moved.g = run.g /\ Moved.i = run.i /\ Placed(Undo(Moved))
    BY <1>a, <2>1, MovedPlaced
  <2>4. next \in Runs
    <3>1. Moved.i + 1 \in Nat /\ "prepare" \in Phases
      BY <1>n, <2>3 DEF Phases
    <3> QED
      BY <3>1, <2>3 DEF Runs
  <2>5. next.pc = "prepare" /\ next.g = run.g /\ next.i >= 1
    BY <1>n, <2>3 DEF Runs
  <2>6. Placed(next)
    BY <2>1, <2>4, <2>5 DEF Placed
  <2> HIDE DEF next
  <2>7. \/ GoesTo(Rollback) \/ IoFails("read", Rollback)
        \/ LET m == run.pending[run.i]
           IN Logs("member-completed", m, next) \/ LogFails("member-completed", m, Undo(Moved))
    BY <1>10 DEF RecordLoser, next
  <2> QED
    BY <1>a, <1>b, <2>1, <2>2, <2>3, <2>6, <2>7, LogsType, GoesToType DEF LoserEvents
<1>11. CASE CompleteGroup
  <2>1. run.g \in GroupIds
    BY <1>11, <1>a DEF CompleteGroup, At, Placed
  <2>2. Placed(To("recorded"))
    BY <1>a, <2>1, ToPlaced
  <2>3. Logs("group-completed", {}, To("recorded"))
          \/ LogFails("group-completed", {}, Rollback)
    BY <1>11 DEF CompleteGroup
  <2> QED
    BY <1>a, <1>b, <2>1, <2>2, <2>3, LogsType DEF LoserEvents
<1>12. CASE UndoLoser
  <2>1. run.pc = "undo" /\ run.g \in GroupIds /\ run.i \in 1..Len(run.moved)
    BY <1>12, <1>a DEF UndoLoser, At, Placed
  <2>2. Placed(NextUndo) /\ Placed(To("undo-rename"))
    BY <1>a, <2>1, ToPlaced, NextUndoPlaced
  <2>3. \/ GoesTo(NextUndo) \/ IoFails("read", NextUndo)
        \/ \E m : \/ Logs("member-rollback-started", m, To("undo-rename"))
                 \/ LogFails("member-rollback-started", m, NextUndo)
    BY <1>12, Zenon DEF UndoLoser
  <2> QED
    BY <1>a, <2>2, <2>3, LogsType, GoesToType DEF LoserEvents
<1>13. CASE UndoRename
  <2>1. run.pc = "undo-rename" /\ run.g \in GroupIds /\ run.i \in 1..Len(run.moved)
    BY <1>13, <1>a DEF UndoRename, At, Placed
  <2>2. Placed(NextUndo) /\ Placed(To("undone"))
    BY <1>a, <2>1, ToPlaced, NextUndoPlaced
  <2> QED
    BY <1>13, <1>a, <2>2, GoesToType DEF UndoRename
<1>14. CASE RecordUndo
  <2>1. run.pc = "undone" /\ run.g \in GroupIds /\ run.i \in 1..Len(run.moved)
    BY <1>14, <1>a DEF RecordUndo, At, Placed
  <2>2. Placed(NextUndo) /\ run.moved[run.i] \in Members
    BY <1>a, <2>1, RunType, NextUndoPlaced
  <2>3. \/ GoesTo(NextUndo) \/ IoFails("read", NextUndo)
        \/ LET m == run.moved[run.i]
           IN Logs("member-rollback-completed", m, NextUndo)
                \/ LogFails("member-rollback-completed", m, NextUndo)
    BY <1>14 DEF RecordUndo
  <2> QED
    BY <1>a, <2>2, <2>3, LogsType, GoesToType DEF LoserEvents
<1>15. CASE FailGroup
  BY <1>15, <1>a, IdlePlaced, LogsType DEF FailGroup, LoserEvents
<1>16. CASE LeaveGroup
  <2> DEFINE next == [run EXCEPT !.pc = "group", !.g = @ + 1]
  <2>1. run.g + 1 \in Nat
    BY <1>n
  <2>2. next \in Runs
    BY <1>a, <2>1 DEF Runs, Phases
  <2>3. next.pc = "group"
    BY <1>a DEF Runs
  <2>4. Placed(next)
    BY <2>2, <2>3 DEF Placed
  <2> HIDE DEF next
  <2>5. GoesTo(next)
    BY <1>16 DEF LeaveGroup, next
  <2> QED
    BY <1>a, <2>4, <2>5, GoesToType
<1>17. CASE Crash
  BY <1>17, <1>a, IdlePlaced, FaultType DEF Crash, Fault
<1>18. CASE Interrupt
  <2>1. run.pc \in Guarded => Placed(Rollback)
    BY <1>a, <1>b DEF Guarded, Placed
  <2>2. run.pc = "renamed" => Placed(Undo(Moved))
    BY <1>a, MovedPlaced
  <2> QED
    BY <1>18, <1>a, <2>1, <2>2, IdlePlaced, FaultType DEF Interrupt, Fault, At
<1> QED
  BY <1>1, <1>2, <1>3, <1>4, <1>5, <1>6, <1>7, <1>8, <1>9, <1>10, <1>11,
     <1>12, <1>13, <1>14, <1>15, <1>16, <1>17, <1>18 DEF QuarantineStep

\* A step of the quarantine touches the files by one file operation on the loser
\* it is at, or not at all.
LEMMA QuarantineStepFiles ==
  ASSUME Placed(run), QuarantineStep
  PROVE  \/ \E m \in Members : MakeDir(Parent[m]) \/ MoveOut(m) \/ MoveBack(m)
         \/ UNCHANGED files
<1>1. CASE MakeQuarantineParent
  <2>1. run.pending[run.i] \in Members
    BY <1>1, RunType DEF MakeQuarantineParent, At, Placed
  <2> QED
    BY <1>1, <2>1 DEF MakeQuarantineParent
<1>2. CASE RenameLoser
  <2>1. run.pending[run.i] \in Members
    BY <1>2, RunType DEF RenameLoser, At, Placed
  <2> QED
    BY <1>2, <2>1 DEF RenameLoser
<1>3. CASE UndoRename
  <2>1. run.moved[run.i] \in Members
    BY <1>3, RunType DEF UndoRename, At, Placed
  <2> QED
    BY <1>3, <2>1 DEF UndoRename
<1>4. CASE ~MakeQuarantineParent /\ ~RenameLoser /\ ~UndoRename
  BY <1>4, Zenon DEF QuarantineStep, SkipGroup, EnterGroup, ScanLoser, BeginGroup,
     FinishQuarantine, ValidateGroup, PrepareLoser, RecordLoser, CompleteGroup, LeaveGroup,
     UndoLoser, RecordUndo, FailGroup, Crash, Interrupt
<1> QED
  BY <1>1, <1>2, <1>3, <1>4

\* The type invariant with the bounds of the loops is inductive.
LEMMA QuarantineTypeInductive ==
  /\ QuarantineInit => QuarantineTypeInv
  /\ QuarantineTypeInv /\ [QuarantineNext]_quarantineVars => QuarantineTypeInv'
<1>1. ASSUME QuarantineInit
      PROVE  QuarantineTypeInv
  <2>1. FilesTypeOK
    BY <1>1 DEF QuarantineInit, FilesInit, FilesTypeOK, Contents
  <2>2. run \in Runs /\ Placed(run)
    BY <1>1, IdlePlaced DEF QuarantineInit, Placed
  <2>3. journal \in Journals
    BY <1>1 DEF QuarantineInit, NoJournal, Journals
  <2>4. faults \in FaultRecords /\ winner \in [GroupIds -> {"organized", "elsewhere"}]
    BY <1>1, FaultAssumption DEF QuarantineInit, NoneYet, FaultRecords
  <2> QED
    BY <2>1, <2>2, <2>3, <2>4 DEF QuarantineTypeInv, QuarantineTypeOK
<1>2. ASSUME QuarantineTypeInv, [QuarantineNext]_quarantineVars
      PROVE  QuarantineTypeInv'
  <2>a. QuarantineTypeOK /\ Placed(run) /\ FilesTypeOK
    BY <1>2 DEF QuarantineTypeInv, QuarantineTypeOK
  <2>1. CASE Begin
    <3>1. journal' \in Journals /\ faults' \in FaultRecords /\ Placed(run')
      <4>1. CASE StartQuarantine
        BY <2>a, <4>1, IdlePlaced, FirstPlaced, LogsType DEF StartQuarantine, LoserEvents
      <4>2. CASE ResumeQuarantine
        BY <2>a, <4>2, FirstPlaced, GoesToType DEF ResumeQuarantine
      <4> QED
        BY <2>1, <4>1, <4>2 DEF Begin
    <3>2. FilesTypeOK' /\ UNCHANGED winner
      BY <2>1, <2>a, FilesType DEF Begin, StartQuarantine, ResumeQuarantine
    <3> QED
      BY <2>a, <3>1, <3>2 DEF QuarantineTypeInv, QuarantineTypeOK, Placed
  <2>2. CASE QuarantineStep
    <3>1. journal' \in Journals /\ faults' \in FaultRecords /\ Placed(run')
      BY <1>2, <2>2, QuarantineStepType
    <3>2. FilesTypeOK' /\ UNCHANGED winner
      BY <2>2, <2>a, QuarantineStepFiles, FilesType DEF OneFile, QuarantineStep
    <3> QED
      BY <2>a, <3>1, <3>2 DEF QuarantineTypeInv, QuarantineTypeOK, Placed
  <2>3. CASE Interfere
    <3>1. faults' \in FaultRecords /\ UNCHANGED <<run, journal>>
      BY <2>3, <2>a, FaultType DEF Interfere, Fault, QuarantineTypeOK
    <3>2. FilesTypeOK'
      BY <2>3, <2>a, FilesType DEF Interfere, OneFile
    <3>3. winner' \in [GroupIds -> {"organized", "elsewhere"}]
      BY <2>3, <2>a DEF Interfere, QuarantineTypeOK
    <3> QED
      BY <2>a, <3>1, <3>2, <3>3 DEF QuarantineTypeInv, QuarantineTypeOK, Placed
  <2>4. CASE UNCHANGED quarantineVars
    BY <2>a, <2>4 DEF quarantineVars, files, QuarantineTypeInv, QuarantineTypeOK, FilesTypeOK, Placed
  <2> QED
    BY <1>2, <2>1, <2>2, <2>3, <2>4 DEF QuarantineNext
<1> QED
  BY <1>1, <1>2

\* Whatever fails and whoever interferes, the quarantine stays well typed.
THEOREM QuarantineTypeCorrectness == QuarantineSpec => []QuarantineTypeOK
<1>1. QuarantineTypeInv => QuarantineTypeOK
  BY DEF QuarantineTypeInv
<1> QED
  BY <1>1, QuarantineTypeInductive, PTL DEF QuarantineSpec

-------------------------------------------------------------------------------
(* No loser is lost. *)

\* A rename neither loses nor copies a loser.
LEMMA LosersKept ==
  ASSUME FilesTypeOK, \A m \in Members : OneCopy(m),
         \/ \E m \in Members : MakeDir(Parent[m]) \/ MoveOut(m) \/ MoveBack(m)
         \/ UNCHANGED files
  PROVE  \A m \in Members : OneCopy(m)'
BY DEF FilesTypeOK, OneCopy, MakeDir, MoveOut, CanMoveOut, MoveBack, CanMoveBack, files

\* A step keeps the record of the faults, or a fault strikes.
LEMMA QuarantineFaults ==
  ASSUME [QuarantineNext]_quarantineVars
  PROVE  UNCHANGED faults \/ \E kinds : Strike(kinds)
<1>1. ASSUME NEW event, NEW m, NEW next, NEW otherwise,
             Logs(event, m, next) \/ LogFails(event, m, otherwise)
      PROVE  UNCHANGED faults \/ \E kinds : Strike(kinds)
  BY <1>1 DEF Logs, LogFails, NoFault, Fault, DiesWriting
<1>2. ASSUME NEW kind, NEW event, NEW m, NEW next,
             GoesTo(next) \/ IoFails(kind, next) \/ LogsAmid(kind, event, m, next)
      PROVE  UNCHANGED faults \/ \E kinds : Strike(kinds)
  BY <1>2 DEF GoesTo, IoFails, LogsAmid, NoFault, Fault
<1>3. CASE Begin
  BY <1>1, <1>2, <1>3, Zenon DEF Begin, StartQuarantine, ResumeQuarantine
<1>4. CASE QuarantineStep
  <2>1. CASE SkipGroup \/ EnterGroup \/ ScanLoser \/ BeginGroup \/ FinishQuarantine
    BY <1>1, <1>2, <2>1, Zenon DEF SkipGroup, EnterGroup, ScanLoser, BeginGroup, FinishQuarantine
  <2>2. CASE ValidateGroup \/ PrepareLoser \/ MakeQuarantineParent \/ RenameLoser
    BY <1>1, <1>2, <2>2, Zenon
    DEF ValidateGroup, PrepareLoser, Announce, MakeQuarantineParent, RenameLoser
  <2>3. CASE RecordLoser \/ CompleteGroup \/ LeaveGroup
    BY <1>1, <1>2, <2>3, Zenon DEF RecordLoser, CompleteGroup, LeaveGroup
  <2>4. CASE UndoLoser \/ UndoRename \/ RecordUndo \/ FailGroup
    BY <1>1, <1>2, <2>4, Zenon DEF UndoLoser, UndoRename, RecordUndo, FailGroup
  <2>5. CASE Crash \/ Interrupt
    BY <2>5, Zenon DEF Crash, Interrupt, Fault
  <2> QED
    BY <1>4, <2>1, <2>2, <2>3, <2>4, <2>5 DEF QuarantineStep
<1>5. CASE Interfere
  BY <1>5, Zenon DEF Interfere, Fault
<1>6. CASE UNCHANGED quarantineVars
  BY <1>6 DEF quarantineVars
<1> QED
  BY <1>3, <1>4, <1>5, <1>6 DEF QuarantineNext

\* What has been deleted stays on the record.
LEMMA DeletionsRemembered ==
  ASSUME UNCHANGED faults \/ \E kinds : Strike(kinds)
  PROVE  NothingDeleted' => NothingDeleted
BY DEF Strike, NothingDeleted

\* So does a look that took a file for absent.
LEMMA MissesRemembered ==
  /\ (UNCHANGED faults \/ \E kinds : Strike(kinds)) => (NothingMissed' => NothingMissed)
  /\ Fault("look") => ~NothingMissed'
BY DEF Strike, Fault, NothingMissed

\* Who deletes a loser is on the record.
LEMMA InterfereDeletes ==
  ASSUME Interfere, NothingDeleted'
  PROVE  UNCHANGED <<files, run, journal>>
BY DEF Interfere, Fault, Strike, NothingDeleted

LosersInv == QuarantineTypeInv /\ LosersConserved

LEMMA LosersInductive ==
  /\ QuarantineInit => LosersInv
  /\ LosersInv /\ [QuarantineNext]_quarantineVars => LosersInv'
<1>1. ASSUME QuarantineInit
      PROVE  LosersInv
  BY <1>1, QuarantineTypeInductive
  DEF QuarantineInit, FilesInit, LosersInv, LosersConserved, OneCopy
<1>2. ASSUME LosersInv, [QuarantineNext]_quarantineVars
      PROVE  LosersInv'
  <2>a. QuarantineTypeInv /\ QuarantineTypeInv' /\ FilesTypeOK /\ Placed(run)
    BY <1>2, QuarantineTypeInductive DEF LosersInv, QuarantineTypeInv, QuarantineTypeOK
  <2>1. SUFFICES ASSUME NothingDeleted'
                 PROVE  \A m \in Members : OneCopy(m)'
    BY <2>a DEF LosersInv, LosersConserved
  <2>2. \A m \in Members : OneCopy(m)
    BY <1>2, <2>1, QuarantineFaults, DeletionsRemembered DEF LosersInv, LosersConserved
  <2>3. \/ \E m \in Members : MakeDir(Parent[m]) \/ MoveOut(m) \/ MoveBack(m)
        \/ UNCHANGED files
    <3>1. CASE Begin
      BY <3>1 DEF Begin, StartQuarantine, ResumeQuarantine
    <3>2. CASE QuarantineStep
      BY <2>a, <3>2, QuarantineStepFiles
    <3>3. CASE Interfere
      BY <2>1, <3>3, InterfereDeletes
    <3>4. CASE UNCHANGED quarantineVars
      BY <3>4 DEF quarantineVars
    <3> QED
      BY <1>2, <3>1, <3>2, <3>3, <3>4 DEF QuarantineNext
  <2> QED
    BY <2>a, <2>2, <2>3, LosersKept
<1> QED
  BY <1>1, <1>2

\* Through every failure and resume a loser that nobody deleted exists once, in
\* the library or in quarantine.
THEOREM LosersAreConserved == QuarantineSpec => []LosersConserved
<1>1. LosersInv => LosersConserved
  BY DEF LosersInv
<1> QED
  BY <1>1, LosersInductive, PTL DEF QuarantineSpec


-------------------------------------------------------------------------------
(* A quarantine is a reorganization. *)

Undoing == {"undo", "undo-rename", "undone"}
Forward == {"scan", "validate", "prepare", "mkdir", "rename", "renamed"}

\* The losers in quarantine; those that nobody has any more; and both.
AtDest == {m \in Members : dst[m] = "media"}
Gone == {m \in Members : src[m] = "absent" /\ dst[m] = "absent"}
Away == AtDest \cup Gone

\* No loser has been changed or copied.
Copies ==
  \A m \in Members :
    src[m] \in {"absent", "media"} /\ dst[m] \in {"absent", "media"}
      /\ ~(src[m] = "media" /\ dst[m] = "media")

\* The lists of a control state hold losers of its group.
Lists(r) ==
  r.pc \notin {"idle", "group"} =>
    /\ \A k \in 1..Len(r.pending) : r.pending[k] \in InGroup(r.g)
    /\ \A k \in 1..Len(r.moved) : r.moved[k] \in InGroup(r.g)

\* A group that the journal, as G has it, or the losers in quarantine, d, show
\* to have been reached; and one that the journal and the losers that are away,
\* a, show to be done.
Reached(h, d, G) == h \in G \/ InGroup(h) \cap d # {}
Behind(h, a, G) == h \in G /\ InGroup(h) \subseteq a

\* The loop has all of the groups before its own behind it, has reached none
\* after it once it has entered its own, and enters only a group that is not
\* recorded as completed.
InTurn(r, a, d, G) ==
  /\ r.pc # "idle" => r.g >= 1 /\ \A h \in GroupIds : h < r.g => Behind(h, a, G)
  /\ r.pc \notin {"idle", "group"} => \A h \in GroupIds : h > r.g => ~Reached(h, d, G)
  /\ r.pc \in Forward => r.g \notin G
  /\ r.pc = "recorded" => Behind(r.g, a, G)

\* A loser of the group that is not away is still to be moved: one of the
\* pending ones, from the n-th on.
ToMove(r, n, m) == \E k \in 1..Len(r.pending) : k >= n /\ r.pending[k] = m

Remaining(r, a) ==
  /\ r.pc = "scan" =>
       \A j \in 1..Len(Plan[r.g]) : j < r.i => Plan[r.g][j] \in a \/ ToMove(r, 1, Plan[r.g][j])
  /\ r.pc = "validate" => \A m \in InGroup(r.g) : m \in a \/ ToMove(r, 1, m)
  /\ r.pc \in {"prepare", "mkdir", "rename"} => \A m \in InGroup(r.g) : m \in a \/ ToMove(r, r.i, m)
  /\ r.pc = "renamed" => \A m \in InGroup(r.g) : m \in a \/ ToMove(r, r.i + 1, m)

Fits(r, a, d, G) == r \in Runs /\ Lists(r) /\ Remaining(r, a) /\ InTurn(r, a, d, G)

\* Groups are reached in order.
InOrder(a, d, G) == \A g, h \in GroupIds : g < h /\ Reached(h, d, G) => Behind(g, a, G)

Trusted == journal.file # "unreadable" /\ "interrupt" \notin faults.struck

\* A process that is not undoing a group knows every line of a journal that can
\* be read.  One that undoes a group recorded as completed does not know of the
\* record, and renames nothing before an append of its own has made the journal
\* unreadable; or an interrupt has contradicted the record.
Journalled ==
  /\ run.pc \notin Undoing => ~run.ahead
  /\ run.pc \notin Undoing \cup {"idle"} => journal.file = "readable"
  /\ run.pc \in Undoing /\ Trusted /\ ~run.ahead => run.g \notin journal.groups
  /\ run.pc = "undo-rename" /\ run.ahead => journal.file = "unreadable"

OrderInv ==
  /\ QuarantineTypeInv /\ Copies /\ Journalled
  /\ Fits(run, Away, AtDest, journal.groups) /\ InOrder(Away, AtDest, journal.groups)
  /\ run.pc # "idle" \/ journal.file = "none" => ~journal.done

-------------------------------------------------------------------------------
(* What a file operation, and a deletion, does to the sets of losers. *)

LEMMA RenamedSets ==
  ASSUME FilesTypeOK, Copies, NEW m \in Members, MoveOut(m)
  PROVE  /\ Copies' /\ m \notin Away
         /\ Away' = Away \cup {m} /\ AtDest' = AtDest \cup {m} /\ Gone' = Gone
BY DEF FilesTypeOK, Copies, MoveOut, CanMoveOut, Away, AtDest, Gone

LEMMA RenamedBackSets ==
  ASSUME FilesTypeOK, Copies, NEW m \in Members, MoveBack(m)
  PROVE  /\ Copies' /\ m \in AtDest
         /\ Away' = Away \ {m} /\ AtDest' = AtDest \ {m} /\ Gone' = Gone
BY DEF FilesTypeOK, Copies, MoveBack, CanMoveBack, Away, AtDest, Gone

LEMMA SameSets ==
  ASSUME UNCHANGED <<src, dst>>
  PROVE  /\ Copies => Copies'
         /\ Away' = Away /\ AtDest' = AtDest /\ Gone' = Gone
BY DEF Copies, Away, AtDest, Gone

LEMMA DeletedSets ==
  ASSUME FilesTypeOK, Copies, Interfere
  PROVE  /\ Copies' /\ UNCHANGED <<run, journal>> /\ Trusted' = Trusted
         /\ \/ UNCHANGED <<src, dst>>
            \/ \E m \in Members : /\ Away' = Away \cup {m} /\ AtDest' = AtDest \ {m}
                                  /\ Gone' = Gone \cup {m}
<1>1. UNCHANGED <<run, journal>> /\ Trusted' = Trusted
  BY DEF Interfere, Trusted, Fault, Strike
<1>2. CASE \E m \in Members : src[m] = "media" /\ src' = [src EXCEPT ![m] = "absent"] /\ UNCHANGED dst
  <2>1. PICK m \in Members : src[m] = "media" /\ src' = [src EXCEPT ![m] = "absent"] /\ UNCHANGED dst
    BY <1>2
  <2>2. dst[m] = "absent" /\ src'[m] = "absent" /\ \A n \in Members : n # m => src'[n] = src[n]
    BY <2>1 DEF FilesTypeOK, Copies
  <2>3. Copies'
    BY <2>1, <2>2 DEF Copies
  <2>4. Gone' = Gone \cup {m} /\ AtDest' = AtDest /\ m \notin AtDest
    BY <2>1, <2>2 DEF Gone, AtDest
  <2>5. Away' = Away \cup {m}
    BY <2>4 DEF Away
  <2> QED
    BY <1>1, <2>3, <2>4, <2>5
<1>3. CASE \E m \in Members : dst[m] = "media" /\ dst' = [dst EXCEPT ![m] = "absent"] /\ UNCHANGED src
  <2>1. PICK m \in Members : dst[m] = "media" /\ dst' = [dst EXCEPT ![m] = "absent"] /\ UNCHANGED src
    BY <1>3
  <2>2. src[m] = "absent" /\ dst'[m] = "absent" /\ \A n \in Members : n # m => dst'[n] = dst[n]
    BY <2>1 DEF FilesTypeOK, Copies
  <2>3. Copies'
    BY <2>1, <2>2 DEF Copies
  <2>4. Gone' = Gone \cup {m} /\ AtDest' = AtDest \ {m} /\ m \in AtDest
    BY <2>1, <2>2 DEF Gone, AtDest
  <2>5. Away' = Away \cup {m}
    BY <2>4 DEF Away
  <2> QED
    BY <1>1, <2>3, <2>4, <2>5
<1>4. CASE UNCHANGED <<src, dst>>
  BY <1>1, <1>4, SameSets
<1> QED
  BY <1>2, <1>3, <1>4 DEF Interfere, files

\* A loser that the command finds in quarantine, or absent from both places, is
\* away.
LEMMA SeenAway ==
  ASSUME NEW m \in Members
  PROVE  (Quarantined(m) => m \in AtDest /\ m \in Away) /\ (AlreadyAbsent(m) => m \in Away)
BY DEF Quarantined, Organized, AlreadyAbsent, Away, AtDest, Gone

-------------------------------------------------------------------------------
(* The control states that a step leads to. *)

LEMMA IdleFits ==
  ASSUME NEW a, NEW d, NEW G
  PROVE  Fits(Idle, a, d, G)
<1>1. Idle \in Runs /\ Idle.pc = "idle"
  BY IdlePlaced DEF Placed
<1> QED
  BY <1>1 DEF Fits, Lists, Remaining, InTurn, Forward

\* Deletions take nothing from what is behind, and reach nothing.
LEMMA DeletionFits ==
  ASSUME NEW r, NEW a, NEW d, NEW G, NEW a2, NEW d2, a \subseteq a2, d2 \subseteq d
  PROVE  /\ Fits(r, a, d, G) => Fits(r, a2, d2, G)
         /\ InOrder(a, d, G) => InOrder(a2, d2, G)
<1>1. ASSUME Fits(r, a, d, G)
      PROVE  Fits(r, a2, d2, G)
  <2>1. Remaining(r, a2)
    BY <1>1 DEF Fits, Remaining
  <2>2. InTurn(r, a2, d2, G)
    BY <1>1 DEF Fits, InTurn, Behind, Reached
  <2> QED
    BY <1>1, <2>1, <2>2 DEF Fits
<1>2. InOrder(a, d, G) => InOrder(a2, d2, G)
  BY DEF InOrder, Behind, Reached
<1> QED
  BY <1>1, <1>2

LEMMA AheadFits ==
  ASSUME NEW r, NEW a, NEW d, NEW G, Fits(r, a, d, G)
  PROVE  Fits([r EXCEPT !.ahead = r.pc # "idle"], a, d, G)
<1> DEFINE q == [r EXCEPT !.ahead = r.pc # "idle"]
<1>1. /\ q \in Runs /\ q.pc = r.pc /\ q.g = r.g /\ q.i = r.i /\ q.pending = r.pending
      /\ q.moved = r.moved
  BY DEF Fits, Runs
<1> HIDE DEF q
<1>2. Fits(q, a, d, G)
  BY <1>1 DEF Fits, Lists, Remaining, ToMove, InTurn
<1> QED
  BY <1>2 DEF q

LEMMA StepFits ==
  ASSUME NEW on, NEW off, NEW a, NEW d, NEW G, Fits(on, a, d, G), Fits(off, a, d, G),
         NEW event, NEW m, NEW kind,
         \/ GoesTo(on) \/ Logs(event, m, on)
         \/ GoesTo(off) \/ IoFails(kind, off) \/ LogFails(event, m, off)
         \/ LogsAmid(kind, event, m, off)
  PROVE  Fits(run', a, d, G)
BY AheadFits, IdleFits DEF GoesTo, Logs, IoFails, LogFails, LogsAmid

\* Whatever is undone, the loop stays at its group.
LEMMA UndoFits ==
  ASSUME NEW r \in Runs, NEW a, NEW d, NEW G, r.g \in GroupIds,
         \A k \in 1..Len(r.pending) : r.pending[k] \in InGroup(r.g),
         \A k \in 1..Len(r.moved) : r.moved[k] \in InGroup(r.g),
         r.g >= 1, \A h \in GroupIds : h < r.g => Behind(h, a, G),
         \A h \in GroupIds : h > r.g => ~Reached(h, d, G)
  PROVE  Fits(Undo(r), a, d, G)
<1>1. Undo(r) \in Runs
  BY UndoPlaced DEF Placed
<1>2. /\ Undo(r).pc = "undo" /\ Undo(r).g = r.g
      /\ Undo(r).pending = r.pending /\ Undo(r).moved = r.moved
  BY DEF Undo, Runs
<1> QED
  BY <1>1, <1>2 DEF Fits, Lists, Remaining, InTurn, Forward

LEMMA RollbackFits ==
  ASSUME NEW a, NEW d, NEW G, run.pc \notin {"idle", "group"}, Placed(run), Fits(run, a, d, G)
  PROVE  Fits(Rollback, a, d, G)
<1>1. run.g \in GroupIds /\ run \in Runs
  BY DEF Placed
<1> QED
  BY <1>1, UndoFits DEF Rollback, Fits, Lists, InTurn

\* From one phase of the rollback to another, and from one of those that walk
\* the pending losers to another.
LEMMA ToFits ==
  ASSUME NEW a, NEW d, NEW G, Placed(run), Fits(run, a, d, G), NEW phase,
         \/ run.pc \in {"prepare", "mkdir", "rename"} /\ phase \in {"prepare", "mkdir", "rename"}
         \/ run.pc \in Undoing /\ phase \in Undoing
  PROVE  Fits(To(phase), a, d, G)
<1>1. To(phase) \in Runs /\ To(phase).pc = phase
  BY DEF To, Runs, Phases, Undoing, Placed
<1>2. /\ To(phase).g = run.g /\ To(phase).i = run.i /\ To(phase).pending = run.pending
      /\ To(phase).moved = run.moved
  BY DEF To, Runs, Placed
<1> QED
  BY <1>1, <1>2 DEF Fits, Lists, Remaining, ToMove, InTurn, Forward, Undoing

LEMMA NextUndoFits ==
  ASSUME NEW a, NEW d, NEW G, Placed(run), Fits(run, a, d, G), run.pc \in Undoing,
         run.i \in 1..Len(run.moved)
  PROVE  Fits(NextUndo, a, d, G)
<1>a. run \in Runs /\ Lists(run) /\ InTurn(run, a, d, G) /\ run.g \in GroupIds
  BY DEF Fits, Placed, Undoing
<1>1. NextUndo \in Runs
  BY <1>a, NextUndoPlaced DEF Placed
<1>2. /\ NextUndo.pc = "undo" /\ NextUndo.g = run.g
      /\ NextUndo.moved = run.moved /\ NextUndo.pending = run.pending
  BY <1>a DEF NextUndo, Runs
<1> QED
  BY <1>a, <1>1, <1>2 DEF Fits, Lists, Remaining, InTurn, Forward, Undoing

\* What Append does to a list of losers.
LEMMA Appended ==
  ASSUME NEW s \in Seq(Members), NEW m \in Members
  PROVE  /\ Append(s, m) \in Seq(Members) /\ Len(Append(s, m)) = Len(s) + 1
         /\ \A k \in 1..Len(s) : Append(s, m)[k] = s[k]
         /\ Append(s, m)[Len(s) + 1] = m
OBVIOUS

\* The scan leaves no loser out: each is away, or still to be moved.
LEMMA ScanFits ==
  ASSUME NEW a, NEW d, NEW G, Placed(run), Fits(run, a, d, G), At("scan"),
         run.i \in 1..Len(Plan[run.g])
  PROVE  LET m == Plan[run.g][run.i]
             done == [run EXCEPT !.i = @ + 1]
             toDo == [run EXCEPT !.i = @ + 1, !.pending = Append(@, m)]
         IN  (m \in a => Fits(done, a, d, G)) /\ Fits(toDo, a, d, G)
<1> DEFINE m == Plan[run.g][run.i]
           done == [run EXCEPT !.i = @ + 1]
           toDo == [run EXCEPT !.i = @ + 1, !.pending = Append(@, m)]
<1>a. /\ run \in Runs /\ Lists(run) /\ Remaining(run, a) /\ InTurn(run, a, d, G)
      /\ run.pc = "scan" /\ run.g \in GroupIds
  BY DEF Fits, At, Placed
<1>b. /\ run.i \in Nat /\ run.i + 1 \in Nat /\ run.pending \in Seq(Members)
      /\ Len(run.pending) \in Nat /\ Len(Plan[run.g]) \in Nat
  BY <1>a, RunType, GroupType
<1>c. m \in Members /\ m \in InGroup(run.g)
  BY <1>a, GroupType DEF InGroup
<1>d. /\ \A k \in 1..Len(run.pending) : run.pending[k] \in InGroup(run.g)
      /\ \A k \in 1..Len(run.moved) : run.moved[k] \in InGroup(run.g)
  BY <1>a DEF Lists
<1>e. \A j \in 1..Len(Plan[run.g]) : j < run.i =>
        Plan[run.g][j] \in a \/ ToMove(run, 1, Plan[run.g][j])
  BY <1>a DEF Remaining
<1>1. ASSUME m \in a
      PROVE  Fits(done, a, d, G)
  <2>1. done \in Runs
    BY <1>a, <1>b DEF Runs
  <2>2. /\ done.pc = "scan" /\ done.g = run.g /\ done.i = run.i + 1
        /\ done.pending = run.pending /\ done.moved = run.moved
    BY <1>a DEF Runs
  <2> HIDE DEF done
  <2>3. ASSUME NEW j \in 1..Len(Plan[run.g]), j < run.i + 1
        PROVE  Plan[run.g][j] \in a \/ ToMove(run, 1, Plan[run.g][j])
    <3>1. j < run.i \/ j = run.i
      BY <1>b, <2>3
    <3> QED
      BY <1>1, <1>e, <3>1
  <2>4. Remaining(done, a)
    BY <2>2, <2>3 DEF Remaining, ToMove
  <2> QED
    BY <1>a, <1>d, <2>1, <2>2, <2>4 DEF Fits, Lists, InTurn
<1>2. Fits(toDo, a, d, G)
  <2>1. Append(run.pending, m) \in Seq(Members)
        /\ Len(Append(run.pending, m)) = Len(run.pending) + 1
        /\ \A k \in 1..Len(run.pending) : Append(run.pending, m)[k] = run.pending[k]
        /\ Append(run.pending, m)[Len(run.pending) + 1] = m
    BY <1>b, <1>c, Appended
  <2>2. toDo \in Runs
    BY <1>a, <1>b, <2>1 DEF Runs
  <2>3. /\ toDo.pc = "scan" /\ toDo.g = run.g /\ toDo.i = run.i + 1
        /\ toDo.moved = run.moved /\ toDo.pending = Append(run.pending, m)
    BY <1>a DEF Runs
  <2> HIDE DEF toDo
  <2>4. Lists(toDo)
    BY <1>b, <1>c, <1>d, <2>1, <2>3 DEF Lists
  <2>5. ASSUME NEW j \in 1..Len(Plan[run.g]), j < run.i + 1
        PROVE  Plan[run.g][j] \in a \/ ToMove(toDo, 1, Plan[run.g][j])
    <3>1. CASE j = run.i
      <4>1. /\ Len(toDo.pending) \in 1..Len(toDo.pending) /\ 1 <= Len(toDo.pending)
            /\ toDo.pending[Len(toDo.pending)] = m
        BY <1>b, <2>1, <2>3
      <4> QED
        BY <3>1, <4>1 DEF ToMove
    <3>2. CASE Plan[run.g][j] \in a
      BY <3>2
    <3>3. CASE j # run.i /\ ToMove(run, 1, Plan[run.g][j])
      <4>1. PICK k \in 1..Len(run.pending) : k >= 1 /\ run.pending[k] = Plan[run.g][j]
        BY <3>3 DEF ToMove
      <4>2. k \in 1..Len(toDo.pending) /\ k >= 1 /\ toDo.pending[k] = Plan[run.g][j]
        BY <1>b, <2>1, <2>3, <4>1
      <4> QED
        BY <4>2 DEF ToMove
    <3> QED
      BY <1>b, <1>e, <2>5, <3>1, <3>2, <3>3
  <2>6. Remaining(toDo, a)
    BY <2>3, <2>5 DEF Remaining
  <2> QED
    BY <1>a, <2>2, <2>3, <2>4, <2>6 DEF Fits, InTurn
<1> QED
  BY <1>1, <1>2

\* After a rename the loop goes on with the next loser, or undoes the group.
LEMMA MovedFits ==
  ASSUME NEW a, NEW d, NEW G, Placed(run), Fits(run, a, d, G), At("renamed")
  PROVE  /\ Fits(Undo(Moved), a, d, G)
         /\ Fits([Moved EXCEPT !.pc = "prepare", !.i = @ + 1], a, d, G)
<1> DEFINE m == run.pending[run.i]
           on == [Moved EXCEPT !.pc = "prepare", !.i = @ + 1]
<1>a. /\ run \in Runs /\ Lists(run) /\ Remaining(run, a) /\ InTurn(run, a, d, G)
      /\ run.pc = "renamed" /\ run.g \in GroupIds /\ run.i \in 1..Len(run.pending)
  BY DEF Fits, At, Placed
<1>b. /\ run.i \in Nat /\ run.i + 1 \in Nat /\ run.moved \in Seq(Members)
      /\ Len(run.pending) \in Nat /\ Len(run.moved) \in Nat /\ m \in Members
  BY <1>a, RunType
<1>c. /\ \A k \in 1..Len(run.pending) : run.pending[k] \in InGroup(run.g)
      /\ \A k \in 1..Len(run.moved) : run.moved[k] \in InGroup(run.g)
  BY <1>a DEF Lists
<1>1. Append(run.moved, m) \in Seq(Members)
      /\ Len(Append(run.moved, m)) = Len(run.moved) + 1
      /\ \A k \in 1..Len(run.moved) : Append(run.moved, m)[k] = run.moved[k]
      /\ Append(run.moved, m)[Len(run.moved) + 1] = m
  BY <1>b, Appended
<1>2. /\ Moved \in Runs /\ Moved.g = run.g /\ Moved.i = run.i /\ Moved.pending = run.pending
      /\ Moved.moved = Append(run.moved, m)
  BY <1>a, MovedPlaced DEF Placed
<1>3. on \in Runs
  BY <1>b, <1>2 DEF Runs, Phases
<1>4. on.pc = "prepare" /\ on.g = run.g /\ on.pending = run.pending /\ on.i = run.i + 1
      /\ on.moved = Append(run.moved, m)
  BY <1>2 DEF Runs
<1> HIDE DEF on
<1>5. \A k \in 1..Len(Append(run.moved, m)) : Append(run.moved, m)[k] \in InGroup(run.g)
  BY <1>a, <1>b, <1>c, <1>1
<1>6. run.g >= 1 /\ (\A h \in GroupIds : h < run.g => Behind(h, a, G))
      /\ (\A h \in GroupIds : h > run.g => ~Reached(h, d, G)) /\ run.g \notin G
  BY <1>a DEF InTurn, Forward
<1>7. Fits(Undo(Moved), a, d, G)
  BY <1>a, <1>c, <1>2, <1>5, <1>6, UndoFits
<1>8. Remaining(on, a)
  BY <1>a, <1>4 DEF Remaining, ToMove
<1>9. Fits(on, a, d, G)
  BY <1>c, <1>3, <1>4, <1>5, <1>6, <1>8 DEF Fits, Lists, InTurn
<1> QED
  BY <1>7, <1>9 DEF on

-------------------------------------------------------------------------------
(* What a step does to the journal. *)

LEMMA Recorded ==
  ASSUME QuarantineTypeOK, NEW event, NEW m, NEW next,
         \/ Logs(event, m, next) \/ LogFails(event, m, next)
         \/ \E kind : LogsAmid(kind, event, m, next)
  PROVE  /\ event # "group-completed" => journal'.groups = journal.groups
         /\ event # "completed" => journal'.done = journal.done
         /\ journal'.groups \in {journal.groups, journal.groups \cup {run.g}}
         /\ journal'.file = "none" => journal.file = "none" /\ journal'.done = journal.done
         /\ journal.file = "unreadable" => journal'.file = "unreadable"
<1> DEFINE rep == Replay(journal, event, run.g, m)
<1>1. /\ event # "group-completed" => rep.groups = journal.groups
      /\ event # "completed" => rep.done = journal.done
      /\ rep.groups \in {journal.groups, journal.groups \cup {run.g}}
  BY DEF QuarantineTypeOK, Replay, Undone, Journals
<1>2. rep \in [file : {"none", "readable", "unreadable"}, started : {rep.started},
        completed : {rep.completed}, groups : {rep.groups}, done : {rep.done}]
  BY DEF QuarantineTypeOK, Replay, Undone, Journals
<1> HIDE DEF rep
<1> DEFINE wri == Written(journal, run, event, m)
<1>3. wri = IF run.ahead \/ journal.file = "unreadable"
            THEN [journal EXCEPT !.file = "unreadable"] ELSE [rep EXCEPT !.file = "readable"]
  BY DEF Written, rep
<1>4. /\ event # "group-completed" => wri.groups = journal.groups
      /\ event # "completed" => wri.done = journal.done
      /\ wri.groups \in {journal.groups, journal.groups \cup {run.g}}
      /\ wri.file # "none" /\ (journal.file = "unreadable" => wri.file = "unreadable")
  BY <1>1, <1>2, <1>3 DEF QuarantineTypeOK, Journals
<1>5. \/ journal' = journal \/ journal' = wri
      \/ journal' = [journal EXCEPT !.file = "unreadable"]
  BY DEF Logs, LogFails, LogsAmid
<1> HIDE DEF wri
<1> QED
  BY <1>4, <1>5 DEF QuarantineTypeOK, Journals

\* An append that returns, in a process that knows every line of a journal that
\* can be read.
LEMMA KnownLogs ==
  ASSUME QuarantineTypeOK, ~run.ahead, journal.file # "unreadable", NEW event, NEW m, NEW next,
         Logs(event, m, next)
  PROVE  /\ journal'.file = "readable"
         /\ event = "group-completed" => journal'.groups = journal.groups \cup {run.g}
<1> DEFINE rep == Replay(journal, event, run.g, m)
<1>1. event = "group-completed" => rep.groups = journal.groups \cup {run.g}
  BY DEF QuarantineTypeOK, Replay, Journals
<1>2. rep \in [file : {"none", "readable", "unreadable"}, started : {rep.started},
        completed : {rep.completed}, groups : {rep.groups}, done : {rep.done}]
  BY DEF QuarantineTypeOK, Replay, Undone, Journals
<1>3. journal' = [rep EXCEPT !.file = "readable"]
  BY DEF Logs, Written
<1> HIDE DEF rep
<1> QED
  BY <1>1, <1>2, <1>3

\* An append that repeats a sequence number spoils the journal.
LEMMA AheadLogs ==
  ASSUME QuarantineTypeOK, run.ahead, NEW event, NEW m, NEW next, Logs(event, m, next)
  PROVE  journal'.file = "unreadable"
BY DEF QuarantineTypeOK, Journals, Logs, Written

\* Every step but those of CompleteGroup and FinishQuarantine leaves the record
\* of the groups and of the run alone.
LEMMA OthersRecordNothing ==
  ASSUME QuarantineTypeOK, Begin \/ QuarantineStep
  PROVE  /\ ~CompleteGroup => journal'.groups = journal.groups
         /\ ~FinishQuarantine => journal'.done = journal.done
         /\ journal'.file = "none" => journal.file = "none" /\ journal'.done = journal.done
         /\ journal.file = "unreadable" => journal'.file = "unreadable"
<1>1. CASE CompleteGroup
  <2>1. Logs("group-completed", {}, To("recorded")) \/ LogFails("group-completed", {}, Rollback)
    BY <1>1 DEF CompleteGroup
  <2> QED
    BY <1>1, <2>1, Recorded
<1>2. CASE FinishQuarantine
  <2>1. ~CompleteGroup
    BY <1>2 DEF CompleteGroup, FinishQuarantine, At
  <2>2. Logs("completed", {}, Idle) \/ LogFails("completed", {}, Idle) \/ UNCHANGED journal
    BY <1>2 DEF FinishQuarantine, GoesTo, IoFails
  <2> QED
    BY <1>2, <2>1, <2>2, Recorded
<1>3. CASE ~CompleteGroup /\ ~FinishQuarantine
  <2>1. \/ UNCHANGED journal
        \/ \E event \in {"run-started", "member-started", "member-completed",
               "member-rollback-started", "member-rollback-completed",
               "group-started", "group-failed", "directory-create-started",
               "directory-created"} :
             \E m, next, kind : \/ Logs(event, m, next) \/ LogFails(event, m, next)
                               \/ LogsAmid(kind, event, m, next)
    <3>1. CASE Begin
      BY <3>1, Zenon DEF Begin, StartQuarantine, ResumeQuarantine, GoesTo
    <3>2. CASE QuarantineStep
      BY <1>3, <3>2, Zenon DEF QuarantineStep, SkipGroup, EnterGroup, ScanLoser, BeginGroup,
         ValidateGroup, PrepareLoser, Announce, MakeQuarantineParent, RenameLoser,
         RecordLoser, LeaveGroup, UndoLoser, UndoRename, RecordUndo,
         FailGroup, Crash, Interrupt, GoesTo, IoFails
    <3> QED
      BY <3>1, <3>2
  <2> QED
    BY <2>1, Recorded
<1> QED
  BY <1>1, <1>2, <1>3

\* Trust in the record of a group is lost for ever.
LEMMA TrustIsLost ==
  ASSUME QuarantineTypeOK, [QuarantineNext]_quarantineVars
  PROVE  Trusted' => Trusted
<1>1. journal.file = "unreadable" => journal'.file = "unreadable"
  BY OthersRecordNothing DEF QuarantineNext, Interfere, quarantineVars
<1>2. "interrupt" \in faults.struck => "interrupt" \in faults'.struck
  BY QuarantineFaults DEF Strike
<1> QED
  BY <1>1, <1>2 DEF Trusted

-------------------------------------------------------------------------------
(* What the process knows of the journal. *)

\* A step of a process that is not undoing a group.
LEMMA ForwardJournalled ==
  ASSUME QuarantineTypeOK, Journalled, run.pc \notin Undoing, journal.file # "unreadable",
         NEW on \in Runs, on.pc \notin Undoing \cup {"idle"}, ~on.ahead,
         NEW off \in Runs, ~off.ahead,
         \/ off.pc = "idle"
         \/ off.pc = "undo" /\ off.g \notin journal.groups /\ run.pc # "idle",
         NEW event, NEW m, NEW kind, event # "group-completed",
         \/ GoesTo(on) /\ journal.file = "readable"
         \/ Logs(event, m, on)
         \/ GoesTo(off) \/ IoFails(kind, off) \/ LogFails(event, m, off)
  PROVE  Journalled'
<1>a. Idle.pc = "idle" /\ Idle.ahead = FALSE
  BY DEF Idle
<1>1. CASE GoesTo(on) /\ journal.file = "readable"
  BY <1>1 DEF GoesTo, Journalled, Undoing
<1>2. CASE Logs(event, m, on)
  <2>1. journal'.file = "readable" /\ run' = on
    BY <1>2, KnownLogs DEF Journalled, Logs
  <2> QED
    BY <2>1 DEF Journalled, Undoing
<1>3. CASE GoesTo(off) \/ IoFails(kind, off)
  <2>1. run' = off /\ journal' = journal
    BY <1>3 DEF GoesTo, IoFails
  <2> QED
    BY <2>1 DEF Journalled, Undoing
<1>4. CASE LogFails(event, m, off)
  <2>1. journal'.groups = journal.groups
    BY <1>4, Recorded
  <2>2. \/ run' = off \/ run' = Idle \/ run' = [off EXCEPT !.ahead = off.pc # "idle"]
    BY <1>4 DEF LogFails
  <2>3. CASE run' = off \/ run' = Idle
    BY <1>a, <2>1, <2>3 DEF Journalled, Undoing
  <2>4. CASE run' = [off EXCEPT !.ahead = off.pc # "idle"]
    <3>1. run'.pc = off.pc /\ run'.ahead = (off.pc # "idle")
      BY <2>4 DEF Runs
    <3> QED
      BY <3>1 DEF Journalled, Undoing
  <2> QED
    BY <2>2, <2>3, <2>4
<1> QED
  BY <1>1, <1>2, <1>3, <1>4

\* A step of a process that is undoing a group.
LEMMA UndoJournalled ==
  ASSUME QuarantineTypeOK, Journalled, Trusted' => Trusted, run.pc \in Undoing,
         NEW on \in Runs, on.pc \in {"undo", "undone"}, on.g = run.g, on.ahead = run.ahead,
         NEW event, NEW m, NEW kind, event # "group-completed",
         GoesTo(on) \/ Logs(event, m, on) \/ IoFails(kind, on) \/ LogFails(event, m, on)
  PROVE  Journalled'
<1>a. Idle.pc = "idle" /\ Idle.ahead = FALSE
  BY DEF Idle
<1>1. journal'.groups = journal.groups
  BY Recorded DEF GoesTo, IoFails
<1>2. run' = on \/ run' = Idle \/ run' = [on EXCEPT !.ahead = on.pc # "idle"]
  BY DEF GoesTo, Logs, IoFails, LogFails
<1>3. CASE run' = on
  BY <1>1, <1>3 DEF Journalled, Undoing
<1>4. CASE run' = Idle
  BY <1>a, <1>4 DEF Journalled, Undoing
<1>5. CASE run' = [on EXCEPT !.ahead = on.pc # "idle"]
  <2>1. run'.pc = on.pc /\ run'.ahead = TRUE
    BY <1>5 DEF Runs
  <2> QED
    BY <2>1 DEF Journalled, Undoing
<1> QED
  BY <1>2, <1>3, <1>4, <1>5

\* Every step of a running process leaves it knowing as much of its journal.
LEMMA QuarantineStepJournalled ==
  ASSUME OrderInv, QuarantineStep, NothingMissed'
  PROVE  Journalled'
<1>a. /\ QuarantineTypeOK /\ Placed(run) /\ run \in Runs /\ Journalled
      /\ InTurn(run, Away, AtDest, journal.groups)
  BY DEF OrderInv, QuarantineTypeInv, QuarantineTypeOK, Fits
<1>n. run.g \in Nat /\ run.g + 1 \in Nat /\ run.i \in Nat /\ run.i + 1 \in Nat
      /\ Len(run.pending) \in Nat /\ Len(run.moved) \in Nat
  BY <1>a, RunType
<1>t. Trusted' => Trusted
  BY <1>a, TrustIsLost DEF QuarantineNext
<1>i. Idle \in Runs /\ Idle.pc = "idle" /\ Idle.ahead = FALSE
  BY IdlePlaced DEF Placed, Idle
<1>f. ~At("idle") /\ run.pc \notin Undoing =>
        ~run.ahead /\ journal.file = "readable" /\ journal.file # "unreadable" /\ run.pc # "idle"
  BY <1>a DEF Journalled, At
<1>b. run.g \in GroupIds =>
        /\ Rollback \in Runs /\ Rollback.pc = "undo" /\ Rollback.g = run.g
        /\ Rollback.ahead = run.ahead
  BY <1>a, UndoPlaced DEF Placed, Rollback, Undo, Runs
<1>p. ASSUME NEW phase \in Phases
      PROVE  /\ To(phase) \in Runs /\ To(phase).pc = phase /\ To(phase).g = run.g
             /\ To(phase).ahead = run.ahead
  BY <1>a DEF To, Runs
<1>u. run.pc \in Undoing /\ run.i \in 1..Len(run.moved) =>
        NextUndo \in Runs /\ NextUndo.pc = "undo" /\ NextUndo.g = run.g /\ NextUndo.ahead = run.ahead
  <2>1. ASSUME run.pc \in Undoing, run.i \in 1..Len(run.moved)
        PROVE  NextUndo \in Runs
    BY <1>a, <2>1, NextUndoPlaced DEF Placed, Undoing
  <2> QED
    BY <1>a, <2>1 DEF NextUndo, Runs
<1>s. run.pc \in Forward => run.g \notin journal.groups /\ run.g \in GroupIds
  BY <1>a DEF InTurn, Placed, Forward
<1>0. ~At("idle")
  BY DEF QuarantineStep
<1>1. CASE SkipGroup
  <2> DEFINE next == [run EXCEPT !.g = @ + 1]
  <2>1. run.pc = "group" /\ run.pc \notin Undoing
    BY <1>1 DEF SkipGroup, At, Undoing
  <2>2. next \in Runs /\ next.pc = "group" /\ next.ahead = run.ahead
    BY <1>a, <1>n, <2>1 DEF Runs
  <2> HIDE DEF next
  <2>3. GoesTo(next) \/ GoesTo(Idle) \/ IoFails("read", Idle)
    BY <1>1 DEF SkipGroup, next
  <2> QED
    BY <1>a, <1>0, <1>f, <1>i, <2>1, <2>2, <2>3 DEF Journalled, GoesTo, IoFails, Undoing
<1>2. CASE EnterGroup
  <2>1. run.pc = "group" /\ run.pc \notin Undoing
    BY <1>2 DEF EnterGroup, At, Undoing
  <2>2. Entered.pc = "scan" /\ Entered.ahead = run.ahead
    BY <1>a DEF Entered, Runs
  <2>3. GoesTo(Entered) \/ GoesTo(Idle) \/ IoFails("read", Idle)
    BY <1>2 DEF EnterGroup
  <2> QED
    BY <1>a, <1>0, <1>f, <1>i, <2>1, <2>2, <2>3 DEF Journalled, GoesTo, IoFails, Undoing
<1>3. CASE ScanLoser
  <2> DEFINE m == Plan[run.g][run.i]
             done == [run EXCEPT !.i = @ + 1]
             toDo == [run EXCEPT !.i = @ + 1, !.pending = Append(@, m)]
  <2>1. run.pc = "scan" /\ run.pc \notin Undoing /\ run.g \in GroupIds
        /\ run.i \in 1..Len(Plan[run.g])
    BY <1>3, <1>a DEF ScanLoser, At, Undoing, Placed
  <2>2. done \in Runs /\ done.pc = "scan" /\ done.ahead = run.ahead
    BY <1>a, <1>n, <2>1 DEF Runs
  <2>3. toDo.pc = "scan" /\ toDo.ahead = run.ahead
    BY <1>a, <2>1 DEF Runs
  <2> HIDE DEF m, done, toDo
  <2>4. \/ GoesTo(toDo)
        \/ GoesTo(done) \/ Logs("member-completed", m, done)
        \/ GoesTo(Idle) \/ IoFails("read", Idle) \/ LogFails("member-completed", m, Idle)
    BY <1>3, MissesRemembered DEF ScanLoser, IoFails, LogsAmid, m, done, toDo
  <2>5. CASE GoesTo(toDo)
    BY <1>a, <1>0, <1>f, <2>1, <2>3, <2>5 DEF Journalled, GoesTo, Undoing
  <2>6. CASE ~GoesTo(toDo)
    BY <1>a, <1>0, <1>f, <1>i, <2>1, <2>2, <2>4, <2>6, ForwardJournalled DEF Undoing
  <2> QED
    BY <2>5, <2>6
<1>4. CASE BeginGroup
  <2>1. run.pc = "scan" /\ run.pc \notin Undoing
    BY <1>4 DEF BeginGroup, At, Undoing
  <2>2. To("validate") \in Runs /\ To("validate").pc = "validate" /\ To("validate").ahead = run.ahead
    BY <1>p DEF Phases
  <2>3. Logs("group-started", {}, To("validate")) \/ LogFails("group-started", {}, Idle)
    BY <1>4 DEF BeginGroup
  <2> QED
    BY <1>a, <1>0, <1>f, <1>i, <2>1, <2>2, <2>3, ForwardJournalled DEF Undoing
<1>5. CASE FinishQuarantine
  <2>1. run'.pc = "idle" /\ ~run'.ahead
    BY <1>5, <1>i DEF FinishQuarantine, GoesTo, IoFails, Logs, LogFails, Idle
  <2> QED
    BY <2>1 DEF Journalled, Undoing
<1>6. CASE ValidateGroup
  <2> DEFINE next == [run EXCEPT !.pc = "prepare", !.i = 1]
  <2>1. run.pc = "validate" /\ run.pc \notin Undoing /\ run.pc \in Forward
    BY <1>6 DEF ValidateGroup, At, Undoing, Forward
  <2>2. next \in Runs /\ next.pc = "prepare" /\ next.ahead = run.ahead
    BY <1>a DEF Runs, Phases
  <2> HIDE DEF next
  <2>3. GoesTo(next) \/ GoesTo(Rollback) \/ IoFails("io", Rollback) \/ IoFails("read", Rollback)
    BY <1>6 DEF ValidateGroup, next
  <2> QED
    BY <1>a, <1>0, <1>b, <1>f, <1>s, <2>1, <2>2, <2>3 DEF Journalled, GoesTo, IoFails, Undoing
<1>7. CASE PrepareLoser
  <2>1. run.pc = "prepare" /\ run.pc \notin Undoing /\ run.pc \in Forward
    BY <1>7 DEF PrepareLoser, At, Undoing, Forward
  <2>2. /\ To("mkdir") \in Runs /\ To("mkdir").pc = "mkdir" /\ To("mkdir").ahead = run.ahead
        /\ To("rename") \in Runs /\ To("rename").pc = "rename" /\ To("rename").ahead = run.ahead
    BY <1>p DEF Phases
  <2>3. \E m \in {run.pending[run.i]}, on \in {To("mkdir"), To("rename")},
           event \in {"directory-create-started", "member-started"} :
          \/ Logs(event, m, on) \/ LogFails(event, m, Rollback) \/ GoesTo(Rollback)
          \/ Logs(event, m, Rollback) \/ LogsAmid("read", event, m, Rollback)
    BY <1>7, Zenon DEF PrepareLoser, Announce
  <2>4. PICK m \in {run.pending[run.i]}, on \in {To("mkdir"), To("rename")},
             event \in {"directory-create-started", "member-started"} :
          \/ Logs(event, m, on) \/ LogFails(event, m, Rollback) \/ GoesTo(Rollback)
          \/ Logs(event, m, Rollback) \/ LogsAmid("read", event, m, Rollback)
    BY <2>3
  <2>5. on \in Runs /\ on.pc \notin Undoing \cup {"idle"} /\ on.ahead = run.ahead
    BY <2>2, <2>4 DEF Undoing
  <2>6. CASE Logs(event, m, Rollback) \/ LogsAmid("read", event, m, Rollback)
    <3>1. journal'.groups = journal.groups /\ run' = Rollback
      BY <1>a, <2>4, <2>6, Recorded DEF Logs, LogsAmid
    <3> QED
      BY <1>a, <1>0, <1>b, <1>f, <1>s, <2>1, <3>1 DEF Journalled, Undoing
  <2>7. CASE ~(Logs(event, m, Rollback) \/ LogsAmid("read", event, m, Rollback))
    BY <1>a, <1>0, <1>b, <1>f, <1>s, <2>1, <2>4, <2>5, <2>7, ForwardJournalled
  <2> QED
    BY <2>6, <2>7
<1>8. CASE MakeQuarantineParent
  <2>1. run.pc = "mkdir" /\ run.pc \notin Undoing /\ run.pc \in Forward
    BY <1>8 DEF MakeQuarantineParent, At, Undoing, Forward
  <2>2. To("prepare") \in Runs /\ To("prepare").pc = "prepare" /\ To("prepare").ahead = run.ahead
    BY <1>p DEF Phases
  <2>3. \E m \in {run.pending[run.i]} :
          \/ Logs("directory-created", m, To("prepare"))
          \/ LogFails("directory-created", m, Rollback) \/ GoesTo(Rollback)
          \/ IoFails("io", Rollback)
    BY <1>8 DEF MakeQuarantineParent
  <2> QED
    BY <1>a, <1>0, <1>b, <1>f, <1>s, <2>1, <2>2, <2>3, ForwardJournalled DEF Undoing
<1>9. CASE RenameLoser
  <2>1. run.pc = "rename" /\ run.pc \notin Undoing /\ run.pc \in Forward
    BY <1>9 DEF RenameLoser, At, Undoing, Forward
  <2>2. To("renamed") \in Runs /\ To("renamed").pc = "renamed" /\ To("renamed").ahead = run.ahead
    BY <1>p DEF Phases
  <2>3. GoesTo(To("renamed")) \/ GoesTo(Rollback) \/ IoFails("io", Rollback)
    BY <1>9 DEF RenameLoser
  <2> QED
    BY <1>a, <1>0, <1>b, <1>f, <1>s, <2>1, <2>2, <2>3 DEF Journalled, GoesTo, IoFails, Undoing
<1>10. CASE RecordLoser
  <2> DEFINE m == run.pending[run.i]
             on == [Moved EXCEPT !.pc = "prepare", !.i = @ + 1]
  <2>1. run.pc = "renamed" /\ run.pc \notin Undoing /\ run.pc \in Forward
    BY <1>10 DEF RecordLoser, At, Undoing, Forward
  <2>2. Moved \in Runs /\ Moved.g = run.g /\ Moved.i = run.i /\ Moved.ahead = run.ahead
        /\ Undo(Moved) \in Runs
    BY <1>a, <2>1, MovedPlaced DEF Placed
  <2>3. Undo(Moved).pc = "undo" /\ Undo(Moved).g = run.g /\ Undo(Moved).ahead = run.ahead
    BY <2>2 DEF Undo, Runs
  <2>4. on \in Runs /\ on.pc = "prepare" /\ on.ahead = run.ahead
    BY <1>n, <2>2 DEF Runs, Phases
  <2> HIDE DEF m, on
  <2>5. \/ GoesTo(Rollback) \/ IoFails("read", Rollback) \/ Logs("member-completed", m, on)
        \/ LogFails("member-completed", m, Undo(Moved))
    BY <1>10 DEF RecordLoser, m, on
  <2>6. CASE GoesTo(Rollback) \/ IoFails("read", Rollback)
    BY <1>a, <1>0, <1>b, <1>f, <1>s, <2>1, <2>6 DEF Journalled, GoesTo, IoFails, Undoing
  <2>7. CASE ~(GoesTo(Rollback) \/ IoFails("read", Rollback))
    BY <1>a, <1>0, <1>f, <1>s, <2>1, <2>2, <2>3, <2>4, <2>5, <2>7, ForwardJournalled DEF Undoing
  <2> QED
    BY <2>6, <2>7
<1>11. CASE CompleteGroup
  <2>1. run.pc = "prepare" /\ run.pc \notin Undoing /\ run.pc \in Forward
    BY <1>11 DEF CompleteGroup, At, Undoing, Forward
  <2>2. To("recorded").pc = "recorded" /\ To("recorded").ahead = run.ahead
    BY <1>p DEF Phases
  <2>3. CASE Logs("group-completed", {}, To("recorded"))
    <3>1. journal'.file = "readable" /\ run' = To("recorded")
      BY <1>a, <1>0, <1>f, <2>1, <2>3, KnownLogs DEF Logs
    <3> QED
      BY <1>0, <1>f, <2>1, <2>2, <3>1 DEF Journalled, Undoing
  <2>4. CASE LogFails("group-completed", {}, Rollback)
    <3>1. CASE run' = Rollback /\ UNCHANGED journal
      BY <1>0, <1>b, <1>f, <1>s, <2>1, <3>1 DEF Journalled, Undoing
    <3>2. CASE run' = Rollback /\ journal' = [journal EXCEPT !.file = "unreadable"]
      <4>1. journal'.file = "unreadable"
        BY <1>a, <3>2 DEF QuarantineTypeOK, Journals
      <4> QED
        BY <1>0, <1>b, <1>f, <1>s, <2>1, <3>2, <4>1 DEF Journalled, Undoing, Trusted
    <3>3. CASE run' = [Rollback EXCEPT !.ahead = Rollback.pc # "idle"]
      <4>1. run'.pc = "undo" /\ run'.ahead = TRUE
        BY <1>b, <1>s, <2>1, <3>3 DEF Runs
      <4> QED
        BY <4>1 DEF Journalled, Undoing
    <3>4. CASE run' = Idle
      BY <1>i, <3>4 DEF Journalled, Undoing
    <3> QED
      BY <2>4, <3>1, <3>2, <3>3, <3>4 DEF LogFails
  <2> QED
    BY <1>11, <2>3, <2>4 DEF CompleteGroup
<1>12. CASE UndoLoser
  <2> DEFINE m == run.moved[run.i]
  <2>1. run.pc \in Undoing /\ run.i \in 1..Len(run.moved)
    BY <1>12 DEF UndoLoser, At, Undoing
  <2>2. CASE Logs("member-rollback-started", m, To("undo-rename"))
    <3>1. /\ To("undo-rename").pc = "undo-rename" /\ To("undo-rename").g = run.g
          /\ To("undo-rename").ahead = run.ahead
      BY <1>p DEF Phases
    <3>2. run' = To("undo-rename") /\ journal'.groups = journal.groups
      BY <1>a, <2>2, Recorded DEF Logs
    <3>3. run.ahead => journal'.file = "unreadable"
      BY <1>a, <2>2, AheadLogs
    <3> QED
      BY <1>a, <1>t, <2>1, <3>1, <3>2, <3>3 DEF Journalled, Undoing
  <2>3. CASE \/ LogFails("member-rollback-started", m, NextUndo) \/ GoesTo(NextUndo)
             \/ IoFails("read", NextUndo)
    BY <1>a, <1>t, <1>u, <2>1, <2>3, UndoJournalled
  <2> QED
    BY <1>12, <2>2, <2>3 DEF UndoLoser
<1>13. CASE UndoRename
  <2>1. run.pc \in Undoing /\ run.i \in 1..Len(run.moved)
    BY <1>13, <1>a DEF UndoRename, At, Undoing, Placed
  <2>2. /\ To("undone") \in Runs /\ To("undone").pc = "undone" /\ To("undone").g = run.g
        /\ To("undone").ahead = run.ahead
    BY <1>p DEF Phases
  <2>3. GoesTo(To("undone")) \/ GoesTo(NextUndo) \/ IoFails("io", NextUndo)
    BY <1>13 DEF UndoRename
  <2> QED
    BY <1>a, <1>t, <1>u, <2>1, <2>2, <2>3, UndoJournalled
<1>14. CASE RecordUndo
  <2> DEFINE m == run.moved[run.i]
  <2>1. run.pc \in Undoing /\ run.i \in 1..Len(run.moved)
    BY <1>14, <1>a DEF RecordUndo, At, Undoing, Placed
  <2>2. \/ GoesTo(NextUndo) \/ IoFails("read", NextUndo)
        \/ Logs("member-rollback-completed", m, NextUndo)
        \/ LogFails("member-rollback-completed", m, NextUndo)
    BY <1>14 DEF RecordUndo
  <2> QED
    BY <1>a, <1>t, <1>u, <2>1, <2>2, UndoJournalled
<1>15. CASE FailGroup
  <2>1. run'.pc = "idle" /\ ~run'.ahead
    BY <1>15, <1>i DEF FailGroup, Logs, LogFails, Idle
  <2> QED
    BY <2>1 DEF Journalled, Undoing
<1>16. CASE LeaveGroup
  <2> DEFINE on == [run EXCEPT !.pc = "group", !.g = @ + 1]
  <2>1. run.pc = "recorded" /\ run.pc \notin Undoing
    BY <1>16 DEF LeaveGroup, At, Undoing
  <2>2. on.pc = "group" /\ on.ahead = run.ahead
    BY <1>a DEF Runs
  <2> HIDE DEF on
  <2>3. GoesTo(on)
    BY <1>16 DEF LeaveGroup, on
  <2> QED
    BY <1>a, <1>0, <1>f, <2>1, <2>2, <2>3 DEF Journalled, GoesTo, Undoing
<1>17. CASE Crash
  BY <1>17, <1>i DEF Crash, Journalled, Undoing
<1>18. CASE Interrupt
  <2>1. ~Trusted'
    BY <1>18 DEF Interrupt, Fault, Strike, Trusted
  <2>2. run.pc \in Guarded => Rollback.pc = "undo"
    BY <1>a, <1>b DEF Guarded, Placed
  <2>3. run.pc = "renamed" => Undo(Moved).pc = "undo"
    BY <1>a, MovedPlaced, UndoPlaced DEF Placed
  <2>4. run'.pc = "undo" \/ run' = Idle
    BY <1>18, <2>2, <2>3 DEF Interrupt, At
  <2> QED
    BY <1>i, <2>1, <2>4 DEF Journalled, Undoing
<1> QED
  BY <1>1, <1>2, <1>3, <1>4, <1>5, <1>6, <1>7, <1>8, <1>9, <1>10, <1>11,
     <1>12, <1>13, <1>14, <1>15, <1>16, <1>17, <1>18 DEF QuarantineStep

-------------------------------------------------------------------------------
(* The groups stay in order. *)

LEMMA GroupsDisjoint ==
  ASSUME NEW g \in GroupIds, NEW h \in GroupIds, g # h
  PROVE  InGroup(g) \cap InGroup(h) = {}
BY PlanAssumption DEF InGroup

\* A group that is through: nothing of it is left to be moved.
LEMMA GroupThrough ==
  ASSUME Placed(run), NEW a, NEW d, NEW G, Fits(run, a, d, G), At("prepare"),
         run.i = Len(run.pending) + 1
  PROVE  InGroup(run.g) \subseteq a
<1>1. \A m \in InGroup(run.g) : m \in a \/ ToMove(run, run.i, m)
  BY DEF Fits, Remaining, At
<1>2. Len(run.pending) \in Nat
  BY RunType DEF Placed
<1> QED
  BY <1>1, <1>2 DEF ToMove

\* A group is recorded as completed, and perhaps undone all the same.
LEMMA CompleteFits ==
  ASSUME OrderInv, CompleteGroup
  PROVE  Fits(run', Away, AtDest, journal'.groups) /\ InOrder(Away, AtDest, journal'.groups)
<1> DEFINE G == journal.groups
           H == journal.groups \cup {run.g}
           a == Away
           d == AtDest
<1>a. /\ QuarantineTypeOK /\ Journalled /\ Fits(run, a, d, G) /\ InOrder(a, d, G)
      /\ run.pc = "prepare" /\ run.g \in GroupIds /\ run \in Runs /\ Placed(run)
      /\ At("prepare") /\ run.i = Len(run.pending) + 1
  BY DEF OrderInv, QuarantineTypeInv, CompleteGroup, At, Placed
<1>b. InGroup(run.g) \subseteq a
  BY <1>a, GroupThrough
<1>c. /\ \A k \in 1..Len(run.pending) : run.pending[k] \in InGroup(run.g)
      /\ \A k \in 1..Len(run.moved) : run.moved[k] \in InGroup(run.g)
      /\ run.g >= 1 /\ (\A h \in GroupIds : h < run.g => Behind(h, a, G))
      /\ (\A h \in GroupIds : h > run.g => ~Reached(h, d, G))
  BY <1>a DEF Fits, Lists, InTurn
<1>n. run.g \in Nat /\ GroupIds \subseteq Nat
  BY <1>a, RunType DEF GroupIds
<1> HIDE DEF a, d
<1>d. /\ \A h \in GroupIds : h < run.g => Behind(h, a, H)
      /\ \A h \in GroupIds : h > run.g => ~Reached(h, d, H)
      /\ Behind(run.g, a, H)
  BY <1>b, <1>c, <1>n DEF Behind, Reached
<1>1. ASSUME NEW K \in {G, H}
      PROVE  Fits(Rollback, a, d, K)
  <2>1. /\ \A h \in GroupIds : h < run.g => Behind(h, a, K)
        /\ \A h \in GroupIds : h > run.g => ~Reached(h, d, K)
    BY <1>c, <1>d
  <2> HIDE DEF G, H
  <2> QED
    BY <1>a, <1>c, <2>1, UndoFits DEF Rollback
<1>2. Fits(To("recorded"), a, d, H)
  <2>1. To("recorded") \in Runs /\ To("recorded").pc = "recorded"
    BY <1>a DEF To, Runs, Phases
  <2>2. /\ To("recorded").g = run.g /\ To("recorded").pending = run.pending
        /\ To("recorded").moved = run.moved
    BY <1>a DEF To, Runs
  <2> HIDE DEF H
  <2> QED
    BY <1>c, <1>d, <2>1, <2>2 DEF Fits, Lists, Remaining, InTurn, Forward
<1>3. InOrder(a, d, G) /\ InOrder(a, d, H)
  <2>1. ASSUME NEW g \in GroupIds, NEW h \in GroupIds, g < h, Reached(h, d, H)
        PROVE  Behind(g, a, H)
    <3>1. CASE h = run.g
      BY <1>d, <2>1, <3>1
    <3>2. CASE h # run.g
      BY <1>a, <2>1, <3>2 DEF InOrder, Reached, Behind
    <3> QED
      BY <3>1, <3>2
  <2> HIDE DEF G, H
  <2> QED
    BY <1>a, <2>1 DEF InOrder
<1>4. CASE Logs("group-completed", {}, To("recorded"))
  <2>1. journal'.groups = H /\ run' = To("recorded")
    BY <1>4, <1>a, KnownLogs DEF Journalled, Undoing, Logs
  <2> QED
    BY <1>2, <1>3, <2>1 DEF a, d
<1>5. CASE LogFails("group-completed", {}, Rollback)
  <2>1. journal'.groups \in {G, H}
    BY <1>5, <1>a, Recorded
  <2>2. Fits(Rollback, a, d, journal'.groups) /\ Fits(Idle, a, d, journal'.groups)
    BY <1>1, <2>1, IdleFits
  <2>3. Fits(run', a, d, journal'.groups)
    BY <1>5, <2>2, StepFits
  <2> QED
    BY <1>3, <2>1, <2>3 DEF a, d
<1> QED
  BY <1>4, <1>5 DEF CompleteGroup

\* A rename of a loser of the loop's group keeps the order of the groups.
LEMMA RenameFits ==
  ASSUME Placed(run), NEW a, NEW d, NEW G, Fits(run, a, d, G), InOrder(a, d, G), At("rename")
  PROVE  LET m == run.pending[run.i]
         IN  /\ Fits(To("renamed"), a \cup {m}, d \cup {m}, G)
             /\ InOrder(a \cup {m}, d \cup {m}, G)
<1> DEFINE m == run.pending[run.i]
           b == a \cup {m}
           e == d \cup {m}
<1>a. /\ run.pc = "rename" /\ run.g \in GroupIds /\ run \in Runs
      /\ run.i \in 1..Len(run.pending)
  BY DEF At, Placed
<1>b. /\ \A k \in 1..Len(run.pending) : run.pending[k] \in InGroup(run.g)
      /\ \A k \in 1..Len(run.moved) : run.moved[k] \in InGroup(run.g)
      /\ run.g >= 1 /\ (\A h \in GroupIds : h < run.g => Behind(h, a, G))
      /\ (\A h \in GroupIds : h > run.g => ~Reached(h, d, G)) /\ run.g \notin G
      /\ \A n \in InGroup(run.g) : n \in a \/ ToMove(run, run.i, n)
  BY <1>a DEF Fits, Lists, InTurn, Forward, Remaining
<1>c. m \in InGroup(run.g) /\ run.i \in Nat /\ Len(run.pending) \in Nat
  BY <1>a, <1>b, RunType
<1>n. run.g \in Nat /\ GroupIds \subseteq Nat
  BY <1>a, RunType DEF GroupIds
<1>e. \A h \in GroupIds : h # run.g => m \notin InGroup(h)
  BY <1>a, <1>c, GroupsDisjoint
<1>1. /\ \A h \in GroupIds : Behind(h, a, G) => Behind(h, b, G)
      /\ \A h \in GroupIds : h # run.g /\ Reached(h, e, G) => Reached(h, d, G)
  BY <1>e DEF Behind, Reached
<1>3. To("renamed") \in Runs /\ To("renamed").pc = "renamed"
  BY <1>a DEF To, Runs, Phases
<1>4. /\ To("renamed").g = run.g /\ To("renamed").pending = run.pending
      /\ To("renamed").moved = run.moved /\ To("renamed").i = run.i
  BY <1>a DEF To, Runs
<1>5. ASSUME NEW n \in InGroup(run.g)
      PROVE  n \in b \/ ToMove(To("renamed"), run.i + 1, n)
  <2>1. CASE n = m
    BY <2>1
  <2>2. CASE n # m
    <3>1. ToMove(run, run.i, n) => ToMove(To("renamed"), run.i + 1, n)
      BY <1>c, <1>4, <2>2 DEF ToMove
    <3> QED
      BY <1>b, <3>1
  <2> QED
    BY <2>1, <2>2
<1> HIDE DEF b, e, m
<1>6. Fits(To("renamed"), b, e, G)
  <2>1. Remaining(To("renamed"), b)
    BY <1>3, <1>4, <1>5 DEF Remaining
  <2>2. InTurn(To("renamed"), b, e, G)
    BY <1>b, <1>n, <1>1, <1>3, <1>4 DEF InTurn
  <2> QED
    BY <1>b, <1>3, <1>4, <2>1, <2>2 DEF Fits, Lists
<1>7. ASSUME NEW g \in GroupIds, NEW h \in GroupIds, g < h, Reached(h, e, G)
      PROVE  Behind(g, b, G)
  <2>1. CASE h = run.g
    BY <1>b, <1>1, <1>7, <2>1
  <2>2. CASE h # run.g
    BY <1>1, <1>7, <2>2 DEF InOrder
  <2> QED
    BY <2>1, <2>2
<1>8. InOrder(b, e, G)
  BY <1>7 DEF InOrder
<1> QED
  BY <1>6, <1>8 DEF b, e, m

\* So does a loser that goes back, as no group after its own was reached.
LEMMA UndoRenameFits ==
  ASSUME Placed(run), NEW a, NEW d, NEW G, Fits(run, a, d, G), InOrder(a, d, G),
         At("undo-rename")
  PROVE  LET m == run.moved[run.i]
         IN  /\ Fits(To("undone"), a \ {m}, d \ {m}, G)
             /\ InOrder(a \ {m}, d \ {m}, G)
<1> DEFINE m == run.moved[run.i]
           b == a \ {m}
           e == d \ {m}
<1>a. /\ run.pc = "undo-rename" /\ run.g \in GroupIds /\ run \in Runs
      /\ run.i \in 1..Len(run.moved)
  BY DEF At, Placed
<1>b. /\ \A k \in 1..Len(run.pending) : run.pending[k] \in InGroup(run.g)
      /\ \A k \in 1..Len(run.moved) : run.moved[k] \in InGroup(run.g)
      /\ run.g >= 1 /\ (\A h \in GroupIds : h < run.g => Behind(h, a, G))
      /\ (\A h \in GroupIds : h > run.g => ~Reached(h, d, G))
  BY <1>a DEF Fits, Lists, InTurn
<1>c. m \in InGroup(run.g)
  BY <1>a, <1>b
<1>n. run.g \in Nat /\ GroupIds \subseteq Nat
  BY <1>a, RunType DEF GroupIds
<1>e. \A h \in GroupIds : h # run.g => m \notin InGroup(h)
  BY <1>a, <1>c, GroupsDisjoint
<1>1. /\ \A h \in GroupIds : h # run.g /\ Behind(h, a, G) => Behind(h, b, G)
      /\ \A h \in GroupIds : Reached(h, e, G) => Reached(h, d, G)
  BY <1>e DEF Behind, Reached
<1>3. To("undone") \in Runs /\ To("undone").pc = "undone"
  BY <1>a DEF To, Runs, Phases
<1>4. /\ To("undone").g = run.g /\ To("undone").pending = run.pending
      /\ To("undone").moved = run.moved
  BY <1>a DEF To, Runs
<1> HIDE DEF b, e, m
<1>5. Fits(To("undone"), b, e, G)
  BY <1>b, <1>n, <1>1, <1>3, <1>4 DEF Fits, Lists, Remaining, InTurn, Forward
<1>6. ASSUME NEW g \in GroupIds, NEW h \in GroupIds, g < h, Reached(h, e, G)
      PROVE  Behind(g, b, G)
  <2>1. Reached(h, d, G) /\ Behind(g, a, G)
    BY <1>1, <1>6 DEF InOrder
  <2>2. g # run.g
    BY <1>b, <1>n, <1>6, <2>1
  <2> QED
    BY <1>1, <2>1, <2>2
<1>7. InOrder(b, e, G)
  BY <1>6 DEF InOrder
<1> QED
  BY <1>5, <1>7 DEF b, e, m

\* Every step of a running process keeps the order of the groups.
LEMMA QuarantineStepFits ==
  ASSUME OrderInv, QuarantineStep, NothingMissed'
  PROVE  /\ Copies' /\ Fits(run', Away', AtDest', journal'.groups)
         /\ InOrder(Away', AtDest', journal'.groups)
<1> DEFINE G == journal.groups
           a == Away
           d == AtDest
<1>a. /\ QuarantineTypeOK /\ FilesTypeOK /\ Copies /\ Placed(run) /\ run \in Runs
      /\ Fits(run, a, d, G) /\ InOrder(a, d, G) /\ InTurn(run, a, d, G)
      /\ run.pc \notin {"idle", "group"} => run.g \in GroupIds
  BY DEF OrderInv, QuarantineTypeInv, QuarantineTypeOK, Placed, Fits
<1>n. /\ run.g \in Nat /\ run.i \in Nat /\ Len(run.pending) \in Nat /\ Len(run.moved) \in Nat
      /\ run.g + 1 \in Nat /\ GroupIds \subseteq Nat
  BY <1>a, RunType DEF GroupIds
<1>i. Fits(Idle, a, d, G)
  BY IdleFits
<1>s. ASSUME UNCHANGED <<src, dst>>, ~CompleteGroup, Fits(run', a, d, G)
      PROVE  /\ Copies' /\ Fits(run', Away', AtDest', journal'.groups)
             /\ InOrder(Away', AtDest', journal'.groups)
  <2>1. Copies' /\ Away' = a /\ AtDest' = d /\ journal'.groups = G
    BY <1>a, <1>s, OthersRecordNothing, SameSets
  <2> QED
    BY <1>a, <1>s, <2>1
<1> HIDE DEF a, d
<1>b. run.pc \notin {"idle", "group"} => Fits(Rollback, a, d, G)
  BY <1>a, RollbackFits
<1>f. UNCHANGED files => UNCHANGED <<src, dst>>
  BY DEF files
<1>1. CASE SkipGroup
  <2> DEFINE next == [run EXCEPT !.g = @ + 1]
  <2>1. next \in Runs
    BY <1>a, <1>n DEF Runs
  <2>2. next.pc = "group" /\ next.g = run.g + 1 /\ run.pc = "group" /\ run.g \in G
    BY <1>1, <1>a DEF SkipGroup, At, Runs
  <2> HIDE DEF next
  <2>3. ASSUME \A m \in InGroup(run.g) : Quarantined(m)
        PROVE  Fits(next, a, d, G)
    <3>1. run.g \in GroupIds
      BY <1>a, <2>2 DEF QuarantineTypeOK, Journals
    <3>2. InGroup(run.g) \subseteq Members
      BY <3>1, GroupType DEF InGroup
    <3>3. InGroup(run.g) \subseteq a
      BY <2>3, <3>2, SeenAway DEF a
    <3>4. \A h \in GroupIds : h < run.g + 1 => Behind(h, a, G)
      BY <1>a, <1>n, <2>2, <3>3 DEF InTurn, Behind
    <3>5. run.g + 1 >= 1
      BY <1>n
    <3> QED
      BY <2>1, <2>2, <3>4, <3>5 DEF Fits, Lists, Remaining, InTurn, Forward
  <2>4. ((\A m \in InGroup(run.g) : Quarantined(m)) /\ GoesTo(next)) \/ GoesTo(Idle)
          \/ IoFails("read", Idle)
    BY <1>1 DEF SkipGroup, next
  <2>5. Fits(run', a, d, G)
    BY <1>i, <2>3, <2>4 DEF GoesTo, IoFails
  <2> QED
    BY <1>1, <1>f, <1>s, <2>2, <2>5 DEF SkipGroup, CompleteGroup, At
<1>2. CASE EnterGroup
  <2>1. <<>> \in Seq(Members) /\ "scan" \in Phases /\ 1 \in Nat
    BY DEF Phases
  <2>2. Entered \in Runs
    BY <1>a, <2>1 DEF Entered, Runs
  <2>3. Entered.pc = "scan" /\ Entered.g = run.g /\ Entered.i = 1 /\ Entered.pending = <<>>
        /\ Entered.moved = <<>>
    BY <1>a DEF Entered, Runs
  <2>4. run.g \in GroupIds /\ Len(Plan[run.g]) \in Nat /\ run.g \notin G /\ run.pc = "group"
    BY <1>2, GroupType DEF EnterGroup, At
  <2>5. Lists(Entered) /\ Remaining(Entered, a)
    BY <2>3, <2>4 DEF Lists, Remaining
  <2>6. \A h \in GroupIds : h > run.g => ~Reached(h, d, G)
    BY <1>a, <1>n, <2>4 DEF InOrder, Behind
  <2>7. InTurn(Entered, a, d, G)
    BY <1>a, <2>3, <2>4, <2>6 DEF InTurn
  <2>8. Fits(run', a, d, G)
    BY <1>2, <1>i, <2>2, <2>5, <2>7 DEF EnterGroup, GoesTo, IoFails, Fits
  <2> QED
    BY <1>2, <1>f, <1>s, <2>4, <2>8 DEF EnterGroup, CompleteGroup, At
<1>3. CASE ScanLoser
  <2> DEFINE m == Plan[run.g][run.i]
             done == [run EXCEPT !.i = @ + 1]
             toDo == [run EXCEPT !.i = @ + 1, !.pending = Append(@, m)]
  <2>1. At("scan") /\ run.i \in 1..Len(Plan[run.g]) /\ UNCHANGED files /\ run.g \in GroupIds
    BY <1>3, <1>a DEF ScanLoser, At
  <2>2. (m \in a => Fits(done, a, d, G)) /\ Fits(toDo, a, d, G)
    BY <1>a, <2>1, ScanFits
  <2>3. m \in Members
    BY <2>1, GroupType
  <2>4. Adoptable(m) \/ Quarantined(m) \/ AlreadyAbsent(m) => m \in a
    BY <2>3, SeenAway DEF Adoptable, a
  <2> HIDE DEF m, done, toDo
  <2>5. \/ GoesTo(toDo) \/ GoesTo(Idle) \/ IoFails("read", Idle)
        \/ (Quarantined(m) \/ AlreadyAbsent(m)) /\ GoesTo(done)
        \/ /\ Adoptable(m) \/ AlreadyAbsent(m)
           /\ Logs("member-completed", m, done) \/ LogFails("member-completed", m, Idle)
    BY <1>3, MissesRemembered DEF ScanLoser, IoFails, LogsAmid, m, done, toDo
  <2>6. Fits(run', a, d, G)
    BY <1>i, <2>2, <2>4, <2>5, StepFits
  <2> QED
    BY <1>f, <1>s, <2>1, <2>6 DEF CompleteGroup, At
<1>4. CASE BeginGroup
  <2>1. run.pc = "scan" /\ run.i = Len(Plan[run.g]) + 1 /\ run.g \in GroupIds
    BY <1>4, <1>a DEF BeginGroup, At
  <2>2. Len(Plan[run.g]) \in Nat
    BY <2>1, GroupType
  <2>3. \A m \in InGroup(run.g) : m \in a \/ ToMove(run, 1, m)
    BY <1>a, <2>1, <2>2 DEF Fits, Remaining, InGroup
  <2>4. To("validate") \in Runs /\ To("validate").pc = "validate"
    BY <1>a DEF To, Runs, Phases
  <2>5. To("validate").g = run.g /\ To("validate").pending = run.pending
        /\ To("validate").moved = run.moved
    BY <1>a DEF To, Runs
  <2>6. Fits(To("validate"), a, d, G)
    BY <1>a, <2>1, <2>3, <2>4, <2>5 DEF Fits, Lists, Remaining, ToMove, InTurn, Forward
  <2>7. Fits(run', a, d, G)
    BY <1>4, <1>i, <2>6, StepFits DEF BeginGroup
  <2> QED
    BY <1>4, <1>f, <1>s, <2>1, <2>7 DEF BeginGroup, CompleteGroup, At
<1>5. CASE FinishQuarantine
  <2>1. Fits(run', a, d, G)
    BY <1>5, <1>i, StepFits DEF FinishQuarantine
  <2> QED
    BY <1>5, <1>f, <1>s, <2>1 DEF FinishQuarantine, CompleteGroup, At
<1>6. CASE ValidateGroup
  <2> DEFINE next == [run EXCEPT !.pc = "prepare", !.i = 1]
  <2>1. run.pc = "validate"
    BY <1>6 DEF ValidateGroup, At
  <2>2. next \in Runs
    BY <1>a DEF Runs, Phases
  <2>3. next.pc = "prepare" /\ next.g = run.g /\ next.pending = run.pending /\ next.i = 1
        /\ next.moved = run.moved
    BY <1>a DEF Runs
  <2> HIDE DEF next
  <2>4. Fits(next, a, d, G)
    BY <1>a, <2>1, <2>2, <2>3 DEF Fits, Lists, Remaining, ToMove, InTurn, Forward
  <2>5. GoesTo(next) \/ GoesTo(Rollback) \/ IoFails("io", Rollback) \/ IoFails("read", Rollback)
    BY <1>6 DEF ValidateGroup, next
  <2>6. Fits(run', a, d, G)
    BY <1>b, <2>1, <2>4, <2>5, StepFits
  <2> QED
    BY <1>6, <1>f, <1>s, <2>1, <2>6 DEF ValidateGroup, CompleteGroup, At
<1>7. CASE PrepareLoser
  <2>1. run.pc = "prepare" /\ run.i \in 1..Len(run.pending)
    BY <1>7 DEF PrepareLoser, At
  <2>2. Fits(To("mkdir"), a, d, G) /\ Fits(To("rename"), a, d, G) /\ Fits(Rollback, a, d, G)
    BY <1>a, <1>b, <2>1, ToFits
  <2>3. \E event, m :
          \/ Logs(event, m, To("mkdir")) \/ Logs(event, m, To("rename"))
          \/ Logs(event, m, Rollback) \/ LogFails(event, m, Rollback) \/ GoesTo(Rollback)
          \/ LogsAmid("read", event, m, Rollback)
    BY <1>7 DEF PrepareLoser, Announce
  <2>4. Fits(run', a, d, G)
    BY <2>2, <2>3, StepFits
  <2>5. ~CompleteGroup
    BY <1>n, <2>1 DEF CompleteGroup
  <2> QED
    BY <1>7, <1>f, <1>s, <2>4, <2>5 DEF PrepareLoser
<1>8. CASE MakeQuarantineParent
  <2>1. run.pc = "mkdir" /\ UNCHANGED <<src, dst>>
    BY <1>8, <1>f DEF MakeQuarantineParent, At, MakeDir
  <2>2. Fits(To("prepare"), a, d, G) /\ Fits(Rollback, a, d, G)
    BY <1>a, <1>b, <2>1, ToFits
  <2>3. \E event, m :
          \/ Logs(event, m, To("prepare"))
          \/ LogFails(event, m, Rollback) \/ GoesTo(Rollback)
          \/ IoFails("io", Rollback)
    BY <1>8 DEF MakeQuarantineParent
  <2>4. Fits(run', a, d, G)
    BY <2>2, <2>3, StepFits
  <2> QED
    BY <1>s, <2>1, <2>4 DEF CompleteGroup, At
<1>9. CASE RenameLoser
  <2> DEFINE m == run.pending[run.i]
  <2>1. run.pc = "rename" /\ At("rename") /\ m \in Members
    BY <1>9, <1>a, RunType DEF RenameLoser, At, Placed
  <2>2. CASE MoveOut(m) /\ GoesTo(To("renamed"))
    <3>1. Copies' /\ Away' = a \cup {m} /\ AtDest' = d \cup {m}
      BY <1>a, <2>1, <2>2, RenamedSets DEF a, d
    <3>2. /\ Fits(To("renamed"), a \cup {m}, d \cup {m}, G)
          /\ InOrder(a \cup {m}, d \cup {m}, G)
      BY <1>a, <2>1, RenameFits
    <3>3. run' = To("renamed") /\ journal'.groups = G
      BY <2>2 DEF GoesTo
    <3> QED
      BY <3>1, <3>2, <3>3
  <2>3. CASE UNCHANGED files /\ (GoesTo(Rollback) \/ IoFails("io", Rollback))
    <3>1. Fits(run', a, d, G)
      BY <1>b, <2>1, <2>3, StepFits
    <3> QED
      BY <1>f, <1>s, <2>1, <2>3, <3>1 DEF CompleteGroup, At
  <2> QED
    BY <1>9, <2>2, <2>3 DEF RenameLoser
<1>10. CASE RecordLoser
  <2> DEFINE m == run.pending[run.i]
             on == [Moved EXCEPT !.pc = "prepare", !.i = @ + 1]
  <2>1. Fits(Undo(Moved), a, d, G) /\ Fits(on, a, d, G) /\ run.pc = "renamed"
    BY <1>10, <1>a, MovedFits DEF RecordLoser, At
  <2> HIDE DEF on
  <2>2. \/ Logs("member-completed", m, on) \/ LogFails("member-completed", m, Undo(Moved))
        \/ GoesTo(Rollback) \/ IoFails("read", Rollback)
    BY <1>10 DEF RecordLoser, on
  <2>3. Fits(run', a, d, G)
    BY <1>b, <2>1, <2>2, StepFits
  <2> QED
    BY <1>10, <1>f, <1>s, <2>1, <2>3 DEF RecordLoser, CompleteGroup, At
<1>11. CASE CompleteGroup
  <2>1. UNCHANGED <<src, dst>>
    BY <1>11, <1>f DEF CompleteGroup
  <2> QED
    BY <1>11, <1>a, <2>1, CompleteFits, SameSets
<1>12. CASE UndoLoser
  <2> DEFINE m == run.moved[run.i]
  <2>1. run.pc = "undo" /\ run.pc \in Undoing /\ run.i \in 1..Len(run.moved)
    BY <1>12 DEF UndoLoser, At, Undoing
  <2>2. Fits(NextUndo, a, d, G) /\ Fits(To("undo-rename"), a, d, G)
    BY <1>a, <2>1, NextUndoFits, ToFits DEF Undoing
  <2>3. \/ GoesTo(NextUndo) \/ IoFails("read", NextUndo)
        \/ Logs("member-rollback-started", m, To("undo-rename"))
        \/ LogFails("member-rollback-started", m, NextUndo)
    BY <1>12 DEF UndoLoser
  <2>4. Fits(run', a, d, G)
    BY <2>2, <2>3, StepFits
  <2> QED
    BY <1>12, <1>f, <1>s, <2>1, <2>4 DEF UndoLoser, CompleteGroup, At
<1>13. CASE UndoRename
  <2> DEFINE m == run.moved[run.i]
  <2>1. run.pc = "undo-rename" /\ At("undo-rename") /\ run.i \in 1..Len(run.moved)
        /\ m \in Members
    BY <1>13, <1>a, RunType DEF UndoRename, At, Placed
  <2>2. CASE MoveBack(m) /\ GoesTo(To("undone"))
    <3>1. Copies' /\ Away' = a \ {m} /\ AtDest' = d \ {m}
      BY <1>a, <2>1, <2>2, RenamedBackSets DEF a, d
    <3>2. /\ Fits(To("undone"), a \ {m}, d \ {m}, G)
          /\ InOrder(a \ {m}, d \ {m}, G)
      BY <1>a, <2>1, UndoRenameFits
    <3>3. run' = To("undone") /\ journal'.groups = G
      BY <2>2 DEF GoesTo
    <3> QED
      BY <3>1, <3>2, <3>3
  <2>3. CASE UNCHANGED files /\ (GoesTo(NextUndo) \/ IoFails("io", NextUndo))
    <3>1. Fits(run', a, d, G)
      BY <1>a, <2>1, <2>3, NextUndoFits, StepFits DEF Undoing
    <3> QED
      BY <1>f, <1>s, <2>1, <2>3, <3>1 DEF CompleteGroup, At
  <2> QED
    BY <1>13, <2>2, <2>3 DEF UndoRename
<1>14. CASE RecordUndo
  <2> DEFINE m == run.moved[run.i]
  <2>1. run.pc = "undone" /\ run.pc \in Undoing /\ run.i \in 1..Len(run.moved)
    BY <1>14, <1>a DEF RecordUndo, At, Undoing, Placed
  <2>2. Fits(NextUndo, a, d, G)
    BY <1>a, <2>1, NextUndoFits
  <2>3. \/ GoesTo(NextUndo) \/ IoFails("read", NextUndo)
        \/ Logs("member-rollback-completed", m, NextUndo)
        \/ LogFails("member-rollback-completed", m, NextUndo)
    BY <1>14 DEF RecordUndo
  <2>4. Fits(run', a, d, G)
    BY <2>2, <2>3, StepFits
  <2> QED
    BY <1>14, <1>f, <1>s, <2>1, <2>4 DEF RecordUndo, CompleteGroup, At
<1>15. CASE FailGroup
  <2>1. Fits(run', a, d, G)
    BY <1>15, <1>i, StepFits DEF FailGroup
  <2> QED
    BY <1>15, <1>f, <1>s, <2>1 DEF FailGroup, CompleteGroup, At
<1>16. CASE LeaveGroup
  <2> DEFINE on == [run EXCEPT !.pc = "group", !.g = @ + 1]
  <2>1. on \in Runs /\ on.pc = "group" /\ on.g = run.g + 1 /\ run.pc = "recorded"
    BY <1>16, <1>a, <1>n DEF Runs, Phases, LeaveGroup, At
  <2> HIDE DEF on
  <2>2. \A h \in GroupIds : h < run.g + 1 => Behind(h, a, G)
    BY <1>a, <1>n, <2>1 DEF InTurn
  <2>3. run.g + 1 >= 1
    BY <1>n
  <2>4. Fits(on, a, d, G)
    BY <2>1, <2>2, <2>3 DEF Fits, Lists, Remaining, InTurn, Forward
  <2>5. GoesTo(on)
    BY <1>16 DEF LeaveGroup, on
  <2>6. Fits(run', a, d, G)
    BY <2>4, <2>5 DEF GoesTo
  <2> QED
    BY <1>16, <1>f, <1>s, <2>1, <2>6 DEF LeaveGroup, CompleteGroup, At
<1>17. CASE Crash
  <2>1. Fits(run', a, d, G) /\ UNCHANGED <<src, dst>> /\ ~UNCHANGED faults
    BY <1>17, <1>f, <1>i, <1>a DEF Crash, Fault, Strike, QuarantineTypeOK, FaultRecords
  <2>2. journal'.groups = G
    BY <1>17 DEF Crash
  <2> QED
    BY <1>a, <2>1, <2>2, SameSets DEF a, d
<1>18. CASE Interrupt
  <2>1. UNCHANGED <<src, dst>> /\ journal'.groups = G
    BY <1>18, <1>f DEF Interrupt
  <2>2. Fits(run', a, d, G)
    <3>1. CASE run.pc \in Guarded /\ run' = Rollback
      BY <1>b, <3>1 DEF Guarded
    <3>2. CASE At("renamed") /\ run' = Undo(Moved)
      BY <1>a, <3>2, MovedFits
    <3>3. CASE run' = Idle
      BY <1>i, <3>3
    <3> QED
      BY <1>18, <3>1, <3>2, <3>3 DEF Interrupt
  <2> QED
    BY <1>a, <2>1, <2>2, SameSets DEF a, d
<1> QED
  BY <1>1, <1>2, <1>3, <1>4, <1>5, <1>6, <1>7, <1>8, <1>9, <1>10, <1>11,
     <1>12, <1>13, <1>14, <1>15, <1>16, <1>17, <1>18 DEF QuarantineStep

\* The order of the groups, with what it rests on, is inductive.
LEMMA OrderInductive ==
  /\ QuarantineInit => OrderInv
  /\ OrderInv /\ [QuarantineNext]_quarantineVars /\ NothingMissed' => OrderInv'
<1>1. ASSUME QuarantineInit
      PROVE  OrderInv
  <2>1. QuarantineTypeInv
    BY <1>1, QuarantineTypeInductive
  <2>2. run = Idle /\ Idle.pc = "idle" /\ Idle.pc \notin Undoing /\ Idle.ahead = FALSE
    BY <1>1 DEF QuarantineInit, Idle, Undoing
  <2>3. Fits(run, Away, AtDest, journal.groups)
    BY <2>2, IdleFits
  <2>4. Copies /\ AtDest = {}
    BY <1>1 DEF QuarantineInit, FilesInit, Copies, AtDest
  <2>5. journal.groups = {} /\ ~journal.done
    BY <1>1 DEF QuarantineInit, NoJournal
  <2>6. InOrder(Away, AtDest, journal.groups)
    BY <2>4, <2>5 DEF InOrder, Reached
  <2>7. Journalled
    BY <2>2 DEF Journalled, Undoing
  <2> QED
    BY <2>1, <2>3, <2>4, <2>5, <2>6, <2>7 DEF OrderInv
<1>2. ASSUME OrderInv, [QuarantineNext]_quarantineVars, NothingMissed'
      PROVE  OrderInv'
  <2>a. /\ QuarantineTypeInv /\ QuarantineTypeOK /\ FilesTypeOK /\ Copies /\ Journalled
        /\ Fits(run, Away, AtDest, journal.groups) /\ InOrder(Away, AtDest, journal.groups)
        /\ (run.pc # "idle" \/ journal.file = "none" => ~journal.done)
    BY <1>2 DEF OrderInv, QuarantineTypeInv, QuarantineTypeOK
  <2>t. QuarantineTypeInv'
    BY <1>2, <2>a, QuarantineTypeInductive
  <2>i. /\ Idle \in Runs /\ Idle.pc = "idle" /\ Idle.ahead = FALSE
        /\ First \in Runs /\ First.pc = "group" /\ First.g = 1 /\ First.ahead = FALSE
    BY IdlePlaced, FirstPlaced DEF Placed, First, Idle, Runs
  <2>f. ASSUME NEW a, NEW d, NEW G
        PROVE  Fits(First, a, d, G)
    <3>1. \A h \in GroupIds : ~(h < 1)
      BY DEF GroupIds
    <3> QED
      BY <2>i, <3>1 DEF Fits, Lists, Remaining, InTurn, Forward
  <2>k. ASSUME UNCHANGED files, Journalled', Fits(run', Away, AtDest, journal.groups),
               journal'.groups = journal.groups,
               run'.pc # "idle" \/ journal'.file = "none" => ~journal'.done
        PROVE  OrderInv'
    <3>1. Copies' /\ Away' = Away /\ AtDest' = AtDest
      BY <2>a, <2>k, SameSets DEF files
    <3>2. Fits(run', Away', AtDest', journal'.groups)
      BY <2>k, <3>1
    <3>3. InOrder(Away', AtDest', journal'.groups)
      BY <2>a, <2>k, <3>1
    <3> QED
      BY <2>k, <2>t, <3>1, <3>2, <3>3 DEF OrderInv, Fits, InOrder
  <2>1. CASE Begin
    <3>1. CASE StartQuarantine
      <4>1. Logs("run-started", {}, First) \/ LogFails("run-started", {}, Idle)
        BY <3>1 DEF StartQuarantine
      <4>2. run.pc = "idle" /\ journal.file = "none" /\ run.pc \notin Undoing
        BY <3>1 DEF StartQuarantine, At, Undoing
      <4>3. journal'.groups = journal.groups /\ journal'.done = journal.done /\ ~journal.done
        BY <2>a, <4>1, <4>2, Recorded
      <4>4. Fits(run', Away, AtDest, journal.groups)
        BY <2>f, <4>1, IdleFits, StepFits
      <4>5. Journalled'
        BY <2>a, <2>i, <4>1, <4>2, ForwardJournalled DEF Undoing
      <4> QED
        BY <2>k, <3>1, <4>3, <4>4, <4>5 DEF StartQuarantine
    <3>2. CASE ResumeQuarantine
      <4>1. run' = First /\ UNCHANGED <<journal, files>> /\ journal.file = "readable" /\ ~journal.done
        BY <3>2 DEF ResumeQuarantine, GoesTo
      <4>2. Journalled'
        BY <2>i, <4>1 DEF Journalled, Undoing
      <4> QED
        BY <2>f, <2>k, <4>1, <4>2
    <3> QED
      BY <2>1, <3>1, <3>2 DEF Begin
  <2>2. CASE QuarantineStep
    <3>1. /\ Copies' /\ Fits(run', Away', AtDest', journal'.groups)
          /\ InOrder(Away', AtDest', journal'.groups)
      BY <1>2, <2>2, QuarantineStepFits
    <3>2. Journalled'
      BY <1>2, <2>2, QuarantineStepJournalled
    <3>3. ~journal.done
      BY <2>2, <2>a DEF QuarantineStep, At
    <3>4. run'.pc # "idle" \/ journal'.file = "none" => ~journal'.done
      <4>1. CASE FinishQuarantine
        <5>1. run'.pc = "idle"
          BY <2>i, <4>1 DEF FinishQuarantine, GoesTo, IoFails, Logs, LogFails, Idle
        <5> QED
          BY <2>2, <2>a, <3>3, <5>1, OthersRecordNothing
      <4>2. CASE ~FinishQuarantine
        BY <2>2, <2>a, <3>3, <4>2, OthersRecordNothing
      <4> QED
        BY <4>1, <4>2
    <3> QED
      BY <2>t, <3>1, <3>2, <3>4 DEF OrderInv, Fits, InOrder
  <2>3. CASE Interfere
    <3>1. Copies' /\ UNCHANGED <<run, journal>> /\ Trusted' = Trusted
      BY <2>3, <2>a, DeletedSets
    <3>2. Away \subseteq Away' /\ AtDest' \subseteq AtDest
      BY <2>3, <2>a, DeletedSets, SameSets
    <3>3. /\ Fits(run, Away', AtDest', journal.groups)
          /\ InOrder(Away', AtDest', journal.groups)
      BY <2>a, <3>2, DeletionFits
    <3>4. Journalled'
      BY <2>a, <3>1 DEF Journalled
    <3> QED
      BY <2>a, <2>t, <3>1, <3>3, <3>4 DEF OrderInv, Fits, InOrder
  <2>4. CASE UNCHANGED quarantineVars
    <3>1. UNCHANGED <<files, run, journal, faults>>
      BY <2>4 DEF quarantineVars
    <3>2. Journalled'
      BY <2>a, <3>1 DEF Journalled, Trusted
    <3> QED
      BY <2>a, <2>k, <3>1, <3>2
  <2> QED
    BY <1>2, <2>1, <2>2, <2>3, <2>4 DEF QuarantineNext
<1> QED
  BY <1>1, <1>2

\* The order holds until a look takes a file for absent that is there.
UnmissedInv == QuarantineTypeInv /\ (NothingMissed => OrderInv)

LEMMA UnmissedInductive ==
  /\ QuarantineInit => UnmissedInv
  /\ UnmissedInv /\ [QuarantineNext]_quarantineVars => UnmissedInv'
<1>1. QuarantineInit => UnmissedInv
  BY OrderInductive, QuarantineTypeInductive DEF UnmissedInv
<1>2. ASSUME UnmissedInv, [QuarantineNext]_quarantineVars
      PROVE  UnmissedInv'
  <2>1. QuarantineTypeInv'
    BY <1>2, QuarantineTypeInductive DEF UnmissedInv
  <2>2. NothingMissed' => NothingMissed
    BY <1>2, QuarantineFaults, MissesRemembered
  <2> QED
    BY <1>2, <2>1, <2>2, OrderInductive DEF UnmissedInv
<1> QED
  BY <1>1, <1>2

-------------------------------------------------------------------------------
(* The steps of a quarantine are steps of a reorganization. *)

LEMMA AbstractGroups ==
  /\ Abstract!GroupIds = GroupIds
  /\ \A g \in GroupIds : Abstract!FilesOf(g) = InGroup(g) /\ InGroup(g) \subseteq Members
  /\ Members \subseteq Abstract!AllFiles
<1>1. Abstract!GroupIds = GroupIds
  BY DEF Abstract!GroupIds, GroupIds
<1>2. \A g \in GroupIds : Abstract!FilesOf(g) = InGroup(g) /\ InGroup(g) \subseteq Members
  BY GroupType DEF Abstract!FilesOf, InGroup
<1>3. \A m \in Members : \E g \in GroupIds : m \in InGroup(g)
  BY PlanAssumption
<1> QED
  BY <1>1, <1>2, <1>3 DEF Abstract!AllFiles

LEMMA AwayIsThrough ==
  ASSUME NEW g \in GroupIds, InGroup(g) \subseteq Away
  PROVE  Abstract!Through(g)
BY AbstractGroups DEF Abstract!Through, Away, AtDest, Gone

LEMMA MayBeTrusted ==
  ASSUME QuarantineTypeOK, [QuarantineNext]_quarantineVars
  PROVE  Abstract!MayLoseTrust
<1>1. Trusted' => Trusted
  BY TrustIsLost
<1> QED
  BY <1>1 DEF Trusted, Abstract!MayLoseTrust

LEMMA RenameMoves ==
  ASSUME OrderInv, [QuarantineNext]_quarantineVars, At("rename"),
         MoveOut(run.pending[run.i]), UNCHANGED journal
  PROVE  \E g \in Abstract!GroupIds : \E f \in Abstract!FilesOf(g) : Abstract!Move(g, f)
<1> DEFINE m == run.pending[run.i]
<1>a. /\ QuarantineTypeOK /\ FilesTypeOK /\ Copies
      /\ run.pc = "rename" /\ run.g \in GroupIds /\ run \in Runs /\ ~journal.done
      /\ run.i \in 1..Len(run.pending) /\ Lists(run)
      /\ InTurn(run, Away, AtDest, journal.groups)
  BY DEF OrderInv, QuarantineTypeInv, QuarantineTypeOK, At, Placed, Fits
<1>1. m \in InGroup(run.g) /\ m \in Members
  BY <1>a, AbstractGroups DEF Lists
<1>2. m \notin Away /\ AtDest' = AtDest \cup {m} /\ Gone' = Gone
  BY <1>a, <1>1, RenamedSets
<1> HIDE DEF m
<1>3. \A h \in GroupIds : h < run.g => Abstract!Through(h)
  BY <1>a, AwayIsThrough DEF InTurn, Behind
<1>4. Abstract!MayLoseTrust
  BY <1>a, MayBeTrusted
<1>5. PICK g \in Abstract!GroupIds : g = run.g
  BY <1>a, AbstractGroups
<1>6. PICK f \in Abstract!FilesOf(g) : f = m
  BY <1>1, <1>5, AbstractGroups
<1>7. Abstract!Move(g, f)
  BY <1>a, <1>2, <1>3, <1>4, <1>5, <1>6, AbstractGroups
     DEF Abstract!Move, Away, AtDest, Gone
<1> QED
  BY <1>7

LEMMA UndoMovesBack ==
  ASSUME OrderInv, [QuarantineNext]_quarantineVars, At("undo-rename"),
         MoveBack(run.moved[run.i]), UNCHANGED journal
  PROVE  \E g \in Abstract!GroupIds : \E f \in Abstract!FilesOf(g) : Abstract!Back(g, f)
<1> DEFINE m == run.moved[run.i]
<1>a. /\ QuarantineTypeOK /\ FilesTypeOK /\ Copies /\ Journalled
      /\ run.pc = "undo-rename" /\ run.g \in GroupIds /\ run \in Runs /\ ~journal.done
      /\ run.i \in 1..Len(run.moved) /\ Lists(run)
      /\ InTurn(run, Away, AtDest, journal.groups)
  BY DEF OrderInv, QuarantineTypeInv, QuarantineTypeOK, At, Placed, Fits
<1>1. m \in InGroup(run.g) /\ m \in Members
  BY <1>a, AbstractGroups DEF Lists
<1>2. m \in AtDest /\ AtDest' = AtDest \ {m} /\ Gone' = Gone
  BY <1>a, <1>1, RenamedBackSets
<1> HIDE DEF m
<1>3. \A h \in GroupIds : h > run.g => InGroup(h) \cap AtDest = {}
  BY <1>a DEF InTurn, Reached
<1>4. Abstract!MayLoseTrust
  BY <1>a, MayBeTrusted
<1>5. Trusted => run.g \notin journal.groups
  BY <1>a DEF Journalled, Undoing, Trusted
<1>6. PICK g \in Abstract!GroupIds : g = run.g
  BY <1>a, AbstractGroups
<1>7. PICK f \in Abstract!FilesOf(g) : f = m
  BY <1>1, <1>6, AbstractGroups
<1>8. Abstract!Back(g, f)
  BY <1>a, <1>2, <1>3, <1>4, <1>5, <1>6, <1>7, AbstractGroups
     DEF Abstract!Back, AtDest, Gone, Trusted
<1> QED
  BY <1>8

LEMMA CompleteSettles ==
  ASSUME OrderInv, [QuarantineNext]_quarantineVars, CompleteGroup
  PROVE  \/ \E g \in Abstract!GroupIds : Abstract!Settle(g)
         \/ journal'.groups = journal.groups
<1>a. /\ QuarantineTypeOK /\ Placed(run) /\ Fits(run, Away, AtDest, journal.groups)
      /\ run.pc = "prepare" /\ run.g \in GroupIds /\ UNCHANGED files /\ ~journal.done
      /\ At("prepare") /\ run.i = Len(run.pending) + 1
      /\ (Logs("group-completed", {}, To("recorded")) \/ LogFails("group-completed", {}, Rollback))
  BY DEF OrderInv, QuarantineTypeInv, CompleteGroup, At, Placed
<1>1. Abstract!Through(run.g)
  BY <1>a, GroupThrough, AwayIsThrough
<1>2. journal'.groups \in {journal.groups, journal.groups \cup {run.g}}
      /\ journal'.done = journal.done
  BY <1>a, Recorded
<1>3. Abstract!MayLoseTrust
  BY <1>a, MayBeTrusted
<1>4. journal'.groups = journal.groups \cup {run.g} => Abstract!Settle(run.g)
  BY <1>a, <1>1, <1>2, <1>3 DEF Abstract!Settle, files
<1> QED
  BY <1>a, <1>2, <1>4, AbstractGroups

LEMMA FinishFinishes ==
  ASSUME OrderInv, [QuarantineNext]_quarantineVars, QuarantineStep, FinishQuarantine
  PROVE  Abstract!Finish \/ journal'.done = journal.done
<1>a. /\ QuarantineTypeOK /\ run \in Runs /\ run.pc = "group"
      /\ InTurn(run, Away, AtDest, journal.groups)
      /\ run.g \notin GroupIds /\ UNCHANGED files /\ ~journal.done
      /\ journal.groups \subseteq GroupIds
  BY DEF OrderInv, QuarantineTypeInv, QuarantineTypeOK, FinishQuarantine, At, Fits, Journals
<1>b. run.g \in Nat /\ run.g >= 1 /\ Len(Plan) \in Nat
  BY <1>a, RunType, PlanAssumption DEF InTurn
<1>1. \A g \in GroupIds : Behind(g, Away, journal.groups)
  BY <1>a, <1>b DEF InTurn, GroupIds
<1>2. (\A g \in Abstract!GroupIds : Abstract!Through(g)) /\ journal.groups = Abstract!GroupIds
  BY <1>a, <1>1, AbstractGroups, AwayIsThrough DEF Behind
<1>3. journal'.groups = journal.groups
  <2>1. ~CompleteGroup
    BY <1>a DEF CompleteGroup, At
  <2> QED
    BY <1>a, <2>1, OthersRecordNothing
<1>4. journal'.done \in BOOLEAN /\ journal.done \in BOOLEAN
  <2>1. QuarantineTypeOK'
    BY QuarantineTypeInductive DEF OrderInv, QuarantineTypeInv
  <2> QED
    BY <1>a, <2>1 DEF QuarantineTypeOK, Journals
<1>5. Abstract!MayLoseTrust
  BY <1>a, MayBeTrusted
<1>6. journal'.done = TRUE => Abstract!Finish
  BY <1>a, <1>2, <1>3, <1>5 DEF Abstract!Finish, files
<1> QED
  BY <1>a, <1>4, <1>6

\* A step that neither moves a file nor changes the record of the groups or of
\* the run may still lose trust.
LEMMA QuietStep ==
  ASSUME QuarantineTypeOK, [QuarantineNext]_quarantineVars, UNCHANGED <<src, dst>>,
         journal'.groups = journal.groups, journal'.done = journal.done
  PROVE  [Abstract!ReorganizationNext]_Abstract!reorganizationVars
<1>1. CASE Trusted' = Trusted
  BY <1>1 DEF Trusted, Abstract!reorganizationVars
<1>2. CASE Trusted' # Trusted
  <2>1. Trusted' => Trusted
    BY TrustIsLost
  <2>2. Trusted' = FALSE
    BY <1>2, <2>1 DEF Trusted
  <2>3. Abstract!LoseTrust
    BY <2>2 DEF Trusted, Abstract!LoseTrust
  <2> QED
    BY <2>3 DEF Abstract!ReorganizationNext
<1> QED
  BY <1>1, <1>2

LEMMA InterferenceDeletes ==
  ASSUME OrderInv, [QuarantineNext]_quarantineVars, Interfere
  PROVE  [Abstract!ReorganizationNext]_Abstract!reorganizationVars
<1>a. QuarantineTypeOK /\ FilesTypeOK /\ Copies
  BY DEF OrderInv, QuarantineTypeInv, QuarantineTypeOK
<1>1. /\ UNCHANGED <<run, journal>> /\ Trusted' = Trusted
      /\ \/ UNCHANGED <<src, dst>>
         \/ \E m \in Members : AtDest' = AtDest \ {m} /\ Gone' = Gone \cup {m}
  BY <1>a, DeletedSets
<1>2. CASE UNCHANGED <<src, dst>>
  BY <1>a, <1>1, <1>2, QuietStep
<1>3. CASE \E m \in Members : AtDest' = AtDest \ {m} /\ Gone' = Gone \cup {m}
  <2>1. PICK m \in Members : AtDest' = AtDest \ {m} /\ Gone' = Gone \cup {m}
    BY <1>3
  <2>2. PICK f \in Abstract!AllFiles : f = m
    BY <2>1, AbstractGroups
  <2>3. Abstract!Delete(f)
    BY <1>1, <2>1, <2>2 DEF Abstract!Delete, AtDest, Gone, Trusted
  <2> QED
    BY <2>3 DEF Abstract!ReorganizationNext
<1> QED
  BY <1>1, <1>2, <1>3

LEMMA StepReorganizes ==
  ASSUME OrderInv, [QuarantineNext]_quarantineVars
  PROVE  [Abstract!ReorganizationNext]_Abstract!reorganizationVars
<1>a. QuarantineTypeOK
  BY DEF OrderInv, QuarantineTypeInv
<1>f. UNCHANGED files => UNCHANGED <<src, dst>>
  BY DEF files
<1>1. CASE Begin
  <2>1. UNCHANGED files /\ ~CompleteGroup /\ ~FinishQuarantine
    BY <1>1 DEF Begin, StartQuarantine, ResumeQuarantine, At, CompleteGroup, FinishQuarantine
  <2> QED
    BY <1>1, <1>a, <1>f, <2>1, OthersRecordNothing, QuietStep
<1>2. CASE QuarantineStep
  <2>1. CASE RenameLoser
    <3>1. CASE MoveOut(run.pending[run.i]) /\ GoesTo(To("renamed"))
      BY <2>1, <3>1, RenameMoves DEF RenameLoser, GoesTo, Abstract!ReorganizationNext
    <3>2. CASE UNCHANGED files /\ (GoesTo(Rollback) \/ IoFails("io", Rollback))
      BY <1>a, <1>f, <3>2, QuietStep DEF GoesTo, IoFails
    <3> QED
      BY <2>1, <3>1, <3>2 DEF RenameLoser
  <2>2. CASE UndoRename
    <3>1. CASE MoveBack(run.moved[run.i]) /\ GoesTo(To("undone"))
      <4>1. At("undo-rename") /\ UNCHANGED journal
        BY <2>2, <3>1 DEF UndoRename, GoesTo
      <4> QED
        BY <3>1, <4>1, UndoMovesBack DEF Abstract!ReorganizationNext
    <3>2. CASE UNCHANGED files /\ (GoesTo(NextUndo) \/ IoFails("io", NextUndo))
      BY <1>a, <1>f, <3>2, QuietStep DEF GoesTo, IoFails
    <3> QED
      BY <2>2, <3>1, <3>2 DEF UndoRename
  <2>3. CASE CompleteGroup
    <3>1. ~FinishQuarantine /\ UNCHANGED files
      BY <2>3 DEF CompleteGroup, FinishQuarantine, At
    <3>2. journal'.done = journal.done
      BY <1>2, <1>a, <3>1, OthersRecordNothing
    <3> QED
      BY <1>a, <1>f, <2>3, <3>1, <3>2, CompleteSettles, QuietStep DEF Abstract!ReorganizationNext
  <2>4. CASE FinishQuarantine
    <3>1. ~CompleteGroup /\ UNCHANGED files
      BY <2>4 DEF CompleteGroup, FinishQuarantine, At
    <3>2. journal'.groups = journal.groups
      BY <1>2, <1>a, <3>1, OthersRecordNothing
    <3> QED
      BY <1>2, <1>a, <1>f, <2>4, <3>1, <3>2, FinishFinishes, QuietStep DEF Abstract!ReorganizationNext
  <2>5. CASE ~RenameLoser /\ ~UndoRename /\ ~CompleteGroup /\ ~FinishQuarantine
    <3>1. journal'.groups = journal.groups /\ journal'.done = journal.done
      BY <1>2, <1>a, <2>5, OthersRecordNothing
    <3>2. CASE MakeQuarantineParent
      BY <1>a, <1>f, <3>1, <3>2, QuietStep DEF MakeQuarantineParent, MakeDir
    <3>3. CASE ~MakeQuarantineParent
      <4>1. UNCHANGED files
        BY <1>2, <2>5, <3>3, Zenon DEF QuarantineStep, SkipGroup, EnterGroup, ScanLoser,
           BeginGroup, ValidateGroup, PrepareLoser, RecordLoser, LeaveGroup, UndoLoser,
           RecordUndo, FailGroup, Crash, Interrupt
      <4> QED
        BY <1>a, <1>f, <3>1, <4>1, QuietStep
    <3> QED
      BY <3>2, <3>3
  <2> QED
    BY <2>1, <2>2, <2>3, <2>4, <2>5
<1>3. CASE Interfere
  BY <1>3, InterferenceDeletes
<1>4. CASE UNCHANGED quarantineVars
  BY <1>a, <1>f, <1>4, QuietStep DEF quarantineVars
<1> QED
  BY <1>1, <1>2, <1>3, <1>4 DEF QuarantineNext

LEMMA InitReorganizes == QuarantineInit => Abstract!ReorganizationInit
<1>1. ASSUME QuarantineInit
      PROVE  Abstract!ReorganizationInit
  BY <1>1 DEF QuarantineInit, FilesInit, NoneYet, NoJournal, Abstract!ReorganizationInit
<1> QED
  BY <1>1

\* Whatever fails, and whatever somebody deletes meanwhile, a quarantine of any
\* plan is a reorganization: losers move group by group, only the last group
\* touched is in part in quarantine, a group that the journal holds as completed
\* is not taken back as long as its record can be trusted, and the run is
\* recorded as completed only when every group is; until a look takes a file for
\* absent that is there.
THEOREM QuarantineReorganizes == QuarantineSpec => Reorganizes
<1>1. UnmissedInv /\ [QuarantineNext]_quarantineVars
        => [NothingMissed => Abstract!ReorganizationNext]_(Abstract!reorganizationVars)
  BY StepReorganizes DEF UnmissedInv
<1> QED
  BY <1>1, UnmissedInductive, InitReorganizes, PTL DEF QuarantineSpec, Reorganizes

-------------------------------------------------------------------------------
\* Where the loops of the restore may be.
BackPlaced(r) ==
  /\ r \in BackRuns
  /\ r.pc \notin {"idle", "group"} => r.g \in GroupIds
  /\ r.pc = "start" => r.i \in 1..(Len(r.pending) + 1)
  /\ r.pc \in {"rename", "restored"} => r.i \in 1..Len(r.pending)

RestoreTypeInv == QuarantineTypeInv /\ BackPlaced(back) /\ backJournal \in Journals

-------------------------------------------------------------------------------
(* Type correctness. *)

\* What the types of a control state of the restore say.
LEMMA BackRunType ==
  ASSUME NEW r \in BackRuns
  PROVE  /\ r.g \in 0..Len(Plan) /\ r.i \in Nat
         /\ r.pending \in Seq(Members) /\ Len(r.pending) \in Nat
         /\ \A k \in 1..Len(r.pending) : r.pending[k] \in Members
<1>1. r.pending \in Seq(Members) /\ r.g \in 0..Len(Plan) /\ r.i \in Nat
  BY DEF BackRuns
<1> QED
  BY <1>1

LEMMA BackIdlePlaced ==
  /\ BackPlaced(BackIdle) /\ BackIdle.pc = "idle"
  /\ BackPlaced(Last) /\ Last.pc = "group" /\ Last.g = Len(Plan)
<1>1. Len(Plan) \in Nat
  BY PlanAssumption
<1>2. BackIdle \in BackRuns /\ BackIdle.pc = "idle"
  BY <1>1 DEF BackIdle, BackRuns, BackPhases
<1>3. Last \in BackRuns /\ Last.pc = "group" /\ Last.g = Len(Plan)
  <2>1. "group" \in BackPhases /\ Len(Plan) \in 0..Len(Plan)
    BY <1>1 DEF BackPhases
  <2> QED
    BY <1>2, <2>1 DEF Last, BackRuns
<1> QED
  BY <1>2, <1>3 DEF BackPlaced

\* The loops stay where they are.
LEMMA BackToType ==
  ASSUME back \in BackRuns
  PROVE  \A phase \in {"failed", "rename", "restored"} :
           /\ BackTo(phase) \in BackRuns
           /\ BackTo(phase).pc = phase /\ BackTo(phase).g = back.g
           /\ BackTo(phase).i = back.i /\ BackTo(phase).pending = back.pending
<1>1. ASSUME NEW phase \in BackPhases
      PROVE  /\ BackTo(phase) \in BackRuns
             /\ BackTo(phase).pc = phase /\ BackTo(phase).g = back.g
             /\ BackTo(phase).i = back.i /\ BackTo(phase).pending = back.pending
  BY DEF BackTo, BackRuns
<1>2. \A phase \in {"failed", "rename", "restored"} : phase \in BackPhases
  BY DEF BackPhases
<1> QED
  BY <1>1, <1>2

LEMMA BackToPlaced ==
  ASSUME back \in BackRuns, back.g \in GroupIds
  PROVE  /\ BackPlaced(BackTo("failed"))
         /\ back.i \in 1..Len(back.pending) =>
              BackPlaced(BackTo("rename")) /\ BackPlaced(BackTo("restored"))
BY BackToType DEF BackPlaced

LEMMA BackAheadPlaced ==
  ASSUME NEW r, BackPlaced(r)
  PROVE  BackPlaced([r EXCEPT !.ahead = r.pc # "idle"])
BY DEF BackPlaced, BackRuns

\* append() returns or raises: what follows is well typed.
LEMMA BackLogsType ==
  ASSUME backJournal \in Journals, faults \in FaultRecords,
         NEW event, NEW m, NEW next, NEW otherwise,
         BackPlaced(next), BackPlaced(otherwise),
         event \in LoserEvents => m \in Members,
         event = "group-completed" => back.g \in GroupIds,
         BackLogs(event, m, next) \/ BackLogFails(event, m, otherwise)
  PROVE  backJournal' \in Journals /\ faults' \in FaultRecords /\ BackPlaced(back')
<1>1. Written(backJournal, back, event, m) \in Journals
  BY WrittenType
<1>2. [backJournal EXCEPT !.file = "unreadable"] \in Journals
  BY DEF Journals
<1>3. BackPlaced([otherwise EXCEPT !.ahead = otherwise.pc # "idle"])
  BY BackAheadPlaced
<1>4. CASE BackLogs(event, m, next)
  BY <1>1, <1>4 DEF BackLogs, NoFault
<1>5. CASE BackLogFails(event, m, otherwise)
  <2>1. faults' \in FaultRecords
    BY <1>5, FaultType DEF BackLogFails, Fault, DiesWriting
  <2> QED
    BY <1>1, <1>2, <1>3, <1>5, <2>1, BackIdlePlaced DEF BackLogFails
<1> QED
  BY <1>4, <1>5

LEMMA BackLogsAmidType ==
  ASSUME backJournal \in Journals, faults \in FaultRecords,
         NEW kind, NEW event, NEW m, NEW next, BackPlaced(next),
         event \in LoserEvents => m \in Members,
         event = "group-completed" => back.g \in GroupIds,
         BackLogsAmid(kind, event, m, next)
  PROVE  backJournal' \in Journals /\ faults' \in FaultRecords /\ BackPlaced(back')
<1>1. Written(backJournal, back, event, m) \in Journals
  BY WrittenType
<1>2. faults' \in FaultRecords
  BY FaultType DEF BackLogsAmid, Fault
<1> QED
  BY <1>1, <1>2 DEF BackLogsAmid

\* A step that appends nothing.
LEMMA BackGoesToType ==
  ASSUME backJournal \in Journals, faults \in FaultRecords, NEW next, NEW kind,
         BackPlaced(next), BackGoesTo(next) \/ BackIoFails(kind, next)
  PROVE  backJournal' \in Journals /\ faults' \in FaultRecords /\ BackPlaced(back')
BY FaultType DEF BackGoesTo, BackIoFails, Fault, NoFault

\* Each step of a running restore keeps its run and its journal well typed and
\* its loops inside their lists.
LEMMA RestoreStepType ==
  ASSUME RestoreTypeInv, RestoreStep
  PROVE  backJournal' \in Journals /\ faults' \in FaultRecords /\ BackPlaced(back')
<1>a. back \in BackRuns /\ backJournal \in Journals /\ faults \in FaultRecords
      /\ BackPlaced(back)
  BY DEF RestoreTypeInv, QuarantineTypeInv, QuarantineTypeOK, BackPlaced
<1>n. back.g \in 0..Len(Plan) /\ back.i \in Nat /\ Len(back.pending) \in Nat
  BY <1>a, BackRunType
<1>c. Len(Plan) \in Nat /\ GroupIds = 1..Len(Plan)
  BY PlanAssumption DEF GroupIds
<1>1. CASE SkipRestoredGroup
  <2> DEFINE on == [back EXCEPT !.g = @ - 1]
  <2>1. back.g \in GroupIds /\ back.pc = "group" /\ back.g - 1 \in 0..Len(Plan)
    BY <1>1, <1>a, <1>c DEF SkipRestoredGroup, BackAt, Journals
  <2>2. on \in BackRuns /\ on.pc = "group"
    BY <1>a, <2>1 DEF BackRuns
  <2>3. BackPlaced(on)
    BY <2>2 DEF BackPlaced
  <2> HIDE DEF on
  <2>4. \/ BackGoesTo(on) \/ BackGoesTo(BackIdle)
        \/ BackIoFails("look", on) \/ BackIoFails("read", BackIdle)
    BY <1>1 DEF SkipRestoredGroup, on
  <2> QED
    BY <1>a, <2>3, <2>4, BackIdlePlaced, BackGoesToType
<1>2. CASE ScanRestoreGroup
  <2> DEFINE on == [back EXCEPT !.pc = "scan", !.i = Len(Plan[back.g]), !.pending = <<>>]
  <2>1. back.g \in GroupIds
    BY <1>2 DEF ScanRestoreGroup
  <2>2. Len(Plan[back.g]) \in Nat /\ <<>> \in Seq(Members) /\ "scan" \in BackPhases
    BY <2>1, GroupType DEF BackPhases
  <2>3. on \in BackRuns /\ on.pc = "scan" /\ on.g = back.g
    BY <1>a, <2>2 DEF BackRuns
  <2>4. BackPlaced(on)
    BY <2>1, <2>3 DEF BackPlaced
  <2> HIDE DEF on
  <2>5. BackGoesTo(on)
    BY <1>2 DEF ScanRestoreGroup, on
  <2> QED
    BY <1>a, <2>4, <2>5, BackGoesToType
<1>3. CASE ClassifyLoser
  <2> DEFINE m == Plan[back.g][back.i]
             toDo == [back EXCEPT !.i = @ - 1, !.pending = Append(@, m)]
             done == [back EXCEPT !.i = @ - 1]
  <2>1. back.g \in GroupIds /\ back.pc = "scan" /\ back.i \in 1..Len(Plan[back.g])
    BY <1>3, <1>a DEF ClassifyLoser, BackAt, BackPlaced
  <2>2. m \in Members /\ back.i - 1 \in Nat
    BY <1>n, <2>1, GroupType
  <2>3. Append(back.pending, m) \in Seq(Members)
    BY <1>a, <2>2, BackRunType
  <2>4. /\ toDo \in BackRuns /\ toDo.pc = "scan" /\ toDo.g = back.g
        /\ done \in BackRuns /\ done.pc = "scan" /\ done.g = back.g
    BY <1>a, <2>1, <2>2, <2>3 DEF BackRuns
  <2>5. BackPlaced(toDo) /\ BackPlaced(done)
    BY <2>1, <2>4 DEF BackPlaced
  <2> HIDE DEF m, toDo, done
  <2>6. \/ BackGoesTo(done) \/ BackGoesTo(toDo) \/ BackGoesTo(BackIdle)
        \/ BackIoFails("look", done) \/ BackIoFails("read", BackIdle)
        \/ BackLogsAmid("look", "member-completed", m, done)
        \/ BackLogs("member-completed", m, done)
        \/ BackLogFails("member-completed", m, BackIdle)
    BY <1>3 DEF ClassifyLoser, m, toDo, done
  <2>7. CASE \/ BackGoesTo(done) \/ BackGoesTo(toDo) \/ BackGoesTo(BackIdle)
             \/ BackIoFails("look", done) \/ BackIoFails("read", BackIdle)
    BY <1>a, <2>5, <2>7, BackIdlePlaced, BackGoesToType
  <2>8. CASE BackLogsAmid("look", "member-completed", m, done)
    BY <1>a, <2>2, <2>5, <2>8, BackLogsAmidType
  <2> QED
    BY <1>a, <2>2, <2>5, <2>6, <2>7, <2>8, BackIdlePlaced, BackLogsType
<1>4. CASE BeginRestoreGroup
  <2> DEFINE on == [back EXCEPT !.pc = "start", !.i = 1]
  <2>1. back.g \in GroupIds
    BY <1>4, <1>a DEF BeginRestoreGroup, BackAt, BackPlaced
  <2>2. on \in BackRuns /\ on.pc = "start" /\ on.g = back.g /\ on.i = 1
        /\ on.pending = back.pending
    BY <1>a DEF BackRuns, BackPhases
  <2>3. BackPlaced(on)
    BY <1>n, <2>1, <2>2 DEF BackPlaced
  <2> HIDE DEF on
  <2>4. BackLogs("group-started", {}, on) \/ BackLogFails("group-started", {}, BackIdle)
    BY <1>4 DEF BeginRestoreGroup, on
  <2> QED
    BY <1>a, <2>1, <2>3, <2>4, BackIdlePlaced, BackLogsType DEF LoserEvents
<1>5. CASE FinishRestore
  <2>1. \/ BackGoesTo(BackIdle) \/ BackIoFails("read", BackIdle)
        \/ BackLogs("completed", {}, BackIdle) \/ BackLogFails("completed", {}, BackIdle)
        \/ BackLogsAmid("look", "completed", {}, BackIdle)
    BY <1>5 DEF FinishRestore
  <2>2. CASE BackGoesTo(BackIdle) \/ BackIoFails("read", BackIdle)
    BY <1>a, <2>2, BackIdlePlaced, BackGoesToType
  <2>3. CASE BackLogsAmid("look", "completed", {}, BackIdle)
    BY <1>a, <2>3, BackIdlePlaced, BackLogsAmidType DEF LoserEvents
  <2> QED
    BY <1>a, <2>1, <2>2, <2>3, BackIdlePlaced, BackLogsType DEF LoserEvents
<1>6. CASE PrepareRestore
  <2>1. back.g \in GroupIds /\ back.i \in 1..Len(back.pending)
    BY <1>6, <1>a DEF PrepareRestore, BackAt, BackPlaced
  <2>2. back.pending[back.i] \in Members
    BY <1>a, <2>1, BackRunType
  <2>3. BackPlaced(BackTo("rename")) /\ BackPlaced(BackTo("failed"))
    BY <1>a, <2>1, BackToPlaced
  <2>4. \/ BackGoesTo(BackTo("failed")) \/ BackIoFails("read", BackTo("failed"))
        \/ LET m == back.pending[back.i]
           IN BackLogs("member-started", m, BackTo("rename"))
                \/ BackLogFails("member-started", m, BackTo("failed"))
    BY <1>6 DEF PrepareRestore, AnnounceRestore
  <2>5. CASE BackGoesTo(BackTo("failed")) \/ BackIoFails("read", BackTo("failed"))
    BY <1>a, <2>3, <2>5, BackGoesToType
  <2> QED
    BY <1>a, <2>1, <2>2, <2>3, <2>4, <2>5, BackLogsType DEF LoserEvents
<1>7. CASE RenameRestored
  <2>1. back.g \in GroupIds /\ back.i \in 1..Len(back.pending)
    BY <1>7, <1>a DEF RenameRestored, BackAt, BackPlaced
  <2>2. \/ BackGoesTo(BackTo("restored")) \/ BackGoesTo(BackTo("failed"))
        \/ BackIoFails("io", BackTo("failed"))
    BY <1>7 DEF RenameRestored
  <2>3. BackPlaced(BackTo("restored")) /\ BackPlaced(BackTo("failed"))
    BY <1>a, <2>1, BackToPlaced
  <2> QED
    BY <1>a, <2>2, <2>3, BackGoesToType
<1>8. CASE RecordRestored
  <2> DEFINE on == [back EXCEPT !.pc = "start", !.i = @ + 1]
  <2>1. back.g \in GroupIds /\ back.i \in 1..Len(back.pending)
    BY <1>8, <1>a DEF RecordRestored, BackAt, BackPlaced
  <2>2. back.pending[back.i] \in Members
    BY <1>a, <2>1, BackRunType
  <2>3. on \in BackRuns /\ on.pc = "start" /\ on.g = back.g /\ on.i = back.i + 1
        /\ on.pending = back.pending
    <3>1. back.i + 1 \in Nat /\ "start" \in BackPhases
      BY <1>n DEF BackPhases
    <3> QED
      BY <1>a, <3>1 DEF BackRuns
  <2>4. BackPlaced(on)
    BY <1>n, <2>1, <2>3 DEF BackPlaced
  <2> HIDE DEF on
  <2>5. \/ BackGoesTo(BackTo("failed")) \/ BackIoFails("read", BackTo("failed"))
        \/ LET m == back.pending[back.i]
           IN BackLogs("member-completed", m, on)
                \/ BackLogFails("member-completed", m, BackTo("failed"))
    BY <1>8 DEF RecordRestored, on
  <2>6. CASE BackGoesTo(BackTo("failed")) \/ BackIoFails("read", BackTo("failed"))
    BY <1>a, <2>1, <2>6, BackToPlaced, BackGoesToType
  <2> QED
    BY <1>a, <2>1, <2>2, <2>4, <2>5, <2>6, BackToPlaced, BackLogsType DEF LoserEvents
<1>9. CASE CompleteRestoreGroup
  <2> DEFINE on == [back EXCEPT !.pc = "group", !.g = @ - 1]
  <2>1. back.g \in GroupIds
    BY <1>9, <1>a DEF CompleteRestoreGroup, BackAt, BackPlaced
  <2>2. on \in BackRuns /\ on.pc = "group"
    <3>1. back.g - 1 \in 0..Len(Plan) /\ "group" \in BackPhases
      BY <1>c, <2>1 DEF BackPhases
    <3> QED
      BY <1>a, <3>1 DEF BackRuns
  <2>3. BackPlaced(on)
    BY <2>2 DEF BackPlaced
  <2> HIDE DEF on
  <2>4. BackLogs("group-completed", {}, on) \/ BackLogFails("group-completed", {}, BackTo("failed"))
    BY <1>9 DEF CompleteRestoreGroup, on
  <2> QED
    BY <1>a, <2>1, <2>3, <2>4, BackToPlaced, BackLogsType DEF LoserEvents
<1>10. CASE FailRestoreGroup
  BY <1>10, <1>a, BackIdlePlaced, BackLogsType DEF FailRestoreGroup, LoserEvents
<1>11. CASE CrashRestore
  BY <1>11, <1>a, BackIdlePlaced, FaultType DEF CrashRestore, Fault
<1>12. CASE InterruptRestore
  <2>1. back.pc \in BackGuarded => back.g \in GroupIds
    BY <1>a DEF BackGuarded, BackPlaced
  <2> QED
    BY <1>12, <1>a, <2>1, BackIdlePlaced, BackToPlaced, FaultType DEF InterruptRestore, Fault
<1> QED
  BY <1>1, <1>2, <1>3, <1>4, <1>5, <1>6, <1>7, <1>8, <1>9, <1>10, <1>11, <1>12
  DEF RestoreStep

\* A step of the restore touches the files by moving one loser back, or not at
\* all.
LEMMA RestoreStepFiles ==
  ASSUME BackPlaced(back), RestoreStep
  PROVE  \/ \E m \in Members : MoveBack(m)
         \/ UNCHANGED files
<1>1. CASE RenameRestored
  <2>1. back.pending[back.i] \in Members
    BY <1>1, BackRunType DEF RenameRestored, BackAt, BackPlaced
  <2> QED
    BY <1>1, <2>1 DEF RenameRestored
<1>2. CASE ~RenameRestored
  BY <1>2, Zenon DEF RestoreStep, SkipRestoredGroup, ScanRestoreGroup, ClassifyLoser,
     BeginRestoreGroup, PrepareRestore, RecordRestored, CompleteRestoreGroup,
     FailRestoreGroup, FinishRestore, CrashRestore, InterruptRestore
<1> QED
  BY <1>1, <1>2

\* Starting or resuming the restore touches only its own state.
LEMMA BeginRestoreType ==
  ASSUME RestoreTypeInv, BeginRestore
  PROVE  /\ UNCHANGED <<files, winner, run, journal>>
         /\ backJournal' \in Journals /\ faults' \in FaultRecords /\ BackPlaced(back')
<1>a. backJournal \in Journals /\ faults \in FaultRecords
  BY DEF RestoreTypeInv, QuarantineTypeInv, QuarantineTypeOK
<1>1. CASE StartRestore
  <2>1. BackLogs("restore-started", {}, Last) \/ BackLogFails("restore-started", {}, BackIdle)
    BY <1>1 DEF StartRestore
  <2> QED
    BY <1>a, <2>1, BackIdlePlaced, BackLogsType DEF BeginRestore, LoserEvents
<1>2. CASE ResumeRestore
  BY <1>2, <1>a, BackIdlePlaced, BackGoesToType DEF BeginRestore, ResumeRestore
<1> QED
  BY <1>1, <1>2 DEF BeginRestore

\* The type invariant with the bounds of all loops is inductive.
LEMMA RestoreTypeInductive ==
  /\ RestoreInit => RestoreTypeInv
  /\ RestoreTypeInv /\ [RestoreNext]_restoreVars => RestoreTypeInv'
<1>1. ASSUME RestoreInit
      PROVE  RestoreTypeInv
  BY <1>1, QuarantineTypeInductive, BackIdlePlaced
  DEF RestoreInit, RestoreTypeInv, NoJournal, Journals
<1>2. ASSUME RestoreTypeInv, [RestoreNext]_restoreVars
      PROVE  RestoreTypeInv'
  <2>a. QuarantineTypeInv /\ QuarantineTypeOK /\ Placed(run) /\ FilesTypeOK
        /\ BackPlaced(back) /\ backJournal \in Journals
    BY <1>2 DEF RestoreTypeInv, QuarantineTypeInv, QuarantineTypeOK
  <2>1. ASSUME [QuarantineNext]_quarantineVars, UNCHANGED <<back, backJournal>>
        PROVE  RestoreTypeInv'
    <3>1. QuarantineTypeInv'
      BY <2>a, <2>1, QuarantineTypeInductive
    <3> QED
      BY <2>a, <2>1, <3>1 DEF RestoreTypeInv, BackPlaced
  <2>2. ASSUME FilesTypeOK', UNCHANGED <<winner, run, journal>>,
               backJournal' \in Journals, faults' \in FaultRecords, BackPlaced(back')
        PROVE  RestoreTypeInv'
    BY <2>a, <2>2 DEF RestoreTypeInv, QuarantineTypeInv, QuarantineTypeOK, Placed
  <2>3. CASE Quarantining \/ Interfering
    BY <2>1, <2>3 DEF Quarantining, Interfering, QuarantineNext
  <2>4. CASE BeginRestore
    <3>1. FilesTypeOK'
      BY <1>2, <2>a, <2>4, BeginRestoreType, FilesType
    <3> QED
      BY <1>2, <2>2, <2>4, <3>1, BeginRestoreType
  <2>5. CASE RestoreStep
    <3>1. FilesTypeOK'
      BY <2>a, <2>5, RestoreStepFiles, FilesType DEF OneFile
    <3>2. UNCHANGED <<winner, run, journal>>
      BY <2>5 DEF RestoreStep
    <3> QED
      BY <1>2, <2>2, <2>5, <3>1, <3>2, RestoreStepType
  <2>6. CASE UNCHANGED restoreVars
    BY <2>1, <2>6 DEF restoreVars
  <2> QED
    BY <1>2, <2>3, <2>4, <2>5, <2>6 DEF RestoreNext
<1> QED
  BY <1>1, <1>2

\* Whatever fails and whoever interferes, quarantine and restore stay well typed.
THEOREM RestoreTypeCorrectness == RestoreSpec => []RestoreTypeOK
<1>1. RestoreTypeInv => RestoreTypeOK
  BY DEF RestoreTypeInv, QuarantineTypeInv, RestoreTypeOK, BackPlaced
<1> QED
  BY <1>1, RestoreTypeInductive, PTL DEF RestoreSpec

-------------------------------------------------------------------------------
(* The order in which a completed quarantine is taken back. *)

\* The groups after g are restored, those before it are not, and of g the first
\* n losers are not.
PassedBack(g, n) ==
  /\ \A h \in GroupIds : (h < g => InQuarantine(h)) /\ (h > g => InPlace(h))
  /\ \A k \in 1..Len(Plan[g]) : dst[Plan[g][k]] = "media" <=> k <= n

InReverse == \E g \in GroupIds : \E n \in 0..Len(Plan[g]) : PassedBack(g, n)

\* pending holds, from the last to the first, the losers of the group that
\* follow the first "from" ones and are still in quarantine.
Listed(r, from) ==
  /\ from + Len(r.pending) <= Len(Plan[r.g])
  /\ \A j \in 1..Len(r.pending) :
       r.pending[j] = Plan[r.g][from + Len(r.pending) + 1 - j]

\* Of the losers that follow the first "from" ones, those up to n are in
\* quarantine.
Remain(r, from, n) ==
  \A k \in (from + 1)..Len(Plan[r.g]) : dst[Plan[r.g][k]] = "media" <=> k <= n

\* How many losers of its group a restore has still to restore.
Left(r) ==
  CASE r.pc \in {"start", "rename"} -> Len(r.pending) + 1 - r.i
    [] r.pc = "restored" -> Len(r.pending) - r.i
    [] OTHER -> Len(r.pending)

\* What a running restore knows of the files: the groups after its own are
\* restored, and its list says what remains of its own.
Knows(r) ==
  /\ r.pc # "idle" => \A h \in GroupIds : h > r.g => InPlace(h)
  /\ r.pc = "scan" =>
       r.i <= Len(Plan[r.g]) /\ Listed(r, r.i) /\ Remain(r, r.i, r.i + Len(r.pending))
  /\ r.pc \in {"start", "rename", "restored"} =>
       Listed(r, 0) /\ Remain(r, 0, Left(r))

\* When a loser is in quarantine, so are the losers of its group before it and all
\* groups before its own.
LEMMA BelowInQuarantine ==
  ASSUME InReverse, NEW g \in GroupIds, NEW k \in 1..Len(Plan[g]),
         dst[Plan[g][k]] = "media"
  PROVE  /\ \A l \in 1..Len(Plan[g]) : l <= k => dst[Plan[g][l]] = "media"
         /\ \A h \in GroupIds : h < g => InQuarantine(h)
<1>1. PICK c \in GroupIds : \E n \in 0..Len(Plan[c]) : PassedBack(c, n)
  BY DEF InReverse
<1>2. PICK n \in 0..Len(Plan[c]) : PassedBack(c, n)
  BY <1>1
<1>3. Len(Plan[g]) \in Nat /\ Len(Plan[c]) \in Nat /\ g \in Nat /\ c \in Nat
  BY GroupType
<1>4. Plan[g][k] \in InGroup(g)
  BY DEF InGroup
<1>5. ~(g > c)
  BY <1>2, <1>4 DEF PassedBack, InPlace
<1>6. CASE g < c
  <2>1. InQuarantine(g)
    BY <1>2, <1>6 DEF PassedBack
  <2>2. \A l \in 1..Len(Plan[g]) : dst[Plan[g][l]] = "media"
    BY <2>1 DEF InQuarantine, InGroup
  <2>3. \A h \in GroupIds : h < g => h < c
    BY <1>3, <1>6 DEF GroupIds
  <2> QED
    BY <1>2, <2>2, <2>3 DEF PassedBack
<1>7. CASE g = c
  BY <1>2, <1>3, <1>7 DEF PassedBack
<1> QED
  BY <1>3, <1>5, <1>6, <1>7

LEMMA KnowsNothing ==
  /\ Knows(BackIdle)
  /\ Knows(Last)
  /\ \A r : r.pc # "idle" /\ Knows(r) => \A h \in GroupIds : h > r.g => InPlace(h)
<1>1. Knows(BackIdle)
  BY BackIdlePlaced DEF Knows
<1>2. \A h \in GroupIds : ~(h > Len(Plan))
  BY PlanAssumption DEF GroupIds
<1> QED
  BY <1>1, <1>2, BackIdlePlaced DEF Knows

\* An append returns or raises, and the restore goes on knowing as much.
LEMMA LogsKnow ==
  ASSUME NEW event, NEW m, NEW next, NEW otherwise \in BackRuns,
         Knows(next), Knows(otherwise),
         BackLogs(event, m, next) \/ BackLogFails(event, m, otherwise)
  PROVE  Knows(back')
<1> DEFINE ahead == [otherwise EXCEPT !.ahead = otherwise.pc # "idle"]
<1>1. ahead.pc = otherwise.pc /\ ahead.g = otherwise.g /\ ahead.i = otherwise.i
      /\ ahead.pending = otherwise.pending
  BY DEF BackRuns
<1>2. Knows(ahead)
  BY <1>1 DEF Knows, Listed, Remain, Left
<1> HIDE DEF ahead
<1> QED
  BY <1>2, KnowsNothing DEF BackLogs, BackLogFails, ahead

\* So does a step that appends nothing.
LEMMA GoesToKnows ==
  ASSUME NEW next, NEW kind, Knows(next), BackGoesTo(next) \/ BackIoFails(kind, next)
  PROVE  Knows(back')
BY DEF BackGoesTo, BackIoFails

\* Unless somebody deleted it, a loser that counts as restored is in the library.
LEMMA CountedInPlace ==
  ASSUME \A f \in Members : OneCopy(f)
  PROVE  /\ \A m \in Members : CountsAsRestored(m) => src[m] = "media" /\ dst[m] = "absent"
         /\ \A g \in GroupIds : \A m \in InGroup(g) : m \in Members
<1>1. \A m \in Members : CountsAsRestored(m) => src[m] = "media" /\ dst[m] = "absent"
  BY DEF CountsAsRestored, Pending, Revalidates, AlreadyAbsent, OneCopy
<1> QED
  BY <1>1, GroupType DEF InGroup

\* The scan of a group finds the losers that are still in quarantine.
LEMMA ClassifyKnows ==
  ASSUME RestoreTypeInv, \A f \in Members : OneCopy(f), InReverse, Knows(back),
         ClassifyLoser, NothingMissed'
  PROVE  Knows(back')
<1> DEFINE m == Plan[back.g][back.i]
           toDo == [back EXCEPT !.i = @ - 1, !.pending = Append(@, m)]
           done == [back EXCEPT !.i = @ - 1]
           n == Len(back.pending)
           size == Len(Plan[back.g])
<1>a. back \in BackRuns /\ BackPlaced(back) /\ back.pc = "scan"
  BY DEF RestoreTypeInv, BackPlaced, ClassifyLoser, BackAt
<1>1. back.g \in GroupIds /\ back.i \in 1..size /\ size \in Nat /\ n \in Nat
      /\ back.pending \in Seq(Members) /\ back.i \in Nat
  BY <1>a, GroupType, BackRunType DEF ClassifyLoser, BackPlaced
<1>2. m \in Members
  BY <1>1, GroupType
<1>3. /\ Listed(back, back.i) /\ Remain(back, back.i, back.i + n)
      /\ \A h \in GroupIds : h > back.g => InPlace(h)
  BY <1>a DEF Knows
<1>4. back.i + n <= size
  BY <1>3 DEF Listed
<1>5. ASSUME dst[m] = "media"
      PROVE  Knows(toDo)
  <2>1. /\ toDo.pc = "scan" /\ toDo.g = back.g /\ toDo.i = back.i - 1
        /\ toDo.pending = Append(back.pending, m)
    BY <1>a DEF BackRuns
  <2>2. /\ Len(toDo.pending) = n + 1
        /\ \A j \in 1..n : toDo.pending[j] = back.pending[j]
        /\ toDo.pending[n + 1] = m
    BY <1>1, <1>2, <2>1
  <2> HIDE DEF toDo
  <2>0. \A a, b \in Nat : \A j \in 1..(b + 1) :
          /\ j # b + 1 => j \in 1..b /\ a - 1 + (b + 1) + 1 - j = a + b + 1 - j
          /\ a - 1 + (b + 1) + 1 - (b + 1) = a
    OBVIOUS
  <2>3. ASSUME NEW j \in 1..(n + 1)
        PROVE  toDo.pending[j] = Plan[back.g][back.i - 1 + (n + 1) + 1 - j]
    <3>1. CASE j = n + 1
      BY <1>1, <2>0, <2>2, <3>1
    <3>2. CASE j # n + 1
      <4>1. j \in 1..n /\ back.i - 1 + (n + 1) + 1 - j = back.i + n + 1 - j
        BY <1>1, <2>0, <3>2
      <4>2. back.pending[j] = Plan[back.g][back.i + n + 1 - j]
        BY <1>3, <4>1 DEF Listed
      <4> QED
        BY <2>2, <4>1, <4>2
    <3> QED
      BY <3>1, <3>2
  <2>4. Listed(toDo, toDo.i)
    <3>1. toDo.i + Len(toDo.pending) <= Len(Plan[toDo.g])
      BY <1>1, <1>4, <2>1, <2>2
    <3>2. toDo.i = back.i - 1 /\ Len(toDo.pending) = n + 1 /\ toDo.g = back.g
      BY <2>1, <2>2
    <3> QED
      BY <2>3, <3>1, <3>2, Zenon DEF Listed
  <2>5. Remain(toDo, toDo.i, toDo.i + (n + 1))
    <3>1. SUFFICES ASSUME NEW k \in back.i..size
                   PROVE  dst[Plan[back.g][k]] = "media" <=> k <= back.i + n
      BY <1>1, <2>1 DEF Remain
    <3>2. CASE k = back.i
      BY <1>1, <1>5, <3>2
    <3>3. CASE k # back.i
      <4>1. k \in (back.i + 1)..size
        BY <1>1, <3>3
      <4> QED
        BY <1>3, <4>1 DEF Remain
    <3> QED
      BY <3>2, <3>3
  <2>6. toDo.i <= size
    BY <1>1, <2>1
  <2> QED
    BY <1>3, <2>1, <2>2, <2>4, <2>5, <2>6 DEF Knows
<1>6. ASSUME dst[m] # "media"
      PROVE  Knows(done)
  <2>1. /\ done.pc = "scan" /\ done.g = back.g /\ done.i = back.i - 1
        /\ done.pending = back.pending
    BY <1>a DEF BackRuns
  <2> HIDE DEF done
  <2>2. n = 0
    <3>1. SUFFICES ASSUME n > 0
                   PROVE  FALSE
      BY <1>1
    <3>2. back.i + 1 \in (back.i + 1)..size /\ back.i + 1 <= back.i + n
          /\ back.i + 1 \in 1..size /\ back.i \in 1..size /\ back.i <= back.i + 1
      BY <1>1, <1>4, <3>1
    <3>3. dst[Plan[back.g][back.i + 1]] = "media"
      BY <1>3, <3>2 DEF Remain
    <3>4. dst[m] = "media"
      BY <1>1, <3>2, <3>3, BelowInQuarantine
    <3> QED
      BY <1>6, <3>4
  <2>3. Listed(done, done.i)
    BY <1>1, <1>4, <2>1, <2>2 DEF Listed
  <2>4. Remain(done, done.i, done.i + 0)
    <3>1. SUFFICES ASSUME NEW k \in back.i..size
                   PROVE  dst[Plan[back.g][k]] = "media" <=> k <= back.i - 1
      BY <1>1, <2>1 DEF Remain
    <3>2. CASE k = back.i
      BY <1>1, <1>6, <3>2
    <3>3. CASE k # back.i
      <4>1. k \in (back.i + 1)..size /\ ~(k <= back.i + n) /\ ~(k <= back.i - 1)
        BY <1>1, <2>2, <3>3
      <4> QED
        BY <1>3, <4>1 DEF Remain
    <3> QED
      BY <3>2, <3>3
  <2> QED
    BY <1>1, <1>3, <2>1, <2>2, <2>3, <2>4 DEF Knows
<1>7. /\ BackIdle \in BackRuns
      /\ \/ dst[m] # "media" /\ BackGoesTo(done)
         \/ dst[m] = "media" /\ BackGoesTo(toDo)
         \/ BackGoesTo(BackIdle) \/ BackIoFails("read", BackIdle)
         \/ /\ dst[m] # "media"
            /\ \/ BackLogs("member-completed", m, done)
               \/ BackLogFails("member-completed", m, BackIdle)
  <2> HIDE DEF m, toDo, done
  <2>1. (CountsAsRestored(m) => dst[m] # "media") /\ (StillQuarantined(m) => dst[m] = "media")
    BY DEF CountsAsRestored, Pending, Revalidates, AlreadyAbsent, StillQuarantined, Quarantined,
       Organized
  <2> QED
    <3>1. BackIdle \in BackRuns
      BY BackIdlePlaced DEF BackPlaced
    <3>2. \/ CountsAsRestored(m) /\ BackGoesTo(done)
          \/ StillQuarantined(m) /\ BackGoesTo(toDo)
          \/ BackGoesTo(BackIdle) \/ BackIoFails("read", BackIdle)
          \/ /\ CountsAsRestored(m)
             /\ \/ BackLogs("member-completed", m, done)
                \/ BackLogFails("member-completed", m, BackIdle)
      BY MissesRemembered, Zenon
      DEF ClassifyLoser, RestoredWithEvidence, BackIoFails, BackLogsAmid, m, toDo, done
    <3> QED
      BY <2>1, <3>1, <3>2
<1> HIDE DEF m, toDo, done
<1> QED
  BY <1>5, <1>6, <1>7, KnowsNothing, GoesToKnows, LogsKnow

\* At the end of its list a group is restored.
LEMMA GroupIsBack ==
  ASSUME RestoreTypeInv, \A f \in Members : OneCopy(f), Knows(back), back.pc = "start",
         back.i = Len(back.pending) + 1
  PROVE  InPlace(back.g)
<1>1. back.g \in GroupIds /\ back.i \in Nat /\ Len(back.pending) \in Nat
  BY BackRunType DEF RestoreTypeInv, BackPlaced
<1>2. Remain(back, 0, 0)
  BY <1>1 DEF Knows, Left
<1>3. SUFFICES ASSUME NEW k \in 1..Len(Plan[back.g])
               PROVE  src[Plan[back.g][k]] = "media" /\ dst[Plan[back.g][k]] = "absent"
  BY DEF InPlace, InGroup
<1>4. Plan[back.g][k] \in Members /\ Len(Plan[back.g]) \in Nat
  BY <1>1, GroupType
<1>5. ~(k <= 0) /\ k \in (0 + 1)..Len(Plan[back.g])
  BY <1>4
<1>6. dst[Plan[back.g][k]] # "media"
  BY <1>2, <1>5 DEF Remain
<1> QED
  BY <1>4, <1>6 DEF OneCopy

\* A restore that moves nothing goes on knowing what remains.
LEMMA StillKnows ==
  ASSUME RestoreTypeInv, \A f \in Members : OneCopy(f), InReverse, Knows(back), RestoreStep,
         ~RenameRestored, NothingMissed'
  PROVE  Knows(back')
<1>a. back \in BackRuns /\ BackPlaced(back) /\ backJournal \in Journals
  BY DEF RestoreTypeInv, BackPlaced
<1>n. back.g \in 0..Len(Plan) /\ back.i \in Nat /\ Len(back.pending) \in Nat
  BY <1>a, BackRunType
<1>i. Knows(BackIdle) /\ BackIdle \in BackRuns
  BY KnowsNothing, BackIdlePlaced DEF BackPlaced
<1>c. back.pc \notin {"idle", "group"} =>
        back.g \in GroupIds /\ \A h \in GroupIds : h > back.g => InPlace(h)
  BY <1>a DEF BackPlaced, Knows
<1>t. ASSUME NEW phase \in BackPhases
      PROVE  /\ BackTo(phase) \in BackRuns
             /\ BackTo(phase).pc = phase /\ BackTo(phase).g = back.g
             /\ BackTo(phase).i = back.i /\ BackTo(phase).pending = back.pending
  BY <1>a DEF BackTo, BackRuns
<1>p. "failed" \in BackPhases /\ "rename" \in BackPhases
  BY DEF BackPhases
<1>f. back.pc \notin {"idle", "group"} => Knows(BackTo("failed")) /\ BackTo("failed") \in BackRuns
  BY <1>c, <1>p, <1>t DEF Knows
<1>1. CASE SkipRestoredGroup
  <2> DEFINE on == [back EXCEPT !.g = @ - 1]
  <2>1. back.g \in GroupIds /\ back.pc = "group" /\ back.g \in Nat
    BY <1>1, <1>a, <1>n DEF SkipRestoredGroup, BackAt, Journals
  <2>2. on.pc = "group" /\ on.g = back.g - 1
    BY <1>a, <2>1 DEF BackRuns
  <2>3. ASSUME \A m \in InGroup(back.g) : CountsAsRestored(m)
        PROVE  Knows(on)
    <3>1. InPlace(back.g)
      BY <2>1, <2>3, CountedInPlace DEF InPlace
    <3>2. \A h \in GroupIds : h > back.g => InPlace(h)
      BY <2>1 DEF Knows
    <3>3. \A h \in GroupIds : h > back.g - 1 => h = back.g \/ h > back.g
      BY <2>1 DEF GroupIds
    <3> QED
      BY <2>2, <3>1, <3>2, <3>3 DEF Knows
  <2> HIDE DEF on
  <2>4. \/ (\A m \in InGroup(back.g) : CountsAsRestored(m)) /\ BackGoesTo(on)
        \/ BackGoesTo(BackIdle) \/ BackIoFails("read", BackIdle)
    BY <1>1, MissesRemembered DEF SkipRestoredGroup, AllRestored, BackIoFails, on
  <2> QED
    BY <1>i, <2>3, <2>4, GoesToKnows
<1>2. CASE ScanRestoreGroup
  <2> DEFINE on == [back EXCEPT !.pc = "scan", !.i = Len(Plan[back.g]), !.pending = <<>>]
  <2>1. back.g \in GroupIds /\ back.pc = "group"
    BY <1>2 DEF ScanRestoreGroup, BackAt
  <2>2. Len(Plan[back.g]) \in Nat
    BY <2>1, GroupType
  <2>3. on.pc = "scan" /\ on.g = back.g /\ on.i = Len(Plan[back.g]) /\ on.pending = <<>>
    BY <1>a DEF BackRuns
  <2> HIDE DEF on
  <2>4. Listed(on, on.i) /\ Remain(on, on.i, on.i + Len(on.pending))
    BY <2>2, <2>3 DEF Listed, Remain
  <2>5. Knows(on)
    BY <2>1, <2>2, <2>3, <2>4 DEF Knows
  <2>6. BackGoesTo(on)
    BY <1>2 DEF ScanRestoreGroup, on
  <2> QED
    BY <2>5, <2>6, GoesToKnows
<1>3. CASE ClassifyLoser
  BY <1>3, ClassifyKnows
<1>4. CASE BeginRestoreGroup
  <2>1. back.pc = "scan" /\ back.i = 0
    BY <1>4 DEF BeginRestoreGroup, BackAt
  <2> DEFINE on == [back EXCEPT !.pc = "start", !.i = 1]
  <2>2. on.pc = "start" /\ on.g = back.g /\ on.i = 1 /\ on.pending = back.pending
    BY <1>a DEF BackRuns
  <2> HIDE DEF on
  <2>3. Listed(back, 0) /\ Remain(back, 0, Len(back.pending))
    BY <1>n, <2>1 DEF Knows
  <2>6. Left(on) = Len(back.pending)
    BY <1>n, <2>2 DEF Left
  <2>4. Knows(on)
    BY <1>c, <2>1, <2>2, <2>3, <2>6 DEF Knows, Listed, Remain
  <2>5. BackLogs("group-started", {}, on) \/ BackLogFails("group-started", {}, BackIdle)
    BY <1>4 DEF BeginRestoreGroup, on
  <2> QED
    BY <1>i, <2>4, <2>5, LogsKnow
<1>5. CASE FinishRestore
  <2>1. \/ BackGoesTo(BackIdle) \/ BackIoFails("read", BackIdle)
        \/ BackLogs("completed", {}, BackIdle)
        \/ BackLogFails("completed", {}, BackIdle)
    BY <1>5, MissesRemembered DEF FinishRestore, BackLogsAmid
  <2> QED
    BY <1>i, <2>1, GoesToKnows, LogsKnow
<1>6. CASE PrepareRestore
  <2> DEFINE on == BackTo("rename")
  <2>1. back.pc = "start"
    BY <1>6 DEF PrepareRestore, BackAt
  <2>2. on.pc = "rename" /\ on.g = back.g /\ on.i = back.i /\ on.pending = back.pending
    BY <1>p, <1>t
  <2> HIDE DEF on
  <2>3. Left(on) = Left(back)
    BY <2>1, <2>2 DEF Left
  <2>4. Knows(on)
    BY <1>c, <2>1, <2>2, <2>3 DEF Knows, Listed, Remain
  <2>5. \/ BackGoesTo(BackTo("failed")) \/ BackIoFails("read", BackTo("failed"))
        \/ \E m : \/ BackLogs("member-started", m, on)
                 \/ BackLogFails("member-started", m, BackTo("failed"))
    BY <1>6, Zenon DEF PrepareRestore, AnnounceRestore, on
  <2> QED
    BY <1>f, <2>1, <2>4, <2>5, LogsKnow, GoesToKnows
<1>7. CASE RecordRestored
  <2> DEFINE on == [back EXCEPT !.pc = "start", !.i = @ + 1]
  <2>1. back.pc = "restored"
    BY <1>7 DEF RecordRestored, BackAt
  <2>2. on.pc = "start" /\ on.g = back.g /\ on.i = back.i + 1 /\ on.pending = back.pending
    BY <1>a DEF BackRuns
  <2> HIDE DEF on
  <2>3. Left(on) = Left(back)
    BY <1>n, <2>1, <2>2 DEF Left
  <2>4. Knows(on)
    BY <1>c, <2>1, <2>2, <2>3 DEF Knows, Listed, Remain
  <2>5. \/ BackGoesTo(BackTo("failed")) \/ BackIoFails("read", BackTo("failed"))
        \/ \E m : \/ BackLogs("member-completed", m, on)
                 \/ BackLogFails("member-completed", m, BackTo("failed"))
    BY <1>7, Zenon DEF RecordRestored, on
  <2> QED
    BY <1>f, <2>1, <2>4, <2>5, LogsKnow, GoesToKnows
<1>8. CASE CompleteRestoreGroup
  <2> DEFINE on == [back EXCEPT !.pc = "group", !.g = @ - 1]
  <2>1. back.pc = "start" /\ back.i = Len(back.pending) + 1 /\ back.g \in GroupIds
    BY <1>8, <1>a DEF CompleteRestoreGroup, BackAt, BackPlaced
  <2>2. on.pc = "group" /\ on.g = back.g - 1
    BY <1>a DEF BackRuns
  <2> HIDE DEF on
  <2>4. InPlace(back.g)
    BY <2>1, GroupIsBack
  <2>5. \A h \in GroupIds : h > back.g - 1 => h = back.g \/ h > back.g
    BY <2>1 DEF GroupIds
  <2>6. Knows(on)
    BY <1>c, <2>1, <2>2, <2>4, <2>5 DEF Knows
  <2>7. BackLogs("group-completed", {}, on)
          \/ BackLogFails("group-completed", {}, BackTo("failed"))
    BY <1>8 DEF CompleteRestoreGroup, on
  <2> QED
    BY <1>f, <2>1, <2>6, <2>7, LogsKnow
<1>9. CASE FailRestoreGroup
  <2>1. BackLogs("group-failed", {}, BackIdle) \/ BackLogFails("group-failed", {}, BackIdle)
    BY <1>9 DEF FailRestoreGroup
  <2> QED
    BY <1>i, <2>1, LogsKnow
<1>10. CASE CrashRestore \/ InterruptRestore
  BY <1>10, <1>f, <1>i DEF CrashRestore, InterruptRestore, BackGuarded
<1> QED
  BY <1>1, <1>2, <1>3, <1>4, <1>5, <1>6, <1>7, <1>8, <1>9, <1>10 DEF RestoreStep

\* No member is in two places of the plan.
LEMMA OnePlace ==
  ASSUME NEW g \in GroupIds, NEW h \in GroupIds,
         NEW k \in 1..Len(Plan[g]), NEW l \in 1..Len(Plan[h]),
         Plan[g][k] = Plan[h][l]
  PROVE  g = h /\ k = l
BY PlanAssumption

\* The rename takes the last member that remains.
LEMMA MovesTheLast ==
  ASSUME RestoreTypeInv, RestoreTypeInv', InReverse, Knows(back), RenameRestored,
         MoveBack(back.pending[back.i]), BackGoesTo(BackTo("restored"))
  PROVE  InReverse' /\ Knows(back)'
<1>0. PICK g, n, m : g = back.g /\ n = Len(back.pending) + 1 - back.i /\ m = back.pending[back.i]
  OBVIOUS
<1> DEFINE size == Len(Plan[g])
<1>1. /\ back \in BackRuns /\ back.pc = "rename" /\ g = back.g
      /\ g \in GroupIds /\ back.i \in 1..Len(back.pending) /\ MoveBack(m)
  BY <1>0 DEF RestoreTypeInv, BackPlaced, RenameRestored, BackAt
<1>2. /\ size \in Nat /\ Len(back.pending) \in Nat /\ back.i \in Nat /\ g \in Nat
      /\ m \in Members
      /\ src \in [Members -> Contents] /\ dst \in [Members -> Contents]
  BY <1>0, <1>1, GroupType, BackRunType
  DEF RestoreTypeInv, QuarantineTypeInv, QuarantineTypeOK, FilesTypeOK
<1>3. Listed(back, 0) /\ Remain(back, 0, n) /\ \A h \in GroupIds : h > g => InPlace(h)
  BY <1>0, <1>1 DEF Knows, Left
<1>4. n \in 1..size /\ m = Plan[g][n]
  <2>1. n \in 1..size
    BY <1>0, <1>1, <1>2, <1>3 DEF Listed
  <2>2. 0 + Len(back.pending) + 1 - back.i = n
    BY <1>0, <1>2
  <2> QED
    BY <1>0, <1>1, <1>3, <2>1, <2>2 DEF Listed
<1>5. dst[m] = "media"
  BY <1>1, <1>2, <1>3, <1>4 DEF Remain
<1>6. \A h \in GroupIds : h < g => InQuarantine(h)
  BY <1>1, <1>4, <1>5, BelowInQuarantine
<1>7. \A h \in GroupIds : \A k \in 1..Len(Plan[h]) :
        Plan[h][k] \in Members /\ (Plan[h][k] = m => h = g /\ k = n)
  <2>1. SUFFICES ASSUME NEW h \in GroupIds, NEW k \in 1..Len(Plan[h])
                 PROVE  Plan[h][k] \in Members /\ (Plan[h][k] = m => h = g /\ k = n)
    OBVIOUS
  <2>2. Plan[h][k] \in Members
    BY GroupType
  <2>3. Plan[h][k] = Plan[g][n] => h = g /\ k = n
    BY <1>1, <1>4, OnePlace
  <2> QED
    BY <1>4, <2>2, <2>3
<1>8. /\ \A f \in Members : f # m => src'[f] = src[f] /\ dst'[f] = dst[f]
      /\ dst'[m] = "absent"
  BY <1>1, <1>2 DEF MoveBack
<1>9. \A h \in GroupIds : h # g => (InPlace(h) => InPlace(h)') /\ (InQuarantine(h) => InQuarantine(h)')
  BY <1>7, <1>8 DEF InPlace, InQuarantine, InGroup
<1>10. \A k \in 1..size : dst'[Plan[g][k]] = "media" <=> k <= n - 1
  <2>1. SUFFICES ASSUME NEW k \in 1..size
                 PROVE  dst'[Plan[g][k]] = "media" <=> k <= n - 1
    OBVIOUS
  <2>2. CASE k = n
    BY <1>2, <1>4, <1>8, <2>2
  <2>3. CASE k # n
    <3>1. dst'[Plan[g][k]] = dst[Plan[g][k]]
      BY <1>1, <1>7, <1>8, <2>3
    <3>2. dst[Plan[g][k]] = "media" <=> k <= n
      BY <1>1, <1>2, <1>3 DEF Remain
    <3>3. k <= n <=> k <= n - 1
      BY <1>2, <1>4, <2>3
    <3> QED
      BY <3>1, <3>2, <3>3
  <2> QED
    BY <2>2, <2>3
<1>11. \A h \in GroupIds : h < g \/ h > g => h # g
  BY <1>2 DEF GroupIds
<1>12. PassedBack(g, n - 1)'
  BY <1>3, <1>6, <1>9, <1>10, <1>11 DEF PassedBack
<1>13. n - 1 \in 0..size
  BY <1>2, <1>4
<1>14. /\ back'.pc = "restored" /\ back'.g = g /\ back'.i = back.i
       /\ back'.pending = back.pending
  BY <1>1 DEF BackGoesTo, BackTo, BackRuns
<1>15. Left(back') = n - 1
  BY <1>0, <1>2, <1>14 DEF Left
<1>16. Knows(back)'
  <2>1. Listed(back', 0)
    BY <1>1, <1>3, <1>14 DEF Listed
  <2>2. \A k \in (0 + 1)..size : dst'[Plan[g][k]] = "media" <=> k <= Left(back')
    BY <1>10, <1>15
  <2>3. \A h \in GroupIds : h > g => InPlace(h)'
    BY <1>3, <1>9, <1>11
  <2> QED
    BY <1>14, <2>1, <2>2, <2>3 DEF Knows, Listed, Remain, Left
<1> QED
  BY <1>1, <1>12, <1>13, <1>16 DEF InReverse

-------------------------------------------------------------------------------
(* The record of what is restored. *)

\* What a line adds to the restore journal, if it is written at all.
LEMMA LineAdds ==
  ASSUME backJournal \in Journals, NEW event, NEW m, NEW next, NEW otherwise,
         BackLogs(event, m, next) \/ BackLogFails(event, m, otherwise)
  PROVE  /\ \A f \in backJournal'.completed :
              f \in backJournal.completed \/ (event = "member-completed" /\ f = m)
         /\ \A g \in backJournal'.groups :
              g \in backJournal.groups \/ (event = "group-completed" /\ g = back.g)
         /\ backJournal'.done => backJournal.done \/ event = "completed"
<1> DEFINE state == Replay(backJournal, event, back.g, m)
<1>1. /\ \A f \in state.completed :
           f \in backJournal.completed \/ (event = "member-completed" /\ f = m)
      /\ \A g \in state.groups :
           g \in backJournal.groups \/ (event = "group-completed" /\ g = back.g)
      /\ state.done => backJournal.done \/ event = "completed"
  BY DEF Replay, Undone, Journals
<1>2. state \in [file : {"none", "readable", "unreadable"}, started : {state.started},
                completed : {state.completed}, groups : {state.groups}, done : {state.done}]
  BY DEF Replay, Undone, Journals
<1> HIDE DEF state
<1>3. \A kind : /\ [state EXCEPT !.file = kind].completed = state.completed
                /\ [state EXCEPT !.file = kind].groups = state.groups
                /\ [state EXCEPT !.file = kind].done = state.done
  BY <1>2
<1>4. \A kind : /\ [backJournal EXCEPT !.file = kind].completed = backJournal.completed
                /\ [backJournal EXCEPT !.file = kind].groups = backJournal.groups
                /\ [backJournal EXCEPT !.file = kind].done = backJournal.done
  BY DEF Journals
<1>5. \/ backJournal' = backJournal
      \/ \E kind : backJournal' = [backJournal EXCEPT !.file = kind]
      \/ \E kind : backJournal' = [state EXCEPT !.file = kind]
  BY DEF BackLogs, BackLogFails, Written, state
<1>6. CASE backJournal' = backJournal
  BY <1>6
<1>7. CASE \E kind : backJournal' = [backJournal EXCEPT !.file = kind]
  BY <1>4, <1>7
<1>8. CASE \E kind : backJournal' = [state EXCEPT !.file = kind]
  BY <1>1, <1>3, <1>8
<1> QED
  BY <1>5, <1>6, <1>7, <1>8

\* A true line keeps the record true.
LEMMA TrueLine ==
  ASSUME RestoreTypeInv, RestoredAsRecorded, UNCHANGED files,
         NEW event, NEW m, NEW next, NEW otherwise,
         event = "member-completed" => src[m] = "media",
         event = "group-completed" => InPlace(back.g),
         event = "completed" => \A f \in Members : src[f] = "media",
         BackLogs(event, m, next) \/ BackLogFails(event, m, otherwise)
  PROVE  RestoredAsRecorded'
<1>1. /\ \A f \in backJournal'.completed : src[f] = "media"
      /\ \A g \in backJournal'.groups : InPlace(g)
      /\ backJournal'.done => \A f \in Members : src[f] = "media"
  BY LineAdds DEF RestoreTypeInv, RestoredAsRecorded
<1> QED
  BY <1>1 DEF RestoredAsRecorded, InPlace, files

LEMMA NoLine ==
  ASSUME RestoredAsRecorded, UNCHANGED <<files, backJournal>>
  PROVE  RestoredAsRecorded'
BY DEF RestoredAsRecorded, InPlace, files

\* A rename takes only what is not recorded yet.
LEMMA MoveKeepsRecords ==
  ASSUME RestoreTypeInv, RestoredAsRecorded, UNCHANGED backJournal, NEW m \in Members, MoveBack(m)
  PROVE  RestoredAsRecorded'
<1>1. /\ src \in [Members -> Contents] /\ dst \in [Members -> Contents]
      /\ backJournal.completed \subseteq Members /\ backJournal.groups \subseteq GroupIds
  BY DEF RestoreTypeInv, QuarantineTypeInv, QuarantineTypeOK, FilesTypeOK, Journals
<1>2. \A f \in Members : f # m => src'[f] = src[f] /\ dst'[f] = dst[f]
  BY <1>1 DEF MoveBack
<1>3. src[m] # "media" /\ dst[m] # "absent"
  BY DEF MoveBack, CanMoveBack
<1>4. \A g \in GroupIds : \A f \in InGroup(g) : f \in Members
  BY GroupType DEF InGroup
<1>5. \A g \in GroupIds : InPlace(g) => InPlace(g)'
  BY <1>2, <1>3, <1>4 DEF InPlace, InGroup
<1> QED
  BY <1>1, <1>2, <1>3, <1>5 DEF RestoredAsRecorded

\* The restore records only what it has looked at.
LEMMA RecordsOnlyWhatIs ==
  ASSUME RestoreTypeInv, \A f \in Members : OneCopy(f), Knows(back), RestoredAsRecorded, RestoreStep,
         ~RenameRestored, NothingMissed'
  PROVE  RestoredAsRecorded'
<1>a. back \in BackRuns /\ BackPlaced(back)
  BY DEF RestoreTypeInv, BackPlaced
<1>1. UNCHANGED files
  BY Zenon DEF RestoreStep, SkipRestoredGroup, ScanRestoreGroup, ClassifyLoser,
     BeginRestoreGroup, PrepareRestore, RecordRestored, CompleteRestoreGroup,
     FailRestoreGroup, FinishRestore, CrashRestore, InterruptRestore
<1>2. CASE UNCHANGED backJournal
  BY <1>1, <1>2, NoLine
<1>3. CASE ClassifyLoser /\ ~UNCHANGED backJournal
  <2>1. PICK m, next : /\ m = Plan[back.g][back.i] /\ CountsAsRestored(m)
                       /\ \/ BackLogs("member-completed", m, next)
                          \/ BackLogFails("member-completed", m, BackIdle)
    BY <1>3, MissesRemembered, Zenon
    DEF ClassifyLoser, RestoredWithEvidence, BackGoesTo, BackIoFails, BackLogsAmid
  <2>2. m \in Members
    BY <1>3, <1>a, <2>1, GroupType DEF ClassifyLoser, BackPlaced, BackAt
  <2> QED
    BY <1>1, <2>1, <2>2, CountedInPlace, TrueLine
<1>4. CASE RecordRestored /\ ~UNCHANGED backJournal
  <2>1. PICK m, next : /\ m = back.pending[back.i] /\ CountsAsRestored(m)
                       /\ \/ BackLogs("member-completed", m, next)
                          \/ BackLogFails("member-completed", m, BackTo("failed"))
    BY <1>4, Zenon DEF RecordRestored, BackGoesTo, BackIoFails
  <2>2. m \in Members
    BY <1>4, <1>a, <2>1, BackRunType DEF RecordRestored, BackPlaced, BackAt
  <2> QED
    BY <1>1, <2>1, <2>2, CountedInPlace, TrueLine
<1>5. CASE CompleteRestoreGroup
  <2>1. InPlace(back.g)
    BY <1>5, GroupIsBack DEF CompleteRestoreGroup, BackAt
  <2>2. PICK next : \/ BackLogs("group-completed", {}, next)
                    \/ BackLogFails("group-completed", {}, BackTo("failed"))
    BY <1>5 DEF CompleteRestoreGroup
  <2> QED
    BY <1>1, <2>1, <2>2, TrueLine
<1>6. CASE FinishRestore /\ ~UNCHANGED backJournal
  <2>1. /\ \A m \in Members : CountsAsRestored(m)
        /\ BackLogs("completed", {}, BackIdle) \/ BackLogFails("completed", {}, BackIdle)
    BY <1>6, MissesRemembered, Zenon
    DEF FinishRestore, AllRestored, BackGoesTo, BackIoFails, BackLogsAmid
  <2> QED
    BY <1>1, <2>1, CountedInPlace, TrueLine
<1>7. CASE PrepareRestore \/ BeginRestoreGroup \/ FailRestoreGroup
  <2>0. \E event \in {"member-started", "group-started", "group-failed"} :
          \E m, next, otherwise :
            \/ BackGoesTo(next) \/ BackIoFails("read", otherwise)
            \/ BackLogs(event, m, next) \/ BackLogFails(event, m, otherwise)
    BY <1>7, Zenon DEF PrepareRestore, AnnounceRestore, BeginRestoreGroup, FailRestoreGroup
  <2>1. PICK event \in {"member-started", "group-started", "group-failed"} :
          \E m, next, otherwise :
            \/ BackGoesTo(next) \/ BackIoFails("read", otherwise)
            \/ BackLogs(event, m, next) \/ BackLogFails(event, m, otherwise)
    BY <2>0
  <2>4. PICK m, next, otherwise :
          \/ BackGoesTo(next) \/ BackIoFails("read", otherwise)
          \/ BackLogs(event, m, next) \/ BackLogFails(event, m, otherwise)
    BY <2>1, Zenon
  <2>2. CASE BackGoesTo(next) \/ BackIoFails("read", otherwise)
    BY <1>2, <2>2 DEF BackGoesTo, BackIoFails
  <2>3. CASE BackLogs(event, m, next) \/ BackLogFails(event, m, otherwise)
    BY <1>1, <2>1, <2>3, TrueLine
  <2> QED
    BY <2>2, <2>3, <2>4
<1>8. CASE SkipRestoredGroup \/ ScanRestoreGroup \/ CrashRestore \/ InterruptRestore
  BY <1>2, <1>8 DEF SkipRestoredGroup, ScanRestoreGroup, CrashRestore, InterruptRestore,
     BackGoesTo, BackIoFails
<1> QED
  BY <1>2, <1>3, <1>4, <1>5, <1>6, <1>7, <1>8 DEF RestoreStep

-------------------------------------------------------------------------------
(* A quarantine that is recorded as completed. *)

\* Only the end of a run records it as completed.
LEMMA DoneKept ==
  ASSUME QuarantineTypeOK, NEW event, NEW m, NEW next, NEW kind, event # "completed",
         Logs(event, m, next) \/ LogFails(event, m, next) \/ LogsAmid(kind, event, m, next)
  PROVE  journal'.done = journal.done
<1>1. Replay(journal, event, run.g, m).done = journal.done
  BY DEF QuarantineTypeOK, Replay, Undone, Journals
<1>2. Replay(journal, event, run.g, m) \in [file : {"none", "readable", "unreadable"},
        started : {Replay(journal, event, run.g, m).started},
        completed : {Replay(journal, event, run.g, m).completed},
        groups : {Replay(journal, event, run.g, m).groups},
        done : {Replay(journal, event, run.g, m).done}]
  BY DEF QuarantineTypeOK, Replay, Undone, Journals
<1>3. Written(journal, run, event, m).done = journal.done
  BY <1>1, <1>2 DEF QuarantineTypeOK, Written, Journals
<1> QED
  BY <1>3 DEF QuarantineTypeOK, Logs, LogFails, LogsAmid, Journals

\* The line that records the run as completed leaves a journal behind, and ends
\* the run.
LEMMA DoneWritten ==
  ASSUME QuarantineTypeOK, journal.file # "none" \/ ~journal.done,
         Logs("completed", {}, Idle) \/ LogFails("completed", {}, Idle)
  PROVE  run'.pc = "idle" /\ (journal'.file # "none" \/ ~journal'.done)
<1>1. Replay(journal, "completed", run.g, {}) = [journal EXCEPT !.done = TRUE]
  BY DEF Replay
<1>2. Written(journal, run, "completed", {}).file # "none"
  BY <1>1 DEF QuarantineTypeOK, Written, Journals
<1>3. [Idle EXCEPT !.ahead = Idle.pc # "idle"].pc = "idle" /\ Idle.pc = "idle"
  BY DEF Idle
<1> QED
  BY <1>2, <1>3 DEF QuarantineTypeOK, Logs, LogFails, Journals

\* A quarantine records itself as completed when all of its losers are in
\* quarantine, and then it ends.
LEMMA DoneSteps ==
  ASSUME QuarantineTypeOK, Begin \/ QuarantineStep, ~journal.done, journal'.done
  PROVE  run'.pc = "idle" /\ journal'.file # "none" /\ UNCHANGED files /\ AllQuarantined
<1>1. CASE QuarantineStep /\ FinishQuarantine
  <2>1. ~UNCHANGED journal
    OBVIOUS
  <2>2. /\ AllQuarantined
        /\ Logs("completed", {}, Idle) \/ LogFails("completed", {}, Idle)
    BY <1>1, <2>1, Zenon DEF FinishQuarantine, GoesTo, IoFails
  <2> QED
    BY <1>1, <2>2, DoneWritten DEF FinishQuarantine
<1>2. CASE ~(QuarantineStep /\ FinishQuarantine)
  <2>1. \/ UNCHANGED journal
        \/ \E event \in {"run-started", "member-started", "member-completed",
               "member-rollback-started", "member-rollback-completed", "group-completed",
               "group-started", "group-failed", "directory-create-started",
               "directory-created"} :
             \E m, next, kind : \/ Logs(event, m, next) \/ LogFails(event, m, next)
                               \/ LogsAmid(kind, event, m, next)
    <3>1. CASE Begin
      BY <3>1, Zenon DEF Begin, StartQuarantine, ResumeQuarantine, GoesTo
    <3>2. CASE QuarantineStep
      BY <1>2, <3>2, Zenon DEF QuarantineStep, SkipGroup, EnterGroup, ScanLoser, BeginGroup,
         ValidateGroup, PrepareLoser, Announce, MakeQuarantineParent, RenameLoser,
         RecordLoser, CompleteGroup, LeaveGroup, UndoLoser, UndoRename, RecordUndo,
         FailGroup, Crash, Interrupt, GoesTo, IoFails
    <3> QED
      BY <3>1, <3>2
  <2> QED
    BY <2>1, DoneKept
<1> QED
  BY <1>1, <1>2

\* Nothing but a resume could go on with a completed quarantine, and it does not.
LEMMA DoneStays ==
  ASSUME journal.done, journal.file # "none", At("idle")
  PROVE  ~Begin /\ ~QuarantineStep
BY DEF Begin, StartQuarantine, ResumeQuarantine, QuarantineStep, At

-------------------------------------------------------------------------------
(* Order and record through every step of quarantine and restore. *)

BackReverseInv ==
  /\ RestoreTypeInv /\ LosersConserved
  /\ journal.done => At("idle") /\ journal.file # "none"
  /\ ~journal.done => BackAt("idle") /\ backJournal = NoJournal
  /\ journal.done /\ NothingDeleted /\ NothingMissed => InReverse /\ Knows(back) /\ RestoredAsRecorded

\* A step keeps the record of the faults, or a fault strikes.
LEMMA RestoreFaults ==
  ASSUME [RestoreNext]_restoreVars
  PROVE  UNCHANGED faults \/ \E kinds : Strike(kinds)
<1>1. ASSUME NEW event, NEW m, NEW next, NEW otherwise,
             BackLogs(event, m, next) \/ BackLogFails(event, m, otherwise)
      PROVE  UNCHANGED faults \/ \E kinds : Strike(kinds)
  BY <1>1 DEF BackLogs, BackLogFails, NoFault, Fault, DiesWriting
<1>2. ASSUME NEW kind, NEW event, NEW m, NEW next,
             BackGoesTo(next) \/ BackIoFails(kind, next) \/ BackLogsAmid(kind, event, m, next)
      PROVE  UNCHANGED faults \/ \E kinds : Strike(kinds)
  BY <1>2 DEF BackGoesTo, BackIoFails, BackLogsAmid, NoFault, Fault
<1>3. CASE BeginRestore
  BY <1>1, <1>2, <1>3, Zenon DEF BeginRestore, StartRestore, ResumeRestore
<1>4. CASE RestoreStep
  <2>1. CASE SkipRestoredGroup \/ ScanRestoreGroup \/ ClassifyLoser \/ BeginRestoreGroup
             \/ FinishRestore
    BY <1>1, <1>2, <2>1, Zenon DEF SkipRestoredGroup, ScanRestoreGroup, ClassifyLoser,
       BeginRestoreGroup, FinishRestore
  <2>2. CASE PrepareRestore \/ RecordRestored \/ CompleteRestoreGroup \/ FailRestoreGroup
    BY <1>1, <1>2, <2>2, Zenon DEF PrepareRestore, AnnounceRestore, RecordRestored,
       CompleteRestoreGroup, FailRestoreGroup
  <2>3. CASE RenameRestored
    BY <1>2, <2>3, Zenon DEF RenameRestored
  <2>4. CASE CrashRestore \/ InterruptRestore
    BY <2>4, Zenon DEF CrashRestore, InterruptRestore, Fault
  <2> QED
    BY <1>4, <2>1, <2>2, <2>3, <2>4 DEF RestoreStep
<1>5. CASE Quarantining \/ Interfering \/ UNCHANGED restoreVars
  BY <1>5, QuarantineFaults, Zenon
  DEF Quarantining, Interfering, restoreVars, quarantineVars, QuarantineNext
<1> QED
  BY <1>3, <1>4, <1>5 DEF RestoreNext

\* Neither quarantine nor restore loses or copies a loser.
LEMMA RestoreConserves ==
  ASSUME RestoreTypeInv, LosersConserved, [RestoreNext]_restoreVars
  PROVE  LosersConserved'
<1>a. QuarantineTypeInv /\ FilesTypeOK /\ Placed(run) /\ BackPlaced(back)
  BY DEF RestoreTypeInv, QuarantineTypeInv, QuarantineTypeOK
<1>1. CASE Quarantining \/ Interfering \/ UNCHANGED restoreVars
  <2>1. [QuarantineNext]_quarantineVars
    BY <1>1, Zenon DEF Quarantining, Interfering, restoreVars, QuarantineNext
  <2> QED
    BY <1>a, <2>1, LosersInductive DEF LosersInv
<1>2. CASE BeginRestore \/ RestoreStep
  <2>1. SUFFICES ASSUME NothingDeleted'
                 PROVE  \A m \in Members : OneCopy(m)'
    BY DEF LosersConserved
  <2>2. \A m \in Members : OneCopy(m)
    BY <2>1, RestoreFaults, DeletionsRemembered DEF LosersConserved
  <2>3. (\E m \in Members : MoveBack(m)) \/ UNCHANGED files
    BY <1>2, <1>a, RestoreStepFiles DEF BeginRestore
  <2> QED
    BY <1>a, <2>2, <2>3, LosersKept
<1> QED
  BY <1>1, <1>2 DEF RestoreNext

\* A completed quarantine holds all losers: nothing is passed back yet.
LEMMA NothingPassedBack ==
  ASSUME Plan # <<>>, AllQuarantined
  PROVE  InReverse
<1>1. Len(Plan) \in GroupIds /\ \A h \in GroupIds : ~(h > Len(Plan))
  BY PlanAssumption DEF GroupIds
<1>2. Len(Plan[Len(Plan)]) \in Nat
  BY <1>1, GroupType
<1>3. \A g \in GroupIds : \A m \in InGroup(g) :
        m \in Members /\ src[m] = "absent" /\ dst[m] = "media"
  BY GroupType DEF AllQuarantined, Quarantined, Organized, InGroup
<1>4. \A k \in 1..Len(Plan[Len(Plan)]) :
        dst[Plan[Len(Plan)][k]] = "media" /\ k <= Len(Plan[Len(Plan)])
  BY <1>1, <1>3 DEF InGroup
<1>5. PassedBack(Len(Plan), Len(Plan[Len(Plan)]))
  BY <1>1, <1>3, <1>4 DEF PassedBack, InQuarantine
<1>6. Len(Plan[Len(Plan)]) \in 0..Len(Plan[Len(Plan)])
  BY <1>2
<1> QED
  BY <1>1, <1>5, <1>6 DEF InReverse

LEMMA StillInReverse ==
  ASSUME UNCHANGED files
  PROVE  /\ InReverse => InReverse'
         /\ Knows(back') => Knows(back)'
<1>1. InReverse => InReverse'
  BY DEF InReverse, PassedBack, InPlace, InQuarantine, files
<1>2. Knows(back') => Knows(back)'
  BY DEF Knows, Listed, Remain, Left, InPlace, files
<1> QED
  BY <1>1, <1>2

\* A step of the restore stays in reverse order and records what is true.
LEMMA RestoreStepReverse ==
  ASSUME RestoreTypeInv, RestoreTypeInv', \A f \in Members : OneCopy(f), InReverse,
         Knows(back), RestoredAsRecorded, RestoreStep, NothingMissed'
  PROVE  InReverse' /\ Knows(back)' /\ RestoredAsRecorded'
<1>1. CASE ~RenameRestored
  <2>1. UNCHANGED files
    BY <1>1, Zenon DEF RestoreStep, SkipRestoredGroup, ScanRestoreGroup, ClassifyLoser,
       BeginRestoreGroup, PrepareRestore, RecordRestored, CompleteRestoreGroup,
       FailRestoreGroup, FinishRestore, CrashRestore, InterruptRestore
  <2> QED
    BY <1>1, <2>1, StillInReverse, StillKnows, RecordsOnlyWhatIs
<1>2. CASE RenameRestored
  <2>1. back.pending[back.i] \in Members /\ back.pc = "rename"
    BY <1>2, BackRunType DEF RestoreTypeInv, RenameRestored, BackAt, BackPlaced
  <2>2. CASE MoveBack(back.pending[back.i]) /\ BackGoesTo(BackTo("restored"))
    <3>1. RestoredAsRecorded'
      BY <2>1, <2>2, MoveKeepsRecords DEF BackGoesTo
    <3> QED
      BY <1>2, <2>2, <3>1, MovesTheLast
  <2>3. CASE UNCHANGED <<files, backJournal>> /\ back' = BackTo("failed")
    <3>1. BackTo("failed").pc = "failed" /\ BackTo("failed").g = back.g
      BY BackToType DEF RestoreTypeInv, BackPlaced
    <3>2. Knows(BackTo("failed"))
      BY <2>1, <3>1 DEF Knows
    <3> QED
      BY <2>3, <3>2, StillInReverse, NoLine
  <2> QED
    BY <1>2, <2>2, <2>3 DEF RenameRestored, BackGoesTo, BackIoFails
<1> QED
  BY <1>1, <1>2

LEMMA BackReverseInductive ==
  ASSUME Plan # <<>>
  PROVE  /\ RestoreInit => BackReverseInv
         /\ BackReverseInv /\ [RestoreNext]_restoreVars => BackReverseInv'
<1>1. ASSUME RestoreInit
      PROVE  BackReverseInv
  <2>1. RestoreTypeInv /\ LosersConserved
    BY <1>1, RestoreTypeInductive, LosersInductive DEF RestoreInit, LosersInv
  <2>2. ~journal.done /\ backJournal = NoJournal /\ BackAt("idle")
    BY <1>1, BackIdlePlaced DEF RestoreInit, QuarantineInit, NoJournal, BackAt
  <2> QED
    BY <2>1, <2>2 DEF BackReverseInv
<1>2. ASSUME BackReverseInv, [RestoreNext]_restoreVars
      PROVE  BackReverseInv'
  <2>a. /\ RestoreTypeInv /\ RestoreTypeInv' /\ LosersConserved'
        /\ QuarantineTypeOK /\ QuarantineTypeInv
        /\ journal.done => At("idle") /\ journal.file # "none"
        /\ ~journal.done => BackAt("idle") /\ backJournal = NoJournal
    BY <1>2, RestoreTypeInductive, RestoreConserves
    DEF BackReverseInv, RestoreTypeInv, QuarantineTypeInv
  <2>b. journal.done /\ NothingDeleted' /\ NothingMissed' =>
          InReverse /\ Knows(back) /\ RestoredAsRecorded /\ \A m \in Members : OneCopy(m)
    BY <1>2, RestoreFaults, DeletionsRemembered, MissesRemembered
    DEF BackReverseInv, LosersConserved
  <2>0. ASSUME UNCHANGED <<run, journal>>, journal.done,
               NothingDeleted' /\ NothingMissed' => InReverse' /\ Knows(back)' /\ RestoredAsRecorded'
        PROVE  BackReverseInv'
    BY <2>a, <2>0 DEF BackReverseInv, At
  <2>1. CASE Quarantining
    <3>1. ~journal.done
      BY <2>1, <2>a, DoneStays DEF Quarantining
    <3>2. UNCHANGED <<back, backJournal>> /\ BackAt("idle") /\ backJournal = NoJournal
      BY <2>1, <2>a, <3>1 DEF Quarantining
    <3>3. SUFFICES ASSUME journal'.done
                   PROVE  BackReverseInv'
      BY <2>a, <3>2, <3>3 DEF BackReverseInv, BackAt
    <3>4. run'.pc = "idle" /\ journal'.file # "none" /\ UNCHANGED files /\ AllQuarantined
      BY <2>1, <2>a, <3>1, <3>3, DoneSteps DEF Quarantining
    <3>5. InReverse'
      BY <3>4, NothingPassedBack, StillInReverse
    <3>6. Knows(back)' /\ RestoredAsRecorded'
      BY <3>2 DEF Knows, RestoredAsRecorded, BackAt, NoJournal
    <3> QED
      BY <2>a, <3>3, <3>4, <3>5, <3>6 DEF BackReverseInv, At
  <2>2. CASE BeginRestore
    <3>1. UNCHANGED <<files, run, journal>> /\ journal.done
      BY <2>2, <2>a DEF BeginRestore, StartRestore, ResumeRestore, QuarantineCompleted
    <3>2. SUFFICES ASSUME NothingDeleted', NothingMissed'
                   PROVE  InReverse' /\ Knows(back)' /\ RestoredAsRecorded'
      BY <2>0, <3>1
    <3>3. Knows(back') /\ RestoredAsRecorded'
      <4>1. CASE StartRestore
        <5>1. BackLogs("restore-started", {}, Last) \/ BackLogFails("restore-started", {}, BackIdle)
          BY <4>1 DEF StartRestore
        <5>2. BackIdle \in BackRuns
          BY BackIdlePlaced DEF BackPlaced
        <5>3. Knows(back')
          BY <5>1, <5>2, KnowsNothing, LogsKnow
        <5>4. RestoredAsRecorded /\ RestoreTypeInv /\ UNCHANGED files
          BY <2>a, <2>b, <3>1, <3>2
        <5>5. \E event \in {"restore-started"} : \E m, next, otherwise :
                BackLogs(event, m, next) \/ BackLogFails(event, m, otherwise)
          BY <5>1, Zenon
        <5>6. RestoredAsRecorded'
          BY <5>4, <5>5, TrueLine
        <5> QED
          BY <5>3, <5>6
      <4>2. CASE ResumeRestore
        BY <2>b, <3>1, <3>2, <4>2, KnowsNothing, GoesToKnows, NoLine DEF ResumeRestore, BackGoesTo
      <4> QED
        BY <2>2, <4>1, <4>2 DEF BeginRestore
    <3> QED
      BY <2>b, <3>1, <3>2, <3>3, StillInReverse
  <2>3. CASE RestoreStep
    <3>1. UNCHANGED <<run, journal>> /\ journal.done
      BY <2>3, <2>a DEF RestoreStep
    <3> QED
      BY <2>0, <2>3, <2>a, <2>b, <3>1, RestoreStepReverse
  <2>4. CASE Interfering \/ UNCHANGED restoreVars
    <3>1. UNCHANGED <<run, journal, back, backJournal>>
      BY <2>4 DEF Interfering, Interfere, restoreVars, quarantineVars
    <3>2. NothingDeleted' => UNCHANGED files
      BY <2>4, InterfereDeletes DEF Interfering, restoreVars, quarantineVars
    <3>3. journal.done /\ NothingDeleted' /\ NothingMissed' =>
            InReverse' /\ Knows(back)' /\ RestoredAsRecorded'
      BY <2>b, <3>1, <3>2, StillInReverse, NoLine
    <3>4. CASE journal.done
      BY <2>0, <3>1, <3>3, <3>4
    <3>5. CASE ~journal.done
      BY <2>a, <3>1, <3>5 DEF BackReverseInv, BackAt
    <3> QED
      BY <3>4, <3>5
  <2> QED
    BY <1>2, <2>1, <2>2, <2>3, <2>4 DEF RestoreNext
<1> QED
  BY <1>1, <1>2

\* From the completed quarantine on, through every failure, resume and repetition
\* of the restore, the library is in a state that the quarantine passed through,
\* until somebody deletes a file, or a look takes one for absent.
THEOREM RestoreReversesOrder ==
  ASSUME Plan # <<>>
  PROVE  RestoreSpec => []RestoreReverseOrder
<1>1. BackReverseInv => RestoreReverseOrder
  BY DEF BackReverseInv, InReverse, PassedBack, RestoreReverseOrder
<1> QED
  BY <1>1, BackReverseInductive, PTL DEF RestoreSpec

\* What the restore journal holds as restored is in the library, whatever failed
\* before and since, unless somebody deleted it or a look took it for absent.
THEOREM RestoreRecordsAreTrue == RestoreSpec => []RestoreRecordsStand
<1>1. CASE Plan # <<>>
  <2>1. BackReverseInv => RestoreRecordsStand
    <3>1. ~journal.done /\ backJournal = NoJournal => RestoreRecordsStand
      BY DEF RestoreRecordsStand, RestoredAsRecorded, NoJournal
    <3>2. RestoredAsRecorded => RestoreRecordsStand
      BY DEF RestoreRecordsStand
    <3> QED
      BY <3>1, <3>2 DEF BackReverseInv, RestoreRecordsStand
  <2> QED
    BY <1>1, <2>1, BackReverseInductive, PTL DEF RestoreSpec
<1>2. CASE Plan = <<>>
  <2>1. GroupIds = {} /\ Members = {}
    BY <1>2, PlanAssumption DEF GroupIds
  <2>2. RestoreTypeInv => RestoreRecordsStand
    BY <2>1 DEF RestoreTypeInv, Journals, RestoreRecordsStand, RestoredAsRecorded
  <2> QED
    BY <2>2, RestoreTypeInductive, PTL DEF RestoreSpec
<1> QED
  BY <1>1, <1>2

-------------------------------------------------------------------------------
(* What the quarantine keeps to while it may be taken back at any time. *)

\* A restore loses and copies no loser either, whatever fails in it and whenever it
\* is resumed.
THEOREM LosersAreConservedThroughout == RestoreSpec => []LosersConserved
<1>1. RestoreInit => RestoreTypeInv /\ LosersConserved
  BY RestoreTypeInductive, LosersInductive DEF RestoreInit, LosersInv
<1>2. RestoreTypeInv /\ LosersConserved /\ [RestoreNext]_restoreVars
        => (RestoreTypeInv /\ LosersConserved)'
  BY RestoreTypeInductive, RestoreConserves
<1> QED
  BY <1>1, <1>2, PTL DEF RestoreSpec

\* As long as no restore has begun, the quarantine is as it would be without one.
UntouchedInv ==
  /\ RestoreTypeInv
  /\ backJournal.file = "none" => UnmissedInv /\ back = BackIdle

\* A journal that an append has reached exists from then on.
LEMMA WrittenExists ==
  ASSUME NEW state \in Journals, NEW process, NEW event, NEW m
  PROVE  Written(state, process, event, m).file # "none"
<1> DEFINE next == Replay(state, event, process.g, m)
<1>1. next \in [file : {"none", "readable", "unreadable"}, started : {next.started},
               completed : {next.completed}, groups : {next.groups}, done : {next.done}]
  BY DEF Replay, Undone, Journals
<1> HIDE DEF next
<1>2. [next EXCEPT !.file = "readable"].file = "readable"
  BY <1>1
<1>3. [state EXCEPT !.file = "unreadable"].file = "unreadable"
  BY DEF Journals
<1> QED
  BY <1>2, <1>3 DEF Written, next

LEMMA NotBegun ==
  ASSUME NEW event, NEW m, NEW next, NEW otherwise, backJournal \in Journals,
         BackLogs(event, m, next) \/ BackLogFails(event, m, otherwise),
         backJournal'.file = "none"
  PROVE  UNCHANGED backJournal /\ back' = otherwise /\ Fault("append")
<1>1. [backJournal EXCEPT !.file = "unreadable"].file = "unreadable"
  BY DEF Journals
<1> QED
  BY <1>1, WrittenExists DEF BackLogs, BackLogFails

LEMMA NotBegunBefore ==
  ASSUME RestoreTypeInv, RestoreStep, backJournal'.file = "none"
  PROVE  backJournal.file = "none"
<1>a. backJournal \in Journals
  BY DEF RestoreTypeInv
<1>1. ASSUME NEW event, NEW m, NEW next, NEW otherwise,
             BackLogs(event, m, next) \/ BackLogFails(event, m, otherwise)
      PROVE  backJournal.file = "none"
  BY <1>a, <1>1, NotBegun
<1>2. ASSUME NEW kind, NEW next, BackGoesTo(next) \/ BackIoFails(kind, next)
      PROVE  backJournal.file = "none"
  BY <1>2 DEF BackGoesTo, BackIoFails
<1>7. ASSUME NEW kind, NEW event, NEW m, NEW next, BackLogsAmid(kind, event, m, next)
      PROVE  FALSE
  BY <1>a, <1>7, WrittenExists DEF BackLogsAmid
<1>3. CASE SkipRestoredGroup \/ ScanRestoreGroup \/ ClassifyLoser \/ BeginRestoreGroup
           \/ FinishRestore
  BY <1>1, <1>2, <1>3, <1>7, Zenon DEF SkipRestoredGroup, ScanRestoreGroup, ClassifyLoser,
     BeginRestoreGroup, FinishRestore
<1>4. CASE PrepareRestore \/ RecordRestored \/ CompleteRestoreGroup \/ FailRestoreGroup
  BY <1>1, <1>2, <1>4, Zenon DEF PrepareRestore, AnnounceRestore, RecordRestored,
     CompleteRestoreGroup, FailRestoreGroup
<1>5. CASE RenameRestored
  BY <1>2, <1>5 DEF RenameRestored
<1>6. CASE CrashRestore \/ InterruptRestore
  BY <1>6 DEF CrashRestore, InterruptRestore
<1> QED
  BY <1>3, <1>4, <1>5, <1>6 DEF RestoreStep

\* A failed attempt to begin a restore leaves everything but the record of the
\* faults as it was.
LEMMA AttemptKeepsOrder ==
  ASSUME OrderInv, QuarantineTypeInv', Fault("append"), UNCHANGED <<files, winner, run, journal>>
  PROVE  /\ OrderInv'
         /\ UNCHANGED Abstract!reorganizationVars
<1>1. UNCHANGED <<src, dst, run, journal>>
  BY DEF files
<1>2. Trusted' = Trusted
  BY <1>1 DEF Trusted, Fault, Strike
<1>3. Copies' /\ Away' = Away /\ AtDest' = AtDest /\ Gone' = Gone
  BY <1>1, SameSets DEF OrderInv
<1>4. Journalled'
  BY <1>1, <1>2 DEF OrderInv, Journalled
<1>5. Fits(run, Away, AtDest, journal.groups)' /\ InOrder(Away, AtDest, journal.groups)'
  BY <1>1, <1>3 DEF OrderInv, Fits, InOrder
<1>6. OrderInv'
  BY <1>1, <1>3, <1>4, <1>5 DEF OrderInv
<1>7. UNCHANGED Abstract!reorganizationVars
  BY <1>1, <1>2 DEF Abstract!reorganizationVars, Trusted
<1> QED
  BY <1>6, <1>7

\* What a step does before a restore has begun.
LEMMA AttemptKeepsAll ==
  ASSUME UnmissedInv, QuarantineTypeInv', Fault("append"), UNCHANGED <<files, winner, run, journal>>
  PROVE  /\ UnmissedInv'
         /\ NothingMissed => UNCHANGED Abstract!reorganizationVars
<1>1. NothingMissed' => NothingMissed
  BY MissesRemembered DEF Fault
<1> QED
  BY <1>1, AttemptKeepsOrder DEF UnmissedInv

LEMMA UntouchedStep ==
  ASSUME UntouchedInv, [RestoreNext]_restoreVars, backJournal'.file = "none"
  PROVE  /\ UnmissedInv' /\ back' = BackIdle
         /\ NothingMissed => [Abstract!ReorganizationNext]_Abstract!reorganizationVars
<1>a. RestoreTypeInv /\ backJournal \in Journals
  BY DEF UntouchedInv, RestoreTypeInv
<1>b. QuarantineTypeInv'
  BY <1>a, RestoreTypeInductive DEF RestoreTypeInv
<1>1. CASE Quarantining \/ Interfering \/ UNCHANGED restoreVars
  <2>1. [QuarantineNext]_quarantineVars /\ UNCHANGED <<back, backJournal>>
    BY <1>1, Zenon DEF Quarantining, Interfering, restoreVars, QuarantineNext
  <2>2. UnmissedInv /\ back = BackIdle
    BY <2>1 DEF UntouchedInv
  <2> QED
    BY <2>1, <2>2, UnmissedInductive, StepReorganizes DEF UnmissedInv
<1>2. CASE BeginRestore
  <2>1. CASE StartRestore
    <3>1. UNCHANGED backJournal /\ back' = BackIdle /\ Fault("append")
      BY <1>a, <2>1, NotBegun DEF StartRestore
    <3>2. UnmissedInv /\ back = BackIdle
      BY <3>1 DEF UntouchedInv
    <3>3. UNCHANGED <<files, winner, run, journal>>
      BY <1>2 DEF BeginRestore
    <3> QED
      BY <1>b, <3>1, <3>2, <3>3, AttemptKeepsAll
  <2>2. CASE ResumeRestore
    BY <2>2 DEF ResumeRestore, BackGoesTo
  <2> QED
    BY <1>2, <2>1, <2>2 DEF BeginRestore
<1>3. CASE RestoreStep
  <2>1. back = BackIdle
    BY <1>a, <1>3, NotBegunBefore DEF UntouchedInv
  <2> QED
    BY <1>3, <2>1 DEF RestoreStep, BackAt, BackIdle
<1> QED
  BY <1>1, <1>2, <1>3 DEF RestoreNext

LEMMA UntouchedInductive ==
  /\ RestoreInit => UntouchedInv
  /\ UntouchedInv /\ [RestoreNext]_restoreVars => UntouchedInv'
<1>1. RestoreInit => UntouchedInv
  BY RestoreTypeInductive, UnmissedInductive DEF UntouchedInv, RestoreInit
<1>2. ASSUME UntouchedInv, [RestoreNext]_restoreVars
      PROVE  UntouchedInv'
  <2>1. RestoreTypeInv'
    BY <1>2, RestoreTypeInductive DEF UntouchedInv
  <2>2. ASSUME backJournal'.file = "none"
        PROVE  UnmissedInv' /\ back' = BackIdle
    BY <1>2, <2>2, UntouchedStep
  <2> QED
    BY <2>1, <2>2 DEF UntouchedInv, BackIdle
<1> QED
  BY <1>1, <1>2

\* Until it is taken back a quarantine is a reorganization, although a restore may
\* be asked for at any moment, refused, or fail to begin; and until a look takes a
\* file for absent that is there.
THEOREM QuarantineReorganizesUntilRestored == RestoreSpec => ReorganizesUntilRestored
<1>1. UntouchedInv /\ [RestoreNext]_restoreVars
        => [backJournal'.file = "none" /\ NothingMissed
              => Abstract!ReorganizationNext]_(Abstract!reorganizationVars)
  BY UntouchedStep
<1>2. RestoreInit => Abstract!ReorganizationInit
  BY InitReorganizes DEF RestoreInit
<1> QED
  BY <1>1, <1>2, UntouchedInductive, PTL DEF RestoreSpec, ReorganizesUntilRestored
===============================================================================
