---------------------------- MODULE ApplyExecution ----------------------------
(***************************************************************************)
(* execute_apply of apply_execution.py: the executor that moves every      *)
(* member of an approved contract, one operation group at a time, keeping  *)
(* a write-ahead journal, rolling a failed group back, and resuming from   *)
(* the journal after an interruption.                                      *)
(*                                                                         *)
(* A run that raises before it changes anything is not a step.  The        *)
(* journal file is modelled by what _Journal.state() reads from it; the    *)
(* events that state() ignores are appended (and may fail) all the same.   *)
(***************************************************************************)
EXTENDS MediaFiles, FaultModel

CONSTANT
  Contract    \* contract.groups, in order: each the sequence of its members

VARIABLES
  run,        \* the executor's control state; "idle" when no process runs
  journal,    \* the journal file
  lock        \* the holder of the journal's advisory lock

applyVars == <<run, journal, lock, faults>>
vars == <<files, applyVars>>

GroupIds == 1..Len(Contract)
InGroup(g) == {Contract[g][k] : k \in 1..Len(Contract[g])}

ASSUME ContractAssumption ==
  /\ Contract \in Seq(Seq(Members))
  /\ \A m \in Members : \E g \in GroupIds : m \in InGroup(g)
  /\ \A g, h \in GroupIds : \A k \in 1..Len(Contract[g]), l \in 1..Len(Contract[h]) :
       Contract[g][k] = Contract[h][l] => g = h /\ k = l

Phases == {"idle", "group", "scan", "revalidate", "prepare", "mkdir", "rename",
           "renamed", "recorded", "undo", "undo-rename", "undone"}

\* The phases inside the try block whose handler rolls the group back.
Guarded == {"revalidate", "prepare", "mkdir", "rename", "renamed", "recorded"}

Idle == [pc |-> "idle", g |-> 0, i |-> 0, pending |-> <<>>, completed |-> <<>>,
         failed |-> FALSE, ahead |-> FALSE]

Outcomes == {"none", "started", "completed", "rolled-back", "rollback-incomplete"}

\* g and i are the group and the member the loops are at; pending and completed
\* the executor's two lists; failed whether a rollback has failed; ahead
\* whether the file holds a line that this process does not know of.
Runs ==
  [pc : Phases, g : Nat, i : Nat, pending : Seq(Members), completed : Seq(Members),
   failed : BOOLEAN, ahead : BOOLEAN]

\* The replay state of the file, the last result of each group, and whether
\* _read accepts the file.
Journals ==
  [file : {"none", "readable", "unreadable"},
   started : SUBSET Members, completed : SUBSET Members, groups : SUBSET GroupIds,
   outcome : [GroupIds -> Outcomes], done : BOOLEAN]

TypeOK ==
  /\ FilesTypeOK
  /\ run \in Runs
  /\ journal \in Journals
  /\ lock \in {"free", "apply", "rollback"}
  /\ faults \in FaultRecords

Init ==
  /\ FilesInit
  /\ run = Idle
  /\ journal = [file |-> "none", started |-> {}, completed |-> {}, groups |-> {},
                outcome |-> [g \in GroupIds |-> "none"], done |-> FALSE]
  /\ lock = "free"
  /\ faults = NoneYet

-------------------------------------------------------------------------------
(* The journal. *)

\* Mutant: the event of a completed rollback is overlooked.
StillMoved(m) == journal

MovedBack(m) == [journal EXCEPT !.started = @ \ {m}, !.completed = @ \ {m}]

\* _Journal.state() after one more event of group run.g: member m's, for the
\* member events; the group's or the run's otherwise.
Replay(event, m) ==
  CASE event = "member-started" ->
         [journal EXCEPT !.started = @ \cup {m}]
    [] event = "member-completed" ->
         [journal EXCEPT !.completed = @ \cup {m}]
    [] event = "member-rollback-completed" -> MovedBack(m)
    [] event = "group-completed" ->
         [journal EXCEPT !.groups = @ \cup {run.g}, !.outcome[run.g] = "completed"]
    [] event = "group-started" ->
         [journal EXCEPT !.outcome[run.g] = "started"]
    [] event = "rolled-back" ->
         [journal EXCEPT !.outcome[run.g] = "rolled-back"]
    [] event = "rollback-incomplete" ->
         [journal EXCEPT !.outcome[run.g] = "rollback-incomplete"]
    [] event = "run-completed" ->
         [journal EXCEPT !.done = TRUE]
    [] OTHER -> journal

\* The line reaches the file.  Its sequence number is one more than the
\* entries this process holds: when the file is ahead of them, the number is a
\* duplicate, and _read refuses the file from then on.
Written(event, m) ==
  IF run.ahead \/ journal.file = "unreadable"
  THEN [journal EXCEPT !.file = "unreadable"]
  ELSE [Replay(event, m) EXCEPT !.file = "readable"]

\* append() returns, and the executor goes on in state next.
Logs(event, m, next) ==
  /\ journal' = Written(event, m)
  /\ run' = next
  /\ NoFault

\* append() raises, and the executor goes on in state next.
LogFails(event, m, next) ==
  \/ /\ Fault("append")
     /\ UNCHANGED journal
     /\ run' = next
  \/ /\ Fault("fsync")
     /\ journal' = Written(event, m)
     /\ run' = [next EXCEPT !.ahead = next.pc # "idle"]
  \/ /\ Fault("torn")
     /\ journal' = [journal EXCEPT !.file = "unreadable"]
     /\ run' = next
  \/ /\ DiesWriting
     /\ journal' = [journal EXCEPT !.file = "unreadable"]
     /\ run' = Idle

\* Steps that append nothing.
GoesTo(next) ==
  /\ run' = next
  /\ UNCHANGED journal
  /\ NoFault

\* A file operation raises, and the executor goes on in state next.
IoFails(next) ==
  /\ Fault("io")
  /\ run' = next
  /\ UNCHANGED journal

\* A file or a path cannot be read, and the executor goes on in state next.
ReadFails(next) ==
  /\ Fault("read")
  /\ run' = next
  /\ UNCHANGED journal

At(phase) == run.pc = phase
To(phase) == [run EXCEPT !.pc = phase]

\* Mutant: the last member moved is left out of the rollback.
UndoAllButLast(state) ==
  [state EXCEPT !.pc = "undo", !.i = Len(state.completed) - 1, !.failed = FALSE]

\* The exception handler: undo the members of completed, the last one first.
Undo(state) == [state EXCEPT !.pc = "undo", !.i = Len(state.completed), !.failed = FALSE]
Rollback == Undo(run)

\* Mutant: the append is forgotten.
MovedUnnoticed == run

\* completed.append(member), once the member has been renamed.
Moved == [run EXCEPT !.completed = Append(@, run.pending[run.i])]

-------------------------------------------------------------------------------
(* Starting, resuming, and walking the groups. *)

\* _journal_lock never waits: a command that finds the lock taken gives up.
TakeLock == lock = "free" /\ lock' = "apply"
ReleaseLock == lock' = "free"

\* The loop over the groups begins.
First == [Idle EXCEPT !.pc = "group", !.g = 1]

\* A new journal: the whole contract is revalidated, then run-started.
Start ==
  /\ At("idle") /\ lock = "free" /\ journal.file = "none"
  /\ \A m \in Members : Revalidates(m)
  /\ \/ Logs("run-started", {}, First) /\ TakeLock
     \/ LogFails("run-started", {}, Idle) /\ UNCHANGED lock
  /\ UNCHANGED files

\* --resume: a readable journal of an incomplete run.  Of a completed run it
\* only verifies the destinations.
Resume ==
  /\ At("idle") /\ journal.file = "readable" /\ ~journal.done
  /\ run' = First
  /\ TakeLock
  /\ UNCHANGED <<files, journal, faults>>

\* _verify_destination of each member.
Verified(g) == \A m \in InGroup(g) : Organized(m)

\* A group the journal holds as completed is verified and skipped.
SkipGroup ==
  /\ At("group") /\ run.g \in GroupIds /\ run.g \in journal.groups
  /\ \/ GoesTo(IF Verified(run.g) THEN [run EXCEPT !.g = @ + 1] ELSE Idle)
     \/ ReadFails(Idle)
  /\ UNCHANGED files

Entered == [run EXCEPT !.pc = "scan", !.i = 1, !.pending = <<>>, !.completed = <<>>]

EnterGroup ==
  /\ At("group") /\ run.g \in GroupIds /\ run.g \notin journal.groups
  /\ GoesTo(Entered)
  /\ UNCHANGED files

\* Mutant: a started member is taken not to have moved.
NeverAdopted(m) == FALSE

\* The evidence on which resume adopts a started member as moved.
Adoptable(m) == Organized(m)

\* The classification of one member from the journal and the filesystem.  A
\* started member whose file cannot be read counts as one that has not moved
\* (_fingerprint_matches is false); every other failed read ends the run.
ScanMember ==
  /\ At("scan") /\ run.i \in 1..Len(Contract[run.g])
  /\ LET m == Contract[run.g][run.i]
         moved == [run EXCEPT !.i = @ + 1, !.completed = Append(@, m)]
         toDo  == [run EXCEPT !.i = @ + 1, !.pending = Append(@, m)]
     IN \/ /\ m \in journal.completed
           /\ GoesTo(IF Organized(m) THEN moved ELSE Idle) \/ ReadFails(Idle)
        \/ /\ m \in journal.started \ journal.completed
           /\ \/ IF ~SafeParent(m) THEN GoesTo(Idle)
                 ELSE IF Adoptable(m)
                 THEN \/ Logs("member-completed", m, moved)
                      \/ LogFails("member-completed", m, Idle)
                 ELSE GoesTo(toDo)
              \/ SafeParent(m) /\ ReadFails(toDo)
              \/ ReadFails(Idle)
        \/ /\ m \notin journal.started \cup journal.completed
           /\ GoesTo(toDo)
  /\ UNCHANGED files

BeginGroup ==
  /\ At("scan") /\ run.i = Len(Contract[run.g]) + 1
  /\ \/ Logs("group-started", {}, To("revalidate"))
     \/ LogFails("group-started", {}, Idle)
  /\ UNCHANGED files

\* Every group is done: the final verification, then run-completed.
Finish ==
  /\ At("group") /\ run.g \notin GroupIds
  /\ \/ IF \A g \in GroupIds : Verified(g)
        THEN Logs("run-completed", {}, Idle) \/ LogFails("run-completed", {}, Idle)
        ELSE GoesTo(Idle)
     \/ ReadFails(Idle)
  /\ UNCHANGED files

-------------------------------------------------------------------------------
(* Moving the members of a group. *)

RevalidateGroup ==
  /\ At("revalidate")
  /\ \/ GoesTo(IF \A k \in 1..Len(run.pending) : Revalidates(run.pending[k])
               THEN [run EXCEPT !.pc = "prepare", !.i = 1]
               ELSE Rollback)
     \/ ReadFails(Rollback)
  /\ UNCHANGED files

\* Mutant: the file is renamed all the same when the journal cannot be written.
StartMemberAnyway(m) ==
  \/ Logs("member-started", m, To("rename"))
  \/ LogFails("member-started", m, To("rename"))

StartMember(m) ==
  \/ Logs("member-started", m, To("rename"))
  \/ LogFails("member-started", m, Rollback)

\* _ensure_parent_directories, then the member's own revalidation, then
\* member-started: the last step before the file is touched.
PrepareMember ==
  /\ At("prepare") /\ run.i \in 1..Len(run.pending)
  /\ LET m == run.pending[run.i]
     IN \/ /\ dir[Parent[m]] = "missing"
           /\ \/ Logs("directory-create-started", m, To("mkdir"))
              \/ LogFails("directory-create-started", m, Rollback)
        \/ /\ SafeParent(m) /\ Revalidates(m)
           /\ StartMember(m)
        \/ /\ dir[Parent[m]] # "missing" /\ ~(SafeParent(m) /\ Revalidates(m))
           /\ GoesTo(Rollback)
        \/ ReadFails(Rollback)
  /\ UNCHANGED files

MakeParent ==
  /\ At("mkdir")
  /\ LET m == run.pending[run.i]
     IN \/ /\ MakeDir(Parent[m])
           /\ \/ Logs("directory-created", m, To("prepare"))
              \/ LogFails("directory-created", m, Rollback)
        \/ /\ dir[Parent[m]] # "missing"
           /\ GoesTo(Rollback)
           /\ UNCHANGED files
        \/ IoFails(Rollback) /\ UNCHANGED files

RenameMember ==
  /\ At("rename")
  /\ LET m == run.pending[run.i]
     IN \/ MoveOut(m) /\ GoesTo(To("renamed"))
        \/ ~CanMoveOut(m) /\ GoesTo(Rollback) /\ UNCHANGED files
        \/ IoFails(Rollback) /\ UNCHANGED files

\* completed.append(member), _verify_destination, member-completed.
RecordMember ==
  /\ At("renamed")
  /\ LET m == run.pending[run.i]
     IN \/ IF Organized(m)
           THEN \/ Logs("member-completed", m, [Moved EXCEPT !.pc = "prepare", !.i = @ + 1])
                \/ LogFails("member-completed", m, Undo(Moved))
           ELSE GoesTo(Undo(Moved))
        \/ ReadFails(Undo(Moved))
  /\ UNCHANGED files

CompleteGroup ==
  /\ At("prepare") /\ run.i = Len(run.pending) + 1
  /\ \/ Logs("group-completed", {}, To("recorded"))
     \/ LogFails("group-completed", {}, Rollback)
  /\ UNCHANGED files

\* completed_groups.add, still inside the try block.
LeaveGroup ==
  /\ At("recorded")
  /\ GoesTo([run EXCEPT !.pc = "group", !.g = @ + 1])
  /\ UNCHANGED files

-------------------------------------------------------------------------------
(* _rollback_members and group-failed. *)

NextUndo == [run EXCEPT !.pc = "undo", !.i = @ - 1]

\* Mutant: the failure is not collected.
UndoFailureLost == NextUndo

UndoFailed == [NextUndo EXCEPT !.failed = TRUE]

\* A failure to journal the rollback does not stop it; a file that cannot be
\* read is left where it is.
UndoMember ==
  /\ At("undo") /\ run.i \in 1..Len(run.completed)
  /\ LET m == run.completed[run.i]
         next == IF src[m] = "absent" /\ dst[m] = "media"
                 THEN To("undo-rename") ELSE UndoFailed
     IN \/ IF SafeParent(m)
           THEN \/ Logs("member-rollback-started", m, next)
                \/ LogFails("member-rollback-started", m, next)
           ELSE GoesTo(UndoFailed)
        \/ ReadFails(UndoFailed)
  /\ UNCHANGED files

\* The last look at both paths, and the rename back.
UndoRename ==
  /\ At("undo-rename")
  /\ LET m == run.completed[run.i]
     IN \/ MoveBack(m) /\ GoesTo(To("undone"))
        \/ ~CanMoveBack(m) /\ GoesTo(UndoFailed) /\ UNCHANGED files
        \/ (IoFails(UndoFailed) \/ ReadFails(UndoFailed)) /\ UNCHANGED files

RecordUndo ==
  /\ At("undone")
  /\ LET m == run.completed[run.i]
     IN \/ IF Restored(m)
           THEN \/ Logs("member-rollback-completed", m, NextUndo)
                \/ LogFails("member-rollback-completed", m, NextUndo)
           ELSE GoesTo(UndoFailed)
        \/ ReadFails(UndoFailed)
  /\ UNCHANGED files

\* Mutant: the executor goes on with the next group.
FailGroupAndGoOn ==
  /\ At("undo") /\ run.i = 0
  /\ Logs("rolled-back", {}, [run EXCEPT !.pc = "group", !.g = @ + 1])
  /\ UNCHANGED files

\* group-failed is written, and the run raises.
FailGroup ==
  /\ At("undo") /\ run.i = 0
  /\ LET event == IF run.failed THEN "rollback-incomplete" ELSE "rolled-back"
     IN Logs(event, {}, Idle) \/ LogFails(event, {}, Idle)
  /\ UNCHANGED files

-------------------------------------------------------------------------------
(* What may strike a running process. *)

Crash ==
  /\ Fault("crash")
  /\ run' = Idle
  /\ UNCHANGED <<files, journal>>

\* Only the try block around the moves catches KeyboardInterrupt; after a
\* rename it may arrive before or after completed.append(member).
Interrupt ==
  /\ Fault("interrupt")
  /\ \/ run.pc \in Guarded /\ run' = Rollback
     \/ At("renamed") /\ run' = Undo(Moved)
     \/ run.pc \notin Guarded /\ run' = Idle
  /\ UNCHANGED <<files, journal>>

Execute ==
  \/ SkipGroup \/ EnterGroup \/ ScanMember \/ BeginGroup \/ Finish
  \/ RevalidateGroup \/ PrepareMember \/ MakeParent \/ RenameMember
  \/ RecordMember \/ CompleteGroup \/ LeaveGroup
  \/ UndoMember \/ UndoRename \/ RecordUndo \/ FailGroup

\* Whatever ends the run releases the lock: the finally clause, or the
\* operating system when the process dies.
Step ==
  /\ ~At("idle")
  /\ Execute \/ Crash \/ Interrupt
  /\ IF run'.pc = "idle" THEN ReleaseLock ELSE UNCHANGED lock

Interfere ==
  /\ Fault("meddle")
  /\ Meddle
  /\ UNCHANGED <<run, journal, lock>>

Command == Start \/ Resume \/ Step

Next == Command \/ Interfere

Spec == Init /\ [][Next]_vars

\* Nobody interferes.  A running process goes on; the operator starts the run
\* and repeats the command with --resume until it has completed.
FairSpec == Init /\ [][Command]_vars /\ WF_vars(Step) /\ WF_vars(Start) /\ WF_vars(Resume)

-------------------------------------------------------------------------------
(* What execute_apply promises. *)

AtSource(g) == \A m \in InGroup(g) : src[m] = "media" /\ dst[m] = "absent"
AtDestination(g) == \A m \in InGroup(g) : src[m] = "absent" /\ dst[m] = "media"

\* Through every failure, rollback and resume, each approved file exists once,
\* at one of its two approved paths.
Conservation == \A m \in Members : OneCopy(m)

\* Whatever another program puts in the way, and whenever, a step of the
\* executor only renames, and never onto an occupied path: the window between
\* the last check of a path and the rename is covered by the rename itself.
NoOverwrite == [][~Interfere => OnlyRenames]_vars

\* A file is at its destination only if the journal on disk says its move was
\* started, so resume can find every file that moved.
WriteAhead == \A m \in Members : dst[m] = "media" => m \in journal.started

\* A group the journal holds as rolled back lies where it was, member by
\* member: the result of group-failed is true, also after later runs.
RolledBackMeansRestored ==
  \A g \in GroupIds : journal.outcome[g] = "rolled-back" => AtSource(g)

\* So it is after failed moves, failed appends and process deaths.  It is not
\* where an interrupt came right after a rename, nor where a resume could not read
\* a file that had moved: it takes that one for one still to move, puts back the
\* others, and its group-failed says that the group is back.
RollbackResultIsTrue ==
  faults.struck \cap {"interrupt", "read"} = {} => RolledBackMeansRestored

\* A group the journal holds as completed lies at its destination, also while
\* and after a later group fails and is rolled back.
CompletedGroupsOrganized == \A g \in journal.groups : AtDestination(g)

\* A member the journal holds as moved is at its destination: what resume
\* demands of the filesystem is true.
RecordedMovesStand == \A m \in journal.completed : dst[m] = "media"

\* Process deaths alone, or failed renames and failed new directories alone.
Benign == Only({"crash"}) \/ Only({"io"})

\* When only the journal fails, no run leaves a group half moved: a move whose
\* record fails is undone, and the undoing needs no journal.
GroupsWholeWhenIdle ==
  At("idle") /\ Only({"append", "fsync", "torn"}) =>
    \A g \in GroupIds : AtSource(g) \/ AtDestination(g)

\* Repeating the command with --resume completes the run.
Recovery == <>journal.done

\* So it does after any number of process deaths, or of failed renames and new
\* directories.  It need not after both, nor after a failed read: a member that
\* went back without its event, because the process died or the file could not be
\* read for the last check, is missing where the journal says, for every resume.
BenignFaultsRecovered == <>(journal.done \/ ~Benign)

\* Once faults have ceased, resume completes the run whenever the journal can
\* be read and what it records as moved is where it says: nothing else that an
\* earlier failure leaves behind stands in its way.
ResumeCompletes ==
  [](At("idle") /\ FaultsCeased /\ journal.file = "readable"
       /\ RecordedMovesStand /\ CompletedGroupsOrganized
     => <>journal.done)

\* An apply is a reorganization, through every failure and resume: its groups
\* are moved in order, at most one of them is ever in doubt, a group that its
\* journal holds as completed stays, and nothing moves once the run is recorded
\* as completed, which it is only when everything is at its destination.  An
\* exception right after the line of group-completed was written takes the
\* group back: then its record is not to be trusted.
Abstract == INSTANCE Reorganization WITH
  Groups <- Contract,
  moved <- {m \in Members : dst[m] = "media"},
  gone <- {},
  settled <- journal.groups,
  finished <- journal.done,
  trusted <- faults.struck \cap {"fsync", "interrupt"} = {}

Reorganizes == Abstract!ReorganizationSpec
===============================================================================
