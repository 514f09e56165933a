-------------------------- MODULE QuarantineExecution --------------------------
(***************************************************************************)
(* execute_quarantine of quarantine_execution.py: the command that moves   *)
(* the losers of reviewed duplicates out of the library.  Members are the  *)
(* losers, dst is the quarantine root, and a loser may already be absent   *)
(* from both.  The journal lock is held exactly while a process runs, so   *)
(* it needs no variable.                                                   *)
(***************************************************************************)
EXTENDS MediaFiles, FaultModel

CONSTANT
  Plan        \* plan.groups, in order: each the sequence of its losers

VARIABLES
  winner,     \* where each group's winner lies
  run,        \* the executor's control state; "idle" when no process runs
  journal     \* the quarantine journal, as _QuarantineJournal.state() reads it

quarantineVars == <<files, winner, run, journal, faults>>

GroupIds == 1..Len(Plan)
InGroup(g) == {Plan[g][k] : k \in 1..Len(Plan[g])}

ASSUME PlanAssumption ==
  /\ Plan \in Seq(Seq(Members))
  /\ \A m \in Members : \E g \in GroupIds : m \in InGroup(g)
  /\ \A g, h \in GroupIds : \A k \in 1..Len(Plan[g]), l \in 1..Len(Plan[h]) :
       Plan[g][k] = Plan[h][l] => g = h /\ k = l

Phases == {"idle", "group", "scan", "validate", "prepare", "mkdir", "rename",
           "renamed", "recorded", "undo", "undo-rename", "undone"}

\* The phases inside the try block whose handler undoes this attempt's moves.
Guarded == {"validate", "prepare", "mkdir", "rename", "renamed", "recorded"}

Idle == [pc |-> "idle", g |-> 0, i |-> 0, pending |-> <<>>, moved |-> <<>>,
         ahead |-> FALSE]

\* moved is moved_this_attempt; ahead is whether the file holds a line that
\* this process does not know of.
Runs ==
  [pc : Phases, g : Nat, i : Nat, pending : Seq(Members), moved : Seq(Members),
   ahead : BOOLEAN]

Journals ==
  [file : {"none", "readable", "unreadable"},
   started : SUBSET Members, completed : SUBSET Members, groups : SUBSET GroupIds,
   done : BOOLEAN]

NoJournal == [file |-> "none", started |-> {}, completed |-> {}, groups |-> {},
              done |-> FALSE]

QuarantineTypeOK ==
  /\ FilesTypeOK
  /\ winner \in [GroupIds -> {"organized", "elsewhere"}]
  /\ run \in Runs
  /\ journal \in Journals
  /\ faults \in FaultRecords

\* Apply has organized the winners; the losers are where the plan says.
QuarantineInit ==
  /\ FilesInit
  /\ winner = [g \in GroupIds |-> "organized"]
  /\ run = Idle
  /\ journal = NoJournal
  /\ faults = NoneYet

\* _winner_state, whose ambiguous cases raise.
WinnerOrganized(g) == winner[g] = "organized"
WinnersOrganized == \A g \in GroupIds : WinnerOrganized(g)

\* _member_state: of the cases it names, only these do not raise.
Pending(m) == Revalidates(m)
Quarantined(m) == Organized(m)
AlreadyAbsent(m) == src[m] = "absent" /\ dst[m] = "absent" /\ dir[Parent[m]] # "link"

-------------------------------------------------------------------------------
(* The journal. *)

Undone(state, m) == [state EXCEPT !.completed = @ \ {m}, !.started = @ \ {m}]

\* _journal_state after one more event, of group g and member m.
Replay(state, event, g, m) ==
  CASE event = "member-started" ->
         [state EXCEPT !.started = @ \cup {m}]
    [] event = "member-completed" ->
         [state EXCEPT !.completed = @ \cup {m}, !.started = @ \ {m}]
    [] event = "member-rollback-completed" -> Undone(state, m)
    [] event = "group-completed" ->
         [state EXCEPT !.groups = @ \cup {g}]
    [] event = "completed" ->
         [state EXCEPT !.done = TRUE]
    [] OTHER -> state

\* A line that follows one this process does not know of repeats its sequence
\* number, and _read refuses the file from then on.
Written(state, process, event, m) ==
  IF process.ahead \/ state.file = "unreadable"
  THEN [state EXCEPT !.file = "unreadable"]
  ELSE [Replay(state, event, process.g, m) EXCEPT !.file = "readable"]

Logs(event, m, next) ==
  /\ journal' = Written(journal, run, event, m)
  /\ run' = next
  /\ NoFault

\* append() raises, and the executor goes on in state next.
LogFails(event, m, next) ==
  \/ /\ Fault("append")
     /\ UNCHANGED journal
     /\ run' = next
  \/ /\ Fault("fsync")
     /\ journal' = Written(journal, run, event, m)
     /\ run' = [next EXCEPT !.ahead = next.pc # "idle"]
  \/ /\ Fault("torn")
     /\ journal' = [journal EXCEPT !.file = "unreadable"]
     /\ run' = next
  \/ /\ DiesWriting
     /\ journal' = [journal EXCEPT !.file = "unreadable"]
     /\ run' = Idle

GoesTo(next) ==
  /\ run' = next
  /\ UNCHANGED journal
  /\ NoFault

\* A call on the filesystem fails: a change ("io") or a read ("read") raises, as does
\* a look that misses a file that is wanted; one at a loser that may be absent finds
\* it absent ("look", as os.path.lexists does), and the executor goes on.
IoFails(kind, next) ==
  /\ Fault(kind)
  /\ run' = next
  /\ UNCHANGED journal

\* So it does right after, or right before, a line is written.
LogsAmid(kind, event, m, next) ==
  /\ Fault(kind)
  /\ journal' = Written(journal, run, event, m)
  /\ run' = next

At(phase) == run.pc = phase
To(phase) == [run EXCEPT !.pc = phase]

\* The exception handler: undo the moves of this attempt, the last one first.
Undo(state) == [state EXCEPT !.pc = "undo", !.i = Len(state.moved)]
Rollback == Undo(run)

\* moved_this_attempt.append(member).
Moved == [run EXCEPT !.moved = Append(@, run.pending[run.i])]

-------------------------------------------------------------------------------
(* Starting, resuming, and walking the groups. *)

First == [Idle EXCEPT !.pc = "group", !.g = 1]

\* A new journal: _validate_check, then run-started.
StartQuarantine ==
  /\ At("idle") /\ journal.file = "none"
  /\ WinnersOrganized
  /\ \A m \in Members : AlreadyAbsent(m) \/ Pending(m)
  /\ Logs("run-started", {}, First) \/ LogFails("run-started", {}, Idle)
  /\ UNCHANGED files

\* Of a completed run, resume only verifies the files.
ResumeQuarantine ==
  /\ At("idle") /\ journal.file = "readable" /\ ~journal.done
  /\ GoesTo(First)
  /\ UNCHANGED files

\* A completed group is verified and skipped; a loser that is absent from both
\* places is not accepted here.
SkipGroup ==
  /\ At("group") /\ run.g \in journal.groups
  /\ \/ GoesTo(IF WinnerOrganized(run.g) /\ \A m \in InGroup(run.g) : Quarantined(m)
               THEN [run EXCEPT !.g = @ + 1] ELSE Idle)
     \/ IoFails("read", Idle)
  /\ UNCHANGED files

\* Mutant: moved_this_attempt keeps the moves of the group before.
MovesKept == [run EXCEPT !.pc = "scan", !.i = 1, !.pending = <<>>]

Entered == [run EXCEPT !.pc = "scan", !.i = 1, !.pending = <<>>, !.moved = <<>>]

EnterGroup ==
  /\ At("group") /\ run.g \in GroupIds \ journal.groups
  /\ GoesTo(IF WinnerOrganized(run.g) THEN Entered ELSE Idle) \/ IoFails("read", Idle)
  /\ UNCHANGED files

\* Mutants: a started loser is never taken as moved; or always.
NeverAdopted(m) == FALSE
AnnouncementIsEvidence(m) == m \in journal.started

\* The evidence on which resume adopts a started loser as moved.
Adoptable(m) == m \in journal.started /\ Quarantined(m)

\* The classification of one loser.  One that is already absent is recorded
\* as completed, and so is one that is taken for it.
ScanLoser ==
  /\ At("scan") /\ run.i \in 1..Len(Plan[run.g])
  /\ LET m == Plan[run.g][run.i]
         done == [run EXCEPT !.i = @ + 1]
         toDo == [run EXCEPT !.i = @ + 1, !.pending = Append(@, m)]
     IN \/ IoFails("read", Idle)
        \/ /\ m \in journal.completed
           /\ \/ GoesTo(IF Quarantined(m) \/ AlreadyAbsent(m) THEN done ELSE Idle)
              \/ IoFails("look", done)
        \/ /\ m \notin journal.completed
           /\ LogsAmid("look", "member-completed", m, done)
        \/ /\ m \notin journal.completed
           /\ Adoptable(m) \/ AlreadyAbsent(m)
           /\ \/ Logs("member-completed", m, done)
              \/ LogFails("member-completed", m, Idle)
        \/ /\ m \notin journal.completed /\ ~(Adoptable(m) \/ AlreadyAbsent(m))
           /\ GoesTo(IF Pending(m) THEN toDo ELSE Idle)
  /\ UNCHANGED files

BeginGroup ==
  /\ At("scan") /\ run.i = Len(Plan[run.g]) + 1
  /\ \/ Logs("group-started", {}, To("validate"))
     \/ LogFails("group-started", {}, Idle)
  /\ UNCHANGED files

AllQuarantined == \A m \in Members : Quarantined(m)

\* Every group is done: the final verification, then run-completed.
FinishQuarantine ==
  /\ At("group") /\ run.g \notin GroupIds
  /\ IF WinnersOrganized /\ AllQuarantined
     THEN \/ Logs("completed", {}, Idle) \/ LogFails("completed", {}, Idle)
          \/ IoFails("read", Idle)
     ELSE GoesTo(Idle)
  /\ UNCHANGED files

-------------------------------------------------------------------------------
(* Moving the losers of a group. *)

\* _validate_pending_member of each, before the first is moved.
ValidateGroup ==
  /\ At("validate")
  /\ \/ GoesTo(IF \A k \in 1..Len(run.pending) : Pending(run.pending[k])
               THEN [run EXCEPT !.pc = "prepare", !.i = 1] ELSE Rollback)
     \/ IoFails("io", Rollback) \/ IoFails("read", Rollback)
  /\ UNCHANGED files

Announce(m, next) ==
  Logs("member-started", m, next) \/ LogFails("member-started", m, Rollback)

\* _ensure_quarantine_parents, then member-started and the last look.
PrepareLoser ==
  /\ At("prepare") /\ run.i \in 1..Len(run.pending)
  /\ LET m == run.pending[run.i]
     IN \/ /\ dir[Parent[m]] = "missing"
           /\ \/ Logs("directory-create-started", m, To("mkdir"))
              \/ LogFails("directory-create-started", m, Rollback)
        \/ /\ dir[Parent[m]] = "link"
           /\ GoesTo(Rollback)
        \/ /\ SafeParent(m)
           /\ \/ Announce(m, IF Pending(m) THEN To("rename") ELSE Rollback)
              \/ LogsAmid("read", "member-started", m, Rollback)
  /\ UNCHANGED files

MakeQuarantineParent ==
  /\ At("mkdir")
  /\ LET m == run.pending[run.i]
     IN \/ /\ MakeDir(Parent[m])
           /\ \/ Logs("directory-created", m, To("prepare"))
              \/ LogFails("directory-created", m, Rollback)
        \/ /\ dir[Parent[m]] # "missing"
           /\ GoesTo(Rollback)
           /\ UNCHANGED files
        \/ IoFails("io", Rollback) /\ UNCHANGED files

RenameLoser ==
  /\ At("rename")
  /\ LET m == run.pending[run.i]
     IN \/ MoveOut(m) /\ GoesTo(To("renamed"))
        \/ ~CanMoveOut(m) /\ GoesTo(Rollback) /\ UNCHANGED files
        \/ IoFails("io", Rollback) /\ UNCHANGED files

\* The verification, and only after it moved_this_attempt.append(member); then
\* member-completed.
RecordLoser ==
  /\ At("renamed")
  /\ LET m == run.pending[run.i]
     IN IF Quarantined(m)
        THEN \/ Logs("member-completed", m, [Moved EXCEPT !.pc = "prepare", !.i = @ + 1])
             \/ LogFails("member-completed", m, Undo(Moved))
             \/ IoFails("read", Rollback)
        ELSE GoesTo(Rollback)
  /\ UNCHANGED files

CompleteGroup ==
  /\ At("prepare") /\ run.i = Len(run.pending) + 1
  /\ \/ Logs("group-completed", {}, To("recorded"))
     \/ LogFails("group-completed", {}, Rollback)
  /\ UNCHANGED files

\* completed_groups.add, still inside the try block.
LeaveGroup ==
  /\ At("recorded")
  /\ GoesTo([run EXCEPT !.pc = "group", !.g = @ + 1])
  /\ UNCHANGED files

-------------------------------------------------------------------------------
(* _rollback_quarantined_members and group-failed. *)

NextUndo == [run EXCEPT !.pc = "undo", !.i = @ - 1]

\* Unlike apply's, this rollback leaves a loser alone when the undoing cannot
\* be journalled.
UndoLoser ==
  /\ At("undo") /\ run.i \in 1..Len(run.moved)
  /\ LET m == run.moved[run.i]
     IN IF Quarantined(m)
        THEN \/ Logs("member-rollback-started", m, To("undo-rename"))
             \/ LogFails("member-rollback-started", m, NextUndo)
             \/ IoFails("read", NextUndo)
        ELSE GoesTo(NextUndo)
  /\ UNCHANGED files

UndoRename ==
  /\ At("undo-rename")
  /\ LET m == run.moved[run.i]
     IN \/ MoveBack(m) /\ GoesTo(To("undone"))
        \/ ~CanMoveBack(m) /\ GoesTo(NextUndo) /\ UNCHANGED files
        \/ IoFails("io", NextUndo) /\ UNCHANGED files

RecordUndo ==
  /\ At("undone")
  /\ LET m == run.moved[run.i]
     IN IF Pending(m)
        THEN \/ Logs("member-rollback-completed", m, NextUndo)
             \/ LogFails("member-rollback-completed", m, NextUndo)
             \/ IoFails("read", NextUndo)
        ELSE GoesTo(NextUndo)
  /\ UNCHANGED files

\* group-failed is written if it can be, and the run raises.
FailGroup ==
  /\ At("undo") /\ run.i = 0
  /\ Logs("group-failed", {}, Idle) \/ LogFails("group-failed", {}, Idle)
  /\ UNCHANGED files

-------------------------------------------------------------------------------
(* What may strike. *)

Crash ==
  /\ Fault("crash")
  /\ run' = Idle
  /\ UNCHANGED <<files, journal>>

\* Only the try block around the moves catches KeyboardInterrupt; after a
\* rename it may arrive before or after moved_this_attempt.append(member).
Interrupt ==
  /\ Fault("interrupt")
  /\ \/ run.pc \in Guarded /\ run' = Rollback
     \/ At("renamed") /\ run' = Undo(Moved)
     \/ run.pc \notin Guarded /\ run' = Idle
  /\ UNCHANGED <<files, journal>>

QuarantineStep ==
  /\ ~At("idle")
  /\ \/ SkipGroup \/ EnterGroup \/ ScanLoser \/ BeginGroup \/ FinishQuarantine
     \/ ValidateGroup \/ PrepareLoser \/ MakeQuarantineParent \/ RenameLoser
     \/ RecordLoser \/ CompleteGroup \/ LeaveGroup
     \/ UndoLoser \/ UndoRename \/ RecordUndo \/ FailGroup
     \/ Crash \/ Interrupt
  /\ UNCHANGED winner

\* A person, or another command, acts on the same files.
Interfere ==
  \/ /\ Fault("vanish")
     /\ \E m \in Members : src[m] = "media" /\ src' = [src EXCEPT ![m] = "absent"]
     /\ UNCHANGED <<dst, dir, winner, run, journal>>
  \/ /\ Fault("evict")
     /\ \E m \in Members : dst[m] = "media" /\ dst' = [dst EXCEPT ![m] = "absent"]
     /\ UNCHANGED <<src, dir, winner, run, journal>>
  \/ /\ Fault("unwind")
     /\ \E g \in GroupIds : winner[g] = "organized" /\ winner' = [winner EXCEPT ![g] = "elsewhere"]
     /\ UNCHANGED <<files, run, journal>>

Begin == (StartQuarantine \/ ResumeQuarantine) /\ UNCHANGED winner

QuarantineNext == Begin \/ QuarantineStep \/ Interfere

QuarantineSpec == QuarantineInit /\ [][QuarantineNext]_quarantineVars

-------------------------------------------------------------------------------
(* What execute_quarantine promises. *)

InPlace(g) == \A m \in InGroup(g) : src[m] = "media" /\ dst[m] = "absent"
InQuarantine(g) == \A m \in InGroup(g) : src[m] = "absent" /\ dst[m] = "media"

\* Nobody has deleted a file, and none was taken for absent that is there.
NothingDeleted == faults.struck \cap {"vanish", "evict"} = {}
NothingMissed == "look" \notin faults.struck

\* first-run.md:83, "It moves reviewed losers only and never deletes them":
\* through every failure and resume each loser that nobody deleted exists once,
\* in the library or in quarantine.
LosersConserved == NothingDeleted => \A m \in Members : OneCopy(m)

RecordedGroupsStand == \A g \in journal.groups : InQuarantine(g)

\* A loser the journal holds as moved is in quarantine: what resume demands of
\* the filesystem is true.
QuarantineRecordsStand == \A m \in journal.completed : dst[m] = "media"

\* Once faults have ceased, resume completes the quarantine whenever the
\* journal can be read, what it records as moved is in quarantine, and winners
\* and losers are where they belong.
QuarantineResumes ==
  [](/\ At("idle") /\ FaultsCeased /\ journal.file = "readable"
     /\ QuarantineRecordsStand /\ RecordedGroupsStand /\ NothingDeleted /\ WinnersOrganized
     => <>journal.done)

\* A quarantine is a reorganization, through every failure and resume and
\* whatever is deleted meanwhile, until a file is taken for absent that is there:
\* its groups are moved in order, at most one of them is ever in doubt, a group that
\* its journal holds as completed stays, and nothing moves once the quarantine is
\* recorded as completed.  The record of a journal that cannot be read, or that an
\* interrupt has contradicted, is not to be trusted.
Abstract == INSTANCE Reorganization WITH
  Groups <- Plan,
  moved <- {m \in Members : dst[m] = "media"},
  gone <- {m \in Members : src[m] = "absent" /\ dst[m] = "absent"},
  settled <- journal.groups,
  finished <- journal.done,
  trusted <- journal.file # "unreadable" /\ "interrupt" \notin faults.struck

Reorganizes ==
  /\ Abstract!ReorganizationInit
  /\ [][NothingMissed => Abstract!ReorganizationNext]_(Abstract!reorganizationVars)
===============================================================================
