# Verification of jellyfin-media-organizer

TLA+ modules, TLC runs and TLAPS proofs for `jellyfin_show_organizer` (JMO), the
program that plans, reviews, applies, rolls back and quarantines the
reorganisation of a media library. They cover the way of a file through the program:
the look-up of a show in the provider caches, the decision which show a folder is
and which episodes its videos are, the plan with its reviews and its preflight, and
the executors that rename media under a write-ahead journal and undo it again.

## 1. The system and its parts

JMO never changes a library on its own. A *plan* is computed from an inventory
and provider data, a human *reviews* it, and separate commands *execute* it.

| Part | Sources | State it keeps | Operations |
| --- | --- | --- | --- |
| Apply execution | `apply_execution.py`, `apply_validation.py` | the library's files, the apply journal, its lock | `execute_apply` (start, `--resume`, `--check-only`), `_rollback_members` |
| Rollback execution | `rollback_execution.py` | files, the rollback journal, both locks | `execute_rollback` (start, resume, check) |
| Quarantine and restore | `quarantine_contract.py`, `quarantine_execution.py`, `quarantine_cli.py` | files, quarantine and restore journals | `execute_quarantine`, `execute_quarantine_restore` |
| Apply contract and scope | `apply_contract.py`, `apply_scope.py`, `apply_scope_cli.py` | none (immutable values) | derive operation groups, bind approvals, subset a contract, `replay_journal` |
| Review | `review*.py`, `tools/merge_review_sessions.py` | the review session file and the override files | record an answer, defer, batch, approve a part, resume, merge, compile the reviewed overrides |
| Overrides | `overrides.py`, `source_hold` parts | none | parse, merge and apply override decisions |
| Planner | `planner.py`, `reconciliation.py`, `inventory.py`, `destination.py`, `sidecars.py`, `duplicate_classifier.py`, `extra_*.py`, `release_*.py` | none | inventory, assignment of destinations, companions, duplicates |
| Preflight | `preflight.py` | none | collisions and unsafe destinations of a plan |
| Show resolver | `_show_resolver_core.py`, `show_resolver.py`, `show_*_evidence.py`, `numbering_inference.py` | none | score provider candidates, accept one or hold |
| Title aliases | `provider_aliases.py`, `parenthetical_aliases.py` | none | other names of a show, read from an answer or a name |
| Episode assignment | `episode_assignment*.py`, `mixed_episode_assignment.py`, `segment_counted_titles.py` | none | match sources with provider episodes |
| Filename parser | `filename_parser.py` | none | tokens of a file name |
| Providers and caches | `providers.py`, `tvmaze_cache.py`, `tmdb_cache.py`, `tvmaze_alias_cache.py` | cache files | look up, fetch, refresh, negative entries, rate limits |
| Artifacts | `schema.py`, `_schema_v3_impl.py`, `models.py`, `decision_hash.py`, `artifact_identity.py`, `run_provenance.py`, `summary_io.py`, `reports.py`, `privacy.py` | artifact files | serialise, hash, verify |
| Commands | `cli.py`, `user_commands.py`, `entrypoint.py`, `api.py` | none | arguments, confirmation tokens, exit codes |

How they interact: the planner writes `plan.json`, preflight and provenance
files; a review session bound to the plan's hash produces reviewed overrides,
from which the plan is computed again; an apply contract is derived from the
final plan and bound to the hashes of plan, review session and source revision;
the three executors share the library's files, and rollback and restore read
the journal that apply and quarantine left.

### What is hard in it

* **Crashes and interrupts.** An executor may die, or see `KeyboardInterrupt`,
  between any two statements; the journal is written before and after each
  rename, and `--resume` must make sense of whatever is left.
* **A journal that fails.** `append` may raise before, in the middle of, or after
  its line reached the file; the process goes on with another idea of the file
  than the file itself.
* **Partial failure.** A group is all or nothing only because the handler undoes
  it, and the undo may fail, too.
* **Reads that fail.** A file that cannot be read is an answer in places: the
  executors take it for a changed one, the caches for a corrupt one, and a look at a
  path that fails finds nothing there.
* **Other programs.** Nothing keeps a second program from changing the library
  between a check and the rename it protects.
* **Chains of commands.** Rollback and restore act on what an earlier command's
  journal says, possibly after several resumes of each.
* **Caches, sessions.** A provider failure must not destroy what is known, and a
  review answered over days must not lose or misplace an answer.
* **A library that changes under a plan.** A planning command reads the library up
  to four times; reviews, applies and quarantines act on what an earlier reading saw,
  of the last plan or of a bundle that was kept, and the next scan sees what they did.
* **Answers that are missing.** A show is decided by comparing candidates, an episode
  by comparing videos. A request that fails in between removes one side of the
  comparison, and a pass that is skipped leaves the passes after it other input.

`PROJECT.json` lists each such place with its line under `hazards`.

### What makes each part correct

* Apply: no file is lost, duplicated or overwritten; what the journal records is
  so; a group is moved whole or not at all; every interrupted run can be resumed.
* Rollback and restore: they bring back exactly what was moved, in reverse, and
  go on from any interruption; the journal they rely on stays as it was.
* Quarantine: only losers move, none disappears, the winner stays.
* Review: an answer once given is in the final plan or the plan is refused.
* Planner, preflight: no two files ever share a place, no subtitle is separated from
  its video, no episode is organized twice unasked, the last copy stays, and what a
  reviewer decided holds in every later plan.
* Resolver: what a failed request leaves unknown is never taken as evidence.
* Assignment: no pass moves a video onto the episode of another one; videos that were
  held because they share one are released together, as the same episodes, or not at all.
* Caches: a fresh answer is never replaced by a failure; a replay needs no network.

## 2. The modules

| Module | Models | Extends |
| --- | --- | --- |
| `MediaFiles` | the files: what lies at the approved source path and the approved destination path of each member, the destination directories, the no-replace rename both ways | |
| `FaultModel` | the faults: how many may still strike, which kinds have struck | |
| `Reorganization` | what an executor that moves files promises: an abstract specification | |
| `ApplyExecution` | `execute_apply`; implements `Reorganization` | `MediaFiles`, `FaultModel` |
| `RollbackExecution` | `execute_rollback`, after and beside apply | `ApplyExecution` |
| `QuarantineExecution` | `execute_quarantine`; implements `Reorganization` | `MediaFiles`, `FaultModel` |
| `QuarantineRestore` | `execute_quarantine_restore`, after and beside quarantine | `QuarantineExecution` |
| `ReviewSession` | `run_review_system`: the ledger, the contract compiled from it, answers files | `FaultModel` |
| `ProviderCache` | the look-up of a title through two providers and their cache files, by commands that run at once | `FaultModel` |
| `PlanRules` | the rules of a plan: destinations, sidecars, duplicates, preflight, the files that an apply and a quarantine move | |
| `Planning` | the planning command, reading by reading, among reviews, applies, quarantines and other programs | `PlanRules` |
| `EpisodeRules` | the rules of episode assignment: which episodes of a catalog the videos of a folder are | |
| `EpisodeAssignment` | the passes of the assignment, with the request before each | `EpisodeRules` |
| `ShowResolution` | the resolution of a folder to a show: evidence, rescues, retries | `EpisodeRules` |
| `Matching` | a folder from its name to the episodes of its videos | `ShowResolution`, `EpisodeAssignment` |
| `ApplyExecutionProofs` | theorems about `ApplyExecution` | `ApplyExecution`, `TLAPS` |
| `RollbackExecutionProofs` | theorems about `RollbackExecution` | `RollbackExecution`, `ApplyExecutionProofs` |
| `QuarantineProofs` | theorems about `QuarantineExecution` and `QuarantineRestore` | `QuarantineRestore`, `TLAPS` |
| `ReviewSessionProofs` | theorems about `ReviewSession` | `ReviewSession`, `NumberSetLemmas` |
| `ProviderCacheProofs` | theorems about `ProviderCache` | `ProviderCache`, `NumberSetLemmas` |
| `PlanningProofs` | theorems about `Planning` | `Planning`, `TLAPS` |
| `MatchingProofs` | theorems about `EpisodeAssignment` and `Matching` | `Matching`, `NumberSetLemmas` |
| `NumberSetLemmas` | the least and the greatest member of a finite set of numbers | `TLAPS` |
| `MC...` | small instances for TLC | the module of that name |

### The executors

**Files.** A member's path holds nothing (`absent`), the approved file
(`media`: `_fingerprint_matches` is true) or anything else (`foreign`). The
parents of a source path are taken to be real directories, and a destination has
one directory (`Parent`); a chain of directories is created one by one in the
code, each with its two events, as `PrepareMember` and `MakeParent` do for one.
`Organized`, `Restored` and `Revalidates` are the code's reads of both paths;
`MoveOut` and `MoveBack` are `_atomic_rename_no_replace`, which never replaces.

**Control.** `run.pc` is the place in the executor, between two effects: every
append, rename, directory creation and group of reads is a step of its own, so
that a death, an interrupt or another program can come between any two of them.
`run.g` and `run.i` are the loops, `run.pending` and `run.completed` the two
lists of the code. The code's reads just before an append belong to the step of
that append; the window between the last read and the rename is there
(`PrepareMember`, then `RenameMember`).

| Phase | Code in `execute_apply` |
| --- | --- |
| `group` | the head of the loop over `contract.groups`; at its end the final verification and `run-completed` |
| `scan` | the classification of each member by journal and files, then `group-started` |
| `revalidate` | the first loop over `pending` |
| `prepare`, `mkdir` | `_ensure_parent_directories`, revalidation, `member-started`; past the last member `group-completed` |
| `rename` | `_atomic_rename_no_replace` |
| `renamed` | `completed.append`, `_verify_destination`, `member-completed` |
| `recorded` | `completed_groups.add`, after `group-completed` and still inside the try block |
| `undo`, `undo-rename`, `undone` | `_rollback_members`, then `group-failed` |

The phases of the other executors are the same loops under their own names:
rollback and restore have `failed` (the handler, which undoes nothing) in the
place of the undo.

**Journal.** A journal is what its `state()` function reads from the file: the
members started and completed (a rolled-back one is neither), the groups
completed, whether the run is done; for apply also the last result of each group.
`file` is `none`, `readable` or `unreadable`. Every `append` can fail in four ways
(`LogFails`): nothing is written; the line is written and `fsync` raises; a part
of it is written and the call raises; a part of it is written and the process
dies. After a line this process does not know of, its next one repeats a sequence
number, which `_read` refuses for ever: that is `run.ahead` and `Written`.

**Commands.** `Start`, `Resume` and their counterparts are the command without
and with `--resume`; a command that raises before it changes anything, and
`--check-only`, are not steps. `lock` is the apply journal's advisory lock, held
by an apply or a rollback; the quarantine journal's lock is held by a quarantine
or a restore. The rollback's and the restore's own second lock excludes nothing
that the first does not, and is left out. Hashes, tokens and bindings are taken
as matching: a mismatch raises before anything changes.

**What they implement.** `Reorganization` knows no journal, no handler and no
process: files move group by group, a group is settled when all of it has moved,
only the last group touched may be in part at its new place, a settled group
stays, and nothing moves after the end. Apply and quarantine map their files to
`moved` and `gone` and their journal's groups and end to `settled` and `finished`.
`trusted` says whether the record of a settled group may be relied on: an interrupt
just after `group-completed`, or a failed `fsync` of that line, makes the handler
undo a group that its journal holds as completed, and from then on the abstract
specification allows it to. That is the weakest promise the code keeps, and it is
the reason for the variable.

**Faults.** `crash`: the process dies between two steps. `interrupt`:
`KeyboardInterrupt` between two steps, including between a rename and the
statement after it. `io`: a change of the filesystem raises and has no effect. `read`:
a file that is there cannot be read or looked at. `_fingerprint_matches` turns the error
into "no match" (`apply_execution.py:491`), so most checks refuse what they cannot read,
and raise; but where a resume asks whether a started member of an apply has moved, the
answer is "no", and the member is taken for one still to move (`ScanMember`). `look`: a
path is taken for empty, which `os.path.lexists` makes of any error. It matters to
quarantine and restore, for which a loser that is nowhere is dealt with
(`IoFails`, `LogsAmid` and their like); apply and rollback have no such answer, what
they take for absent they refuse, so there it is a `read`. `append`, `fsync`, `torn`:
as above. `meddle`: any path changes under the executors.
`vanish`, `evict`, `unwind`: a person deletes a loser, deletes a quarantined file,
or rolls back the apply that organized a winner. `outage` and `damage` are those of
the caches. `MaxFaults` bounds how many strike in one behaviour. An interrupt in the
middle of an append has the outcomes of `append`, `torn` and `fsync`, and is not a
kind of its own.

### The review

`ledger` is the session file and `wizard` the running command with its
session in memory; `contract` is the override file that the last command published,
under a new name each time, and `bundle` an answers file with the session whose
hash it is bound to. A hash is compared as the value it stands for. An item is a
duplicate group or a held source; of an answer the module keeps the action and
the Jellyfin IDs of the show, the one part of an answer that other answers share.
`scratch` is the table of overrides in memory that the prompts start from.

| Phase | Code in `run_review_system` |
| --- | --- |
| `create`, `create-in-place` | `atomic_write_new`: the link, or the exclusive file where there are no links |
| `select` | the bindings of the answers file, `_filter_items` |
| `batch` | `_apply_batch_recommended`, `_apply_batch_keep_held` |
| `ask` | the loop over `selected`: `_answer_duplicate`, `_answer_held`, `atomic_replace` |
| `approve` | `with_approved_scope` and its `atomic_replace` |
| `compile` | `compile_active_overrides` and its `atomic_write_new` |

An answer and its save are one step (`Saves`): between them there is nothing but
memory, and a death there leaves what a failed write leaves. Ctrl+C at a prompt, a
wrong label, a declined confirmation that raises and a death all end the command
and keep the file; they are `CrashReview`. A confirmation that is declined defers
the item. `SelectItems` drops the options that the rest of the command does not read.
The choice of provider shows and episodes stays out, and with it the answers
`multi_episode`, `special` and `extra`, which store a show in the same way as
`episode`. The plan and the base overrides do not change: the command refuses others.

### The provider cache

A look-up is one to several requests: the title at TVMaze; the title at TMDb unless that
gave exactly one show; and, where the first one failed and TMDb lists titles, each of
these at TVMaze. A command is at one request (`Current`) and in one of the places `read`
(`_read` and the decision of `_get_or_fetch`), `fetch` (the request) and `write`
(`_write`, an atomic replace); so two commands may interleave between reading an entry
and writing it. A read may fail: the file that is there passes for a corrupt one and
stays (`tvmaze_cache.py:409`, `tmdb_cache.py:280`), or, where it cannot even be looked
at, for none, or the command raises, as the version of Python has it (`FailsToRead`);
`unread` remembers which. An entry of TMDb may be JSON that is no object (`Alien`), over
which every command raises (`tmdb_cache.py:258`). A response is the set of the shows it
lists. Time is whether an entry is stale. `Kept` is the one place in which the two
caches differ: a refresh keeps a fresh answer of TVMaze and nothing of TMDb. `plan` is
what a command found last, the answer that the planner goes on with.

### The plan

`Planning` takes the planning command in the steps in which it reads the library:
`Scan` (the videos), `DraftPlan` (`_build_plan`: sidecars, assignment, duplicates,
companions), under a review contract twice a second scan (`Reread`) and what follows
from the sidecars beside it, `Extend` (`_apply_review_extensions`) and `Bind`
(`_apply_duplicate_group_contract`, `_rebuild_companions`), and `Publish`
(`preflight_plan`). Between any two of them another program may change a file
(`LibraryChange`). Reviews, applies, scoped applies and quarantines are one step each
here; what happens inside them is the business of their own modules. They work from a
bundle: that of the last plan or one of earlier plans that was kept (`saved`,
`Bundles`), since `prepare_apply` and the quarantine bind to the bundle that they are
given and know of no later one; `outdated` is a history of what was done from such a
one. A review is of the last plan. A plan that needs no review may be applied here
without one, where the code wants a review session even if there is nothing to
answer: more behaviours, not fewer. A rescan finds
what they moved: `FoundAt` reads a managed path as the layout says.

`PlanRules` has the pure rules in the order of the code. A path is a base (directory
and stem) and a tail; a base is made of the show and the episodes, or of the kind and
title of an extra, so two names that the code formats to one path are one value.
Names that differ in case or Unicode form are one path, as in the preflight's key.
What matching finds for a video (`finds`) is an arbitrary member of `Findings`. The
version of a file stands for its fingerprint. Preferences from before reviews had
contracts, and the rule that compares SHA-256 digests, are left out; no scan makes
digests, so the second never applies.

### Matching

`EpisodeRules` has one operator for each rule of `episode_assignment_strict.py`, each
pass of `mixed_episode_assignment.py` and `segment_counted_titles.py`.
`EpisodeAssignment` runs them: the core, the passes if its result signals a need,
the leading articles, the equivalent duplicates; before each the code asks for the
catalog again, and each of these requests may fail (`Unreliable`), as it does when the
cache refreshes. What a name's title says is abstracted to how it relates to the
titles of the catalog (`spells`, `whole`, `near`, `article`, `joined`): these are what
the title comparisons of the code return, and the instance chooses them freely.
`foreign` marks a video whose name carries the ID of another show; the resolver refuses
such a folder before, so no instance has one.

`ShowResolution` has the core resolution (overrides and tags, scores, aliases, the
seven rescues by titles and catalogs in the order of
`_attempt_structural_resolution`) and the five retries of `show_resolver.py`, one
action each. A world has the searches by each name of the folder, the scores in
hundredths as data, aliases, years, catalogs, and the set of requests that fail. A
search is put together from several requests, each of which may fail on its own: the
name at TVMaze, the name at TMDb, and the titles that TMDb lists at TVMaze (`Found`,
from `AutoProviderAdapter.search_shows`), so one that is answered may have other
candidates than it would have with every answer. A failed request stays failed, because
the cache keeps the failure. `IsWorld` says what a
world is; it bounds the scores of the shows that searches find, because
`_score_candidate` and the comparison of aliases do. Two runs are made of
every world: `actual`, and `ideal` with every request answered. Comparing the two is
how the module says what a missing answer may not do.

`Matching` hands the show and its numbering mode on to the assignment, or leaves all of
the videos open, as `_build_plan` does. Not in it: the check that a resolution came
from the active provider, the generic titles of specials, the preferred title of an
override and alias titles that match one.

## 3. The runs

| Run | What it shows |
| --- | --- |
| `apply_faults` | under any three faults but interference, failed reads among them: no file is lost, the journal tells the truth as far as each kind of fault allows, an apply implements `Reorganization`, and only a journal that contradicts the files stops a resume |
| `rollback_faults` | a whole life of apply and rollback under three faults, other programs included: no rename onto an occupied path, nothing is lost, the library passes back through the states of the apply, every rollback ends |
| `quarantine_faults` | a whole life of quarantine and restore under three faults, deletions and lost winners included: until it is taken back, or a look takes a file for absent, the quarantine implements `Reorganization`; no loser is lost; restored means restored; every resume that can succeed does |
| `review_faults` | a review in any number of commands, with one failed write or death |
| `cache_faults` | two commands over one cache, one in any mode, one that refreshes, with a failed request, read or write, a death or a damaged file: a replay finds what was found, a fresh answer stays, refreshing repairs all but one kind of damage |
| `planning` | plans, reviews, applies, quarantines and rescans in any order, from the last bundle or an earlier one, with up to one change by another program and two review answers |
| `matching` | folders from their names to their episodes, with requests that fail in the resolution and between the passes: the guards hold, what they held is released together, and a failed request for aliases or a catalog never makes another show win among the candidates that the searches gave |
| `apply_crashed_rollback`, `planning_drift`, `planning_subtitles`, `matching_decisions`, `matching_overlaps` | one disagreement of code and text each (section 6) |

**Executors.** Two groups of two members (a video and its subtitle), in a directory each
that may or may not exist. Two groups are the least that has a group before and one
after the failing one, two members the least that has a member to undo and one that
failed. Three faults let one strike the run, one its undo and one the resume. A safety
property that some fault can break is stated with the faults that it withstands:
`RollbackResultIsTrue` has no interrupt and no failed read, `GroupsWholeWhenIdle` is for
a failing journal, `BenignFaultsRecovered` for deaths alone or failed changes alone,
`RollbackConserves` for a library nobody else touches, and what is said of the order and
the records of quarantine and restore holds while no look takes a file for absent
(`NothingMissed`). `ResumeCompletes`, `RollbackResumes`, `QuarantineResumes` and
`RestoreResumes` say what is enough, after any faults, for `--resume` to finish the
work: a journal that can be read and does not contradict the files. A rollback does not
need the second condition, because it never undoes anything; a restore needs it only for
what a look has missed.
Deadlock is not checked here: a completed library, and a journal that no command can
read, are ends of a behaviour.

**Review.** Three items, a duplicate group between two sources of one show: the least
that has an item before and after one of another kind, and two answers that share a
show. `MCCommandLines` has five of the combinations of options, one for each part of
the command: all items asked; both batches; a filter with an approval and a batch;
pending items with an approval; an answers file. Commands may be repeated without
end. `MaxDecided = 0` has an answers file written before the first decision, so that
everything that comes after it makes it stale. One fault is enough where every
command may also be stopped and repeated: what it leaves is again a whole ledger.

**Cache.** One title that TVMaze lists one or two shows for, and a second title, of
one of the two, that TMDb may list: all the paths of a look-up (decided at once,
decided by both, retried after a failure). Two commands are the least that can
overwrite each other, and one fault the least that leaves a bad entry; the entries
persist, so a fault of one command is the input of every later one.

**Planning.** Three releases of one show in two folders of the inbox, two subtitles,
four ways in which matching may understand them (the same episode; extras of one
title; double episodes; two episodes, one twice). Three videos are the least for a
group that grows after its winner has moved. One change by another program, at any
point; it may also be a file that comes to the inbox later. Two review answers are the
least that can contradict each other, or that follow one another around an apply. One
bundle of an earlier plan may be kept, beside a change or a second answer
(`MCBudgets`); the sidecars and releases that are missing at first (`MCAbsences`) are
those without which the interesting plans are not ready.

**Matching.** Any one to three of twenty-three videos, one for each form of evidence and
each guard or remap that must be provoked, in five numbering modes and two catalogs;
three of them are what a segment remap needs as its proof and what a collision in the
middle needs. Two shows, with scores around each threshold, and every subset of their
alias and catalog requests failing; two shows of different titles that TVMaze or TMDb or
both list, with every subset of the four requests of such a search failing (`Searched`).
`Known` folders give the show, so that all of the assignment is reached; the other kinds
of case have one to five videos and are about the show. Failed catalogs are left out of
the cases where halves of a pair and the years of a folder decide: there the code does
decide differently (section 6). Deadlock is not checked: a folder is done when it is
done.

**Fairness.** Executors: weak fairness of a running executor's steps (a process that
is scheduled goes on; its own failures are among its steps, and finitely many), and
of the operator's commands, who starts the run and repeats it with `--resume` until it
has completed, as the documents tell them to. Nobody has to ask for a rollback or
a restore; once started it is resumed. Faults and interference are never fair.

Review: weak fairness of the command's steps and of starting it, and strong
fairness of a plain `--resume` and of settling each item when it is asked. Strong,
because both are enabled again and again and never for long: the prompt for an item
comes and goes with each command. They say of the reviewer that he does not give up
and defers no item for ever, and nothing about the order in which he works or the
options he uses; without them `ReviewCompletes` cannot hold of any program.

Cache: weak fairness of each command's steps, and strong fairness of starting a
refresh: somebody refreshes again and again. `RefreshRepairs` needs it, because without
a refresh a stored failure is returned for ever; and it needs that damage and outages
end, which `MaxFaults` says. It excepts the file of TMDb that holds JSON which is no
object.

`Planning` and `Matching` state no liveness: every command there is a straight line.

## 4. What is proved

Each module `...Proofs` proves theorems about the module of that name for every value
of its constants that its named assumptions allow: any number of members, groups,
items, shows, commands or videos, any set of faults and any number of them. The
inductive invariants named here were all checked by TLC too, on the instance of the
component's run. The assumptions are what the code enforces before it starts: a contract
has each member in exactly one group, once (`ContractAssumption`, `PlanAssumption`); a
journal that can be completed has a group (`Contract # <<>>`, `Plan # <<>>`, where a
theorem says so); a command line is one the parser accepts and an answers file says
something its author could say (`CommandAssumption`); the inbox has finitely many videos,
and no file is both a video and a sidecar, which the code tells by the extension
(`RulesAssumption`); matching finds what `Finds` says (`PlanningAssumption`).

**`ApplyExecutionProofs`**

* `TypeCorrectness`: `Spec => []TypeOK`, from `TypeInv`, which adds that the loop
  variables point into the lists they walk (`Placed`); without it `run.pending[run.i]`
  means nothing and no step preserves a type.
* `NeverOverwrites`: `NoOverwrite`, with other programs interfering; each step holds
  at most one file operation (`OneFileOperation`).
* `FilesAreConserved` and `JournalIsWriteAhead`, without interference: the
  invariant is `WriteAheadInv`. `WriteAhead` is not inductive: the rename needs that
  its member is already announced, and an announcement counts only in a file that
  can be read and has no line the process does not know of (`Announced`). During
  an undo neither need hold, and need not: nothing is moved out then.
* `RolledBackIsTrue`, without interference and until an interrupt or a failed read: when
  the journal says that a group was rolled back, all of it is at its sources. The
  invariant `RollbackInv` adds that the executor's lists hold members of its group
  (`Lists`), that every member at its destination is known to the process
  (`Covered`: in `completed`, or still to be found by the scan), and that a group in
  work is not recorded as rolled back (`Open`). An interrupt between the rename and
  `completed.append` breaks `Covered`, and so does a scan that cannot read a file that has
  moved; both are among the observations of section 6.
* `ApplyReorganizes`, without interference: the step simulation of `Reorganization`.
  The abstract specification moves one member at a time, each announced before, and
  never goes back on a recorded group, so a step of the code needs an invariant about
  where the others are: `OrderInv` says which groups before the one in work are at
  their destinations, and that behind it all is at its sources.
* `GroupsAreLeftWhole`, without interference: when only appends failed, the command
  stops with every group on one side. `WholeInv` follows the undo: what the process has
  in `completed` and what it scanned is all there is to take back, and taking it back
  needs no journal.

**`RollbackExecutionProofs`** is about the composition of apply and rollback.

* `RollbackTypeCorrectness`, and `RollbackNeverOverwrites` with interference.
* `RollbackConservesFiles`: every member is at one of its paths as long as no other
  program has struck. The theorem of apply excludes the interference by an assumption on
  `Faults`; this one speaks of `faults.struck`, so it holds up to the first disturbance.
* `RollbackReversesOrder`: a prefix of the apply's moves stands at each moment. In
  `ReverseInv` the process knows the order too: what it has `pending` is the rest of the
  group, listed from its end (`ListedInReverse`), and what it skips is back already.

**`QuarantineProofs`** is about the quarantine on its own (`QuarantineSpec`) and then
about its life with a restore (`RestoreSpec`).

* `QuarantineTypeCorrectness`, `RestoreTypeCorrectness`.
* `LosersAreConserved`, and `LosersAreConservedThroughout` with a restore at work: each
  loser exists once until somebody deletes a file.
* `QuarantineReorganizes`: the step simulation, with no fault excluded: losers and
  winners vanish and are evicted in between. It speaks of the steps up to the first look
  that takes a file for absent, so its invariant (`UnmissedInv`) is `OrderInv` until then
  and types alone afterwards. `OrderInv` has three parts that are not in
  the statement. `InOrder`: which losers are away fits the order of the plan. `Fits`: the
  place in the loop fits what is away. `Journalled`: a process that is not undoing a
  group knows every line of a journal that can be read; and one that is undoing a group
  the journal has as completed (the append of `group-completed` failed after its
  line was written) renames nothing before an append of its own makes the journal
  unreadable. Without the last part a completed group would seem to be taken back.
* `QuarantineReorganizesUntilRestored`: the same for the whole life, up to the first line
  of a restore journal. `UntouchedInv` says that until then no restore has a process or a
  record (`NotBegun`), so the only steps of a restore are attempts that fail, and they
  strike a fault and change nothing else (`AttemptKeepsAll`).
* `RestoreReversesOrder`, by the argument of the rollback, until somebody deletes a file
  or a look misses one.
* `RestoreRecordsAreTrue`: what the restore journal has as restored is in the library. A
  record is written after a rename or after a classification that found the loser in
  place (or missed it, or it was deleted: the two exceptions of the property), and the
  order of the restore keeps the quarantine from starting again (`DoneStays`).

**`ReviewSessionProofs`** rests on one invariant, `ReviewInv`: the session in memory
extends the ledger at the places where a command works with it (`Behind`), what a batch
or an answers file has still to answer is open (`Open`, `Fits`), and a contract exists
only between commands.

* `ReviewTypeCorrectness`, `ContractsRestOnTheLedger`: the ledger behind a contract is
  whole and has the answers the contract has.
* `AnswersAreKept`, `ApprovalsAreKept`: no step takes back an answer or an approval.
* `PreparedAnswersMeetTheirItems`, `OneSittingCompilesWhatItShowed`: action properties.

**`ProviderCacheProofs`** rests on `CacheInv`: a command whose files nobody else has
changed since it began knows that each request it has behind it is answered in the files
as it saw it (`Knows`, `Held`).

* `CacheTypeCorrectness`; `PlanningIsReproducible` (`ReplayFaithful`), of a command that
  could read every file: the proof follows a look-up through its stages and shows that a
  replay from the files takes the same turns; `FreshAnswersAreKept`, of a command that
  could read the very entry.

**`PlanningProofs`** rests on `PlanningInv`: types, `PlacesDistinct` itself, that a ready
plan collides with nothing in itself (`NoCollision`), and that a video lies in the inbox,
at a path of the layout, in its own quarantine place or nowhere. What the invariants
say of a plan they say of each of the `Bundles`.

* `PlanTypeCorrectness`.
* `FilesHavePlacesOfTheirOwn`: an apply may run on a bundle of long ago, over a library
  that has changed; `Current` at its start is what makes room for each file.
* `EpisodesAreOrganizedOnce`, from `OnceInv`, as long as only the plan published last is
  applied (`outdated`; section 6 has what an earlier bundle does). That plan may be old
  when it is applied, so the invariant relates it to the library of now: nothing enters
  the layout but by an apply, and an apply is of the plan that knows everything there.
  Of what is in the layout and was not moved by others, the plan has a record
  (`SeenAll`), as it was drawn from the reading (`Drawn`); of the records that claim the
  same episodes one goes (`PlannedOnce`), whether `DecideDuplicates` or a review decided
  between them.
* `TheLastCopyStays`, from earlier bundles too, from `KeptInv`, which adds to `OnceInv`
  what decides where a loser's winner is: a file of the layout stays where its place
  says that it belongs (`AtHome`, `Rooted`); the candidates of one decision go to one
  place, but for the extension (`Kin`), so whatever lies there can stand for each of
  them; a record that neither goes nor loses is where the plan found it (`Published`);
  and a quarantine directory is under the place of what was kept (`Remembered`).
* `ReviewedChoicesStand` (`ReviewedChoicesHold`), from `ChoicesInv`. While the group of a
  review is in the plan, the review decides its members. The difficulty is the group that
  has dissolved: the winner has moved, a candidate came, changed or was answered for, and
  the one that was turned down is alone. `ChoicesInv` says that each candidate still fits
  the key of its group (`Fitting`), so it collides with whatever else fits it
  (`KeysMeet`); that the winner is at its path, organized or lost to something organized
  (`Accounted`, `Whereabouts`), and that a quarantined extra lost to one of the very same
  place (`ExtrasKept`); and that a decision on duplicates prefers what a review preferred
  or what is in place (`Fair`). So one that was turned down and would move meets one that
  must be preferred to it. TLC checked `ChoicesInv` on the instance of the run.
* `SubtitlesGoWithVideos` (`SubtitlesStayWithVideos`), from `TogetherInv`, which stands
  on `ChoicesInv`. A command reads the library up to four times and says of a sidecar
  what the last reading says, so the readings have to agree. They do for a subtitle and
  its one video (`Pair`) that nobody else has changed: such a pair moves by applies and
  quarantines only, and none of these runs while a command does, so what was seen of the
  video is still so (`SeenTruly`). Each reading then finds the subtitle with its video
  or leaves it open, and an open one blocks the plan; otherwise the records say of both
  that they go to one base, are both losers, or both stay (`PairsMatch`). An apply of
  some groups takes both, or the one that is not yet where the other already is. An
  earlier bundle may meet the pair in the layout, at a path that a later plan gave it:
  there a subtitle is named after its video and itself (`Named`), so a move of both to
  one base leaves both with one name. TLC checked `TogetherInv` on the instance of the
  run, and the property on others too.

**`MatchingProofs`** is about the assignment for every catalog and folder and each of the
modes (`AssignmentAssumption`), and about the resolution for every world that `IsWorld`
admits (`WorldAssumption`).

* `AssignmentGuardsEpisodes`, `MatchingGuardsEpisodes` (`EpisodesGuarded`), from
  `MatchingInvariant`. In the modes in which two videos must not share an episode, each
  pass ends with a guard, and after it the group is `Disjoint`; the lemmas about the
  passes show that whatever is changed after its guard takes episodes away. In the
  segment mode two videos may be parts of one episode, so there the invariant is that
  each is one episode at most (`Single`). Only a pass that reads a title as several
  episodes could break that, and it starts from a title that disputes the coordinate;
  the core makes no such dispute of a segment (`Undisputed`).
* `AssignmentReleasesTogether`, `MatchingReleasesTogether`: the components of the claims
  are the classes of an equivalence (`ComponentHeld`, `ComponentSymmetric`). A component
  is the least set that is closed under being held together, so this needs no induction:
  what a closed set leaves of the claimants is closed, too.
* `MatchingAnswersDecide` (`AnswersDecide`): of two shows that the same whole searches
  found, none wins because a request for aliases or a catalog failed. It says nothing of
  a search that was put together from fewer answers (`SearchedInFull`), nor of folders
  named for a pair of titles or a range of years with such a failure: there the code does
  decide differently. `Compared` relates the run with failures to
  the one with every answer. What the first one matched without a question that failed,
  the second one matches too (`Agree`); after one that a failed request left open, what a
  retry may still decide depends on searches (`Binding`), and both have made the same
  ones (`AskedBefore`). The heart is a lemma for each of the seven ways of deciding: if a
  catalog it asks has failed, it takes nobody; and the catalogs it asks are those that
  it asks with every answer. For the tie-breaks the second half needs that scores are
  whole hundredths up to 100: the contenders of a tie are then near enough to be
  contenders of each later way as well. `EvidenceDecides` says that heart alone: among
  whatever candidates were found, the core resolution that matches a show although
  requests failed matches the one it would match with every answer about them.

**Only model-checked** is the liveness: `BenignFaultsRecovered`, `ResumeCompletes`,
`RollbackResumes`, `QuarantineResumes`, `RestoreResumes`, `ReviewCompletes` and
`RefreshRepairs`. It rests on fairness and `ENABLED`, out of the prover's reach. Every
other property of a run that is to hold has a theorem.

## 5. What is not modelled

The file-name parser, the title aliases and the normalisation and similarity of
titles: text, whose properties are examples; their results are data of the modules.
The caches of episode catalogs and of aliases, which work as those of `ProviderCache`
do, and the decoding of answers. The parser and validation of override files.
Artifacts, hashes and reports: a hash stands for the value it identifies. Argument
parsing, confirmation tokens and output of the commands, and the tools of the
repository. `PROJECT.json` gives each with its reason.

Inside the modelled parts: the contents of events that only a person reads, symbolic
links above a source path, devices and platforms other than the rename they offer; two
commands on one ledger (nothing locks it, each would replace the file with its own
session, and `AnswersStand` is about one command at a time); two executors with two
journals over one library; the second replay of an apply journal by a later command
(`replay_journal`); the merge of two ledgers.

## 6. Where the code and its documents disagree

### With a run

1. `apply_crashed_rollback`: a death inside `_rollback_members`, after the rename
   back and before its event, makes every resume refuse, though the journal and the
   files prove what happened; `rollback_execution.py` recovers the same situation.
2. `planning_drift`: a reviewed choice of a winner whose group the new scan does not
   show is taken as consumed by an apply, whatever removed it
   (`review_execution.py:554`). A reviewer picks one of two releases, the picked one is
   deleted, and the one that was turned down is planned to move.
3. `planning_subtitles`: the preflight looks at a moving subtitle of a duplicate group
   as if it were a video, and never finds its path to be the winner's
   (`preflight.py:446`). A group whose winner has a subtitle blocks its own move, even
   when everything about it is decided.
4. `matching_decisions`: a video with an explicit episode decision whose name ends in
   the exact title of another episode is given that other episode
   (`episode_assignment_strict.py:521`).
5. `matching_overlaps`: two copies of an episode, which the guard holds, are released
   although the title of a third video gave it that episode and the next one meanwhile
   (`planner.py:404`). The docstring at `planner.py:370` and
   `docs/duplicate-preferences.md:23` say that partial overlaps remain suspicious.

### Seen while modelling, without a run of their own

Executors:

* An interrupt between the rename and `completed.append` (`apply_execution.py:837-838`)
  leaves a member at its destination in a group reported and journaled as rolled back;
  a later resume adopts it. The same window is in `quarantine_execution.py:1010-1018`.
* An interrupt right after the append of `group-completed` (`apply_execution.py:851`,
  `quarantine_execution.py:1030`), still inside the try block, undoes a group that the
  journal holds as completed, and every resume refuses.
* A resume that cannot read a member which has moved (`apply_execution.py:491`, `:792-811`)
  takes it for one still to move, fails to revalidate it, takes the others of the group
  back, and journals the group as rolled back while this member is at its destination. A
  later resume that can read it adopts it.
* A member whose file cannot be read just after its rename back
  (`apply_execution.py:678`) gets no `member-rollback-completed`: it is at its source, the
  journal has it as moved, and every resume refuses, where `docs/first-run.md:81` says
  that "Apply resume handles incomplete groups". The same holds at
  `quarantine_execution.py:759`.
* `os.path.lexists` reports a look that fails as an absent file. A loser that is in the
  library is then recorded as dealt with (`quarantine_execution.py:964`), and the end of
  the run and every resume refuse; one that is still in quarantine counts as restored
  (`:293`), and a restore may be recorded as completed without it. In the apply a failed
  look does no harm: the rename refuses an occupied path.
* An event whose line was written and whose `fsync` failed is followed by one with the
  same sequence number (`rollback_execution.py:378`), and no resume reads the journal
  again; all executors share this.
* A death in the undo of a quarantine group leaves the journal saying that a loser is
  in quarantine while it is back in the library: every resume refuses, although the
  recovery text (`quarantine_execution.py:1040-1044`) promises one from "an unambiguous
  pending or journal-supported quarantined state".
* A loser gone from both places is accepted, recorded and then refused at the end of
  the run and on every resume (`quarantine_execution.py:1074`).
* A file that disappears from the quarantine root after it was announced is recorded
  as restored (`quarantine_execution.py:293`).

Review:

* On `--resume` the overrides that the prompts start from are built from the base file
  alone (`review_system.py:1189`), so an ID entered with an earlier answer is not shown
  with the next source of the show, and the answer to that one, which keeps what is
  shown, removes it from the contract (`review_contract.py:563-576`). In one command it
  is kept (`OneSittingKeepsIds`).
* A reviewer who resumes and defers an item again, as `docs/review-workflow.md:134`
  offers, stops the command with "review ref was not found" (`review_session.py:468`),
  because nothing changed; the items after it are not asked.

Provider cache:

* A plan records no snapshots of TMDb (`review_execution.py:804`, `planner.py:1290`),
  although its answers may decide between the shows of TVMaze.
* A file of TMDb that holds JSON which is no object makes every command raise
  `AttributeError` (`tmdb_cache.py:258`), a refresh too, where
  `docs/provider-cache-policy.md:14` says that "A deliberate refresh mode may replace a
  stale, corrupt, or previously failed entry".
* A cache file that cannot be read for a moment passes for a corrupt one
  (`tvmaze_cache.py:409`, `tmdb_cache.py:280`): a plan made meanwhile is not the one that a
  replay makes, and a refresh fetches over a fresh answer, perhaps a failure, although
  `docs/provider-cache-policy.md:14` goes on that "A fresh successful entry is not fetched
  again".

Planning:

* A plan made before a newer review can still be applied.
* A bundle of an earlier plan can still be applied after a later one. The first plan
  would move a release to the place of its episode; a better one with another extension
  comes, the second plan turns the first release down and is applied; the first bundle
  still revalidates, its destination is free, and the episode is organized twice.
  `EpisodesOrganizedOnce` excepts this (`outdated`).
* Holding the winner of a group, in the layout or in the inbox, takes it out of the
  group, so a release that a reviewer turned down may move; an equal release may move
  beside a held managed file. `ReviewedChoicesHold` excepts this (`Revised`): TLC finds it
  with three answers, when a file whose episodes overlap the winner's appears.
* Names that differ only in spelling collide by the preflight's key and not by the
  contract's exact paths.
* Two files whose ranges of episodes overlap in part, in different top folders, are not
  found until both are in the layout.
* A group whose members are all kept leaves a loser without a winner, and no quarantine
  can be derived from that plan.
* A reviewed episode decision stops every later scan once its source has moved; a
  reviewed group that has grown cannot be answered again beside its old decision.

Matching; `docs/paper-run-resolution-evidence.md:13` says "Provider/catalog failures,
incomplete evidence, ambiguous title matches, and multiple compatible candidates remain
unresolved or suspicious.":

* `_structural_year_resolution` decides by the year of the folder also where the result
  before it is suspicious because a contender's catalog was not answered.
* One half of a parenthetical pair whose catalog fails makes the other half a match,
  where the two would conflict (`show_resolver.py:297` looks for suspicious halves, and
  an unanswered one is unresolved).
* The retries with a release prefix and with joined words decide after a result that a
  failed catalog left open.
* A search that is put together from several requests is resolved also where some of them
  failed (`providers.py:198-233`): without the answer of TMDb all shows that TVMaze lists
  are candidates where the consensus would have left one, and when a retry fails the
  other titles may leave one show where there would have been two. Another show may win
  for it; `docs/providers.md:25` has "Missing or incomplete TMDb data remains unresolved".
  `AnswersDecide` is about searches made in full (`SearchedInFull`).
* The segment remap overrides the guard against dates before a premiere
  (`docs/numbering-policies.md:13`), and a failed second request for the catalog skips
  the guard.
* `catalog_group_rescue` infers the numbering by itself and ignores the one of an
  override.
* Two equal copies at a coordinate that their title disputes are promoted by the
  recovery of duplicates; a file of two episodes with the title of one becomes a range
  that names it twice, refused later by `destination.py:364`; the recovered duplicates
  need not be the episodes that were claimed.

## 7. The plan

Done: the executors under faults, the review, the provider cache, planning from scan to
quarantine, matching from name to episodes, the refinement of `Reorganization`; the
theorems of the executors, of the review, of the cache, of planning and of matching that
section 4 names. Next, in this order:

1. **Two journals, one library** (`SharedLibrary`): two instances of `ApplyExecution`
   share the files and have a journal, a lock and a process each. To find out: whether a
   resume of one adopts a member that the other moved.
2. **Two reviews and the merge** (`SharedReview`): two wizards on one ledger, and
   `merge_review_sessions.py` over ledgers that grew apart.
