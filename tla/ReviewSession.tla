----------------------------- MODULE ReviewSession -----------------------------
(***************************************************************************)
(* jmo review: run_review_system of review_system.py over the ledger of    *)
(* review_session.py.  A command asks a person about the items of a plan,  *)
(* one by one, replaces the ledger file after each answer, and compiles    *)
(* the answers into a contract that planning accepts beside that ledger.   *)
(*                                                                         *)
(* An item is a duplicate group or a held source.  Of an answer the model  *)
(* keeps the action and, for a source identified as an episode, the        *)
(* Jellyfin IDs of its show: the one part of an answer that others share.  *)
(* Hashes are compared as the contents they stand for.                     *)
(***************************************************************************)
EXTENDS FaultModel, FiniteSets, FiniteSetsExt

CONSTANTS
  Count,         \* the items of the plan are 1..Count, in the order of their refs
  Duplicates,    \* those that are duplicate groups; the others are held sources
  Recommended,   \* the duplicate groups with a recommended winner
  Manual,        \* those that allow the choice of a winner: no destination conflict
  Evidence,      \* the evidence group of each item
  Shows, ShowOf, \* the shows, and the show of each item
  Ids, NoIds,    \* what the Jellyfin IDs of a show may be; none
  Entered,       \* what the reviewer may enter for them
  CommandLines,  \* the options that are used, a subset of Options
  Prepared,      \* what an answers file may hold for each item
  MaxDecided,    \* how many items are decided at most when it is written
  NoContract, NoBundle

VARIABLES
  ledger,     \* the session file
  contract,   \* the override file of the last command, or NoContract
  bundle,     \* the answers file, or NoBundle
  wizard      \* the running command; pc = "idle" when none runs

reviewVars == <<ledger, contract, bundle, wizard, faults>>

Refs == 1..Count
Held == Refs \ Duplicates

ASSUME ReviewAssumption ==
  /\ Count \in Nat \ {0} /\ Duplicates \subseteq Refs
  /\ Recommended \subseteq Manual /\ Manual \subseteq Duplicates
  /\ ShowOf \in [Refs -> Shows] /\ NoIds \in Ids /\ Entered \subseteq Ids
  /\ \A d \in Duplicates, h \in Held : Evidence[d] # Evidence[h]
  /\ MaxDecided \in Nat

\* What the reviewer may say of an item; "keep" leaves the IDs that are shown.
Choice(action, ids) == [action |-> action, ids |-> ids]
Sayings(r) ==
  {Choice("defer", "keep")} \cup
  IF r \in Duplicates
  THEN {Choice(a, "keep") : a \in {"keep_all", "select_winner", "quarantine_candidate"}}
  ELSE {Choice("keep_held", "keep")} \cup {Choice("episode", e) : e \in {"keep"} \cup Entered}

Actions ==
  {"none", "defer", "keep_all", "select_winner", "quarantine_candidate", "keep_held", "episode"}
Item == [state : {"pending", "answered", "deferred"}, action : Actions, ids : Ids]
Session == [items : [Refs -> Item], approved : SUBSET Refs]
Decided(session) == {r \in Refs : session.items[r].state = "answered"}
Complete(session) == Decided(session) = Refs
UsableForPlanning(session) == Complete(session) \/ session.approved # {}

Fresh ==
  [items |-> [r \in Refs |-> [state |-> "pending", action |-> "none", ids |-> NoIds]],
   approved |-> {}]

\* Mutant: an answer drops every approval.
ApprovalsDropped(session, r, item) ==
  [items |-> [session.items EXCEPT ![r] = item], approved |-> {}]

\* with_answer, where it does not raise: a ref that is no longer answered
\* is no longer approved.
WithAnswer(session, r, item) ==
  LET items == [session.items EXCEPT ![r] = item]
  IN [items |-> items,
      approved |-> {q \in session.approved : items[q].state = "answered"}]

NoLedger == [file |-> "none", session |-> Fresh]
PartialLedger == [file |-> "partial", session |-> Fresh]
Whole(session) == [file |-> "whole", session |-> session]

\* compile_active_overrides: an item replaces the entry of its show with the
\* one it carries, so that the last item of a show decides on its IDs.
CompiledIds(session) ==
  [s \in Shows |->
     LET named == {r \in Decided(session) :
                     ShowOf[r] = s /\ session.items[r].action = "episode"}
     IN IF named = {} THEN NoIds ELSE session.items[Max(named)].ids]

Compiled(session) == [session |-> session, ids |-> CompiledIds(session)]

-------------------------------------------------------------------------------
(* The command. *)

Kinds == {"duplicate", "held"}
Phases ==
  {"idle", "create", "create-in-place", "select", "batch", "ask", "approve", "compile"}

OfKind(kind) == IF kind = "duplicate" THEN Duplicates ELSE Held
Filters == {Refs} \cup {OfKind(kind) : kind \in Kinds} \cup {{r} : r \in Refs}

\* What --show, --kind or --ref selects, --pending-only, --approve-partial, the
\* two batch options and --answers.  An approval needs a filter, but a filter
\* may select everything.
Options ==
  [filter : Filters, pendingOnly : BOOLEAN, approve : BOOLEAN,
   batch : SUBSET Kinds, answers : BOOLEAN]

Plain ==
  [filter |-> Refs, pendingOnly |-> FALSE, approve |-> FALSE, batch |-> {}, answers |-> FALSE]

\* Only options that exist are used, and an answers file answers as a person may.
ASSUME CommandAssumption ==
  /\ CommandLines \subseteq Options
  /\ \A r \in Refs : Prepared[r] \subseteq Sayings(r)

Accepted(options) == options \in CommandLines /\ (options.answers => bundle # NoBundle)

Commands ==
  [pc : Phases, session : Session, options : Options, fresh : BOOLEAN, scope : SUBSET Refs,
   todo : SUBSET Refs, batch : SUBSET Refs, scratch : [Shows -> Ids]]

Idle ==
  [pc |-> "idle", session |-> Fresh, options |-> Plain, fresh |-> FALSE, scope |-> {},
   todo |-> {}, batch |-> {}, scratch |-> [s \in Shows |-> NoIds]]

ReviewTypeOK ==
  /\ ledger.file \in {"none", "partial", "whole"} /\ ledger.session \in Session
  /\ wizard \in Commands
  /\ contract # NoContract =>
       contract.session \in Session /\ contract.ids \in [Shows -> Ids]
  /\ bundle # NoBundle =>
       /\ bundle.seen \in Session
       /\ \A r \in DOMAIN bundle.answers : bundle.answers[r] \in Prepared[r]
  /\ faults \in FaultRecords

ReviewInit ==
  /\ ledger = NoLedger /\ contract = NoContract /\ bundle = NoBundle
  /\ wizard = Idle
  /\ faults = NoneYet

At(phase) == wizard.pc = phase
To(phase) == [wizard EXCEPT !.pc = phase]

\* A step of the command that writes no file.
GoesTo(next) == wizard' = next /\ UNCHANGED <<ledger, contract, bundle>> /\ NoFault

\* The command raises.
Quits == GoesTo(Idle)

\* A write fails without effect, and the command raises.
WriteFails == Fault("io") /\ wizard' = Idle /\ UNCHANGED <<ledger, contract, bundle>>

\* Mutant: the session is written at the end only.
Remembers(next) == GoesTo(next)

\* atomic_replace, after each answer.
Saves(next) ==
  \/ /\ ledger' = Whole(next.session) /\ wizard' = next
     /\ UNCHANGED <<contract, bundle>> /\ NoFault
  \/ WriteFails

\* A command begins; it publishes to a file of its own.
Begins(command) ==
  /\ wizard' = command /\ contract' = NoContract
  /\ UNCHANGED <<ledger, bundle>> /\ NoFault

-------------------------------------------------------------------------------
(* Starting and resuming. *)

StartReview ==
  /\ At("idle") /\ ledger.file = "none"
  /\ \E options \in CommandLines :
       /\ Accepted(options)
       /\ Begins([Idle EXCEPT !.pc = "create", !.options = options, !.fresh = TRUE])

\* atomic_write_new: a link to a finished file or, where the file system has
\* none, a file written in place.
CreateLedger ==
  /\ At("create")
  /\ \/ /\ \/ ledger' = Whole(wizard.session) /\ wizard' = To("select")
           \/ ledger' = PartialLedger /\ wizard' = To("create-in-place")
        /\ UNCHANGED <<contract, bundle>> /\ NoFault
     \/ WriteFails

FinishLedger ==
  /\ At("create-in-place")
  /\ \/ ledger' = Whole(wizard.session) /\ wizard' = To("select")
        /\ UNCHANGED <<contract, bundle>> /\ NoFault
     \/ WriteFails

\* A partial file can be neither created again nor resumed: somebody deletes it.
DiscardPartial ==
  /\ At("idle") /\ ledger.file = "partial"
  /\ ledger' = NoLedger
  /\ UNCHANGED <<contract, bundle, wizard>> /\ NoFault

ResumeReview(options) ==
  /\ At("idle") /\ ledger.file = "whole" /\ Accepted(options)
  /\ Begins([Idle EXCEPT !.pc = "select", !.options = options, !.session = ledger.session])

\* Mutant: an answered item that is selected again is asked again.
NothingSettled == {}

Settled == Decided(wizard.session)

\* Mutant: a deferred item is not asked about again.
PendingAlways ==
  {r \in wizard.options.filter : wizard.session.items[r].state = "pending"}

\* _filter_items.
Selected ==
  {r \in wizard.options.filter :
     wizard.options.pendingOnly => wizard.session.items[r].state = "pending"}

\* Mutant: answers are taken for whatever session they come to.
BoundToPlanOnly == TRUE

\* The answers file is bound to the exact starting session ...
Bound == bundle.seen = wizard.session

\* ... and answers exactly the selected scope, all that is open in it.
Covers ==
  /\ DOMAIN bundle.answers \subseteq Selected
  /\ Selected \ Settled \subseteq DOMAIN bundle.answers

\* Of the options the loop needs two more; the scope is kept for an approval.
SelectItems ==
  /\ At("select")
  /\ LET options == wizard.options
     IN GoesTo(
          IF options.answers /\ ~(Bound /\ Covers /\ options.batch = {}) THEN Idle
          ELSE [wizard EXCEPT
                  !.pc = IF options.batch = {} THEN "ask" ELSE "batch",
                  !.options = [Plain EXCEPT !.approve = options.approve,
                                            !.answers = options.answers,
                                            !.batch = options.batch],
                  !.scope = IF options.approve THEN Selected ELSE {},
                  !.todo = Selected \ Settled])

-------------------------------------------------------------------------------
(* Answering. *)

\* The reviewer accepts some groups of the same evidence; a duplicate group
\* without a recommended winner in the batch stops the command.
AcceptBatch ==
  /\ At("batch") /\ wizard.batch = {}
  /\ LET open == wizard.todo \cap UNION {OfKind(kind) : kind \in wizard.options.batch}
     IN IF open \cap Duplicates \subseteq Recommended
        THEN \E groups \in SUBSET {Evidence[r] : r \in open} :
               LET accepted == {r \in open : Evidence[r] \in groups}
               IN GoesTo([wizard EXCEPT !.batch = accepted, !.todo = @ \ accepted,
                                        !.options.batch = {},
                                        !.pc = IF accepted = {} THEN "ask" ELSE "batch"])
        ELSE Quits

\* The duplicate groups are answered first.
NextInBatch ==
  Min(IF wizard.batch \cap Duplicates = {} THEN wizard.batch ELSE wizard.batch \cap Duplicates)

AnswerBatch ==
  /\ At("batch") /\ wizard.batch # {}
  /\ LET r == NextInBatch
         item == [state |-> "answered", ids |-> NoIds,
                  action |-> IF r \in Duplicates THEN "select_winner" ELSE "keep_held"]
     IN Saves([wizard EXCEPT !.session = WithAnswer(@, r, item), !.batch = @ \ {r},
                             !.pc = IF wizard.batch = {r} THEN "ask" ELSE "batch"])

Asked == Min(wizard.todo)

\* What the displayed group permits.
Permitted(r, action) ==
  CASE action = "select_winner" -> r \in Manual
    [] action = "quarantine_candidate" -> r \in Recommended
    [] OTHER -> TRUE

\* Mutant: a blank line is taken for the IDs.
BlankEntered(r, choice) ==
  [state |-> IF choice.action = "defer" THEN "deferred" ELSE "answered",
   action |-> choice.action,
   ids |-> IF choice.action = "episode" THEN choice.ids ELSE NoIds]

ItemOf(r, choice) ==
  [state |-> IF choice.action = "defer" THEN "deferred" ELSE "answered",
   action |-> choice.action,
   ids |-> IF choice.action # "episode" THEN NoIds
           ELSE IF choice.ids = "keep" THEN wizard.scratch[ShowOf[r]] ELSE choice.ids]

\* Mutant: what was entered is not shown with the next item.
ScratchForgotten(r, item) == wizard.scratch

\* The overrides in memory follow the answers that identify an episode.
ScratchAfter(r, item) ==
  IF item.action = "episode" THEN [wizard.scratch EXCEPT ![ShowOf[r]] = item.ids]
  ELSE wizard.scratch

\* with_answer raises when nothing changes: an item deferred once more.
Decide(r, choice) ==
  LET item == ItemOf(r, choice)
  IN IF Permitted(r, choice.action) /\ item # wizard.session.items[r]
     THEN Saves([wizard EXCEPT !.session = WithAnswer(@, r, item), !.todo = @ \ {r},
                               !.scratch = ScratchAfter(r, item)])
     ELSE Quits

AskItem ==
  /\ At("ask") /\ wizard.todo # {}
  /\ IF wizard.options.answers THEN Decide(Asked, bundle.answers[Asked])
     ELSE \E choice \in Sayings(Asked) : Decide(Asked, choice)

-------------------------------------------------------------------------------
(* Approving a part, and compiling. *)

FinishItems ==
  /\ At("ask") /\ wizard.todo = {}
  /\ GoesTo(To(IF wizard.options.approve /\ ~Complete(wizard.session)
               THEN "approve" ELSE "compile"))

\* with_approved_scope: the scope of this command takes the place of an earlier one.
ApproveScope ==
  /\ At("approve")
  /\ IF wizard.scope # {} /\ wizard.scope \subseteq Settled
     THEN Saves([wizard EXCEPT !.session.approved = wizard.scope, !.pc = "compile"])
     ELSE Quits

\* The override file has a new name each time; one left unfinished is no contract.
PublishContract ==
  /\ At("compile")
  /\ \/ /\ contract' = Compiled(wizard.session) /\ wizard' = Idle
        /\ UNCHANGED <<ledger, bundle>> /\ NoFault
     \/ WriteFails

\* The process dies, or the reviewer presses Ctrl+C: what is not saved is gone.
CrashReview ==
  /\ Fault("crash")
  /\ wizard' = Idle
  /\ UNCHANGED <<ledger, contract, bundle>>

\* Somebody writes an answers file for the ledger as it is.
PrepareAnswers ==
  /\ At("idle") /\ ledger.file = "whole" /\ bundle = NoBundle
  /\ Cardinality(Decided(ledger.session)) <= MaxDecided
  /\ \E scope \in Filters :
       \E answers \in [scope -> UNION {Prepared[r] : r \in scope}] :
         /\ \A r \in scope : answers[r] \in Prepared[r]
         /\ bundle' = [seen |-> ledger.session, answers |-> answers]
  /\ UNCHANGED <<ledger, contract, wizard>> /\ NoFault

ReviewStep ==
  \/ CreateLedger \/ FinishLedger \/ SelectItems \/ AcceptBatch \/ AnswerBatch
  \/ AskItem \/ FinishItems \/ ApproveScope \/ PublishContract

ReviewNext ==
  \/ StartReview \/ DiscardPartial \/ PrepareAnswers
  \/ \E options \in CommandLines : ResumeReview(options)
  \/ ~At("idle") /\ (ReviewStep \/ CrashReview)

ReviewSpec == ReviewInit /\ [][ReviewNext]_reviewVars

\* The reviewer is asked r at the prompt, and does not defer it.
Settle(r) == AskItem /\ r = Asked /\ wizard'.session.items[r].state = "answered"

\* A command goes on, and a person at its prompt answers at last, somehow; the
\* review is started, and resumed as a whole again and again; no item is
\* deferred for ever.
FairReviewSpec ==
  /\ ReviewSpec
  /\ WF_reviewVars(ReviewStep) /\ WF_reviewVars(StartReview) /\ WF_reviewVars(DiscardPartial)
  /\ SF_reviewVars(ResumeReview(Plain))
  /\ \A r \in Refs : SF_reviewVars(Settle(r))

-------------------------------------------------------------------------------
(* What a review promises. *)

\* An answer that the ledger file holds stays as it is: no later command,
\* filter, batch, deferral, answers file or failure reopens, changes or loses
\* it.  One command runs at a time: nothing in the code locks the ledger.
AnswersStand ==
  [][\A r \in Decided(ledger.session) :
       ledger'.file = "whole" /\ ledger'.session.items[r] = ledger.session.items[r]]_reviewVars

\* A contract never decides what the ledger file does not hold: after any
\* failure, resume finds every answer that a published contract rests on.
ContractBehindLedger ==
  contract # NoContract =>
    /\ ledger.file = "whole"
    /\ \A r \in Decided(contract.session) :
         ledger.session.items[r] = contract.session.items[r]

\* A ledger that planning accepts stays acceptable: going on with the review
\* after a partial approval never takes it back.
ApprovalStands ==
  [][UsableForPlanning(ledger.session) => UsableForPlanning(ledger'.session)]_reviewVars

\* A prepared answer meets its item as it was when the answer was prepared:
\* answers are not applied over what was decided or deferred since, and what is
\* left of an interrupted answers file is not applied at all.
PreparedAnswersFit ==
  [][wizard.options.answers =>
       \A r \in Refs : ledger'.session.items[r] # ledger.session.items[r] =>
         ledger.session.items[r] = bundle.seen.items[r]]_reviewVars

\* A review held in one command compiles the IDs that it showed last: each
\* answer starts from what the answers before it entered.
OneSittingKeepsIds ==
  [][contract' # contract /\ wizard.fresh => contract'.ids = wizard.scratch]_reviewVars

\* Through failures and filtered, batched or prepared commands, the review of
\* a person who does not defer for ever ends in a complete contract.
ReviewCompletes == <>(contract # NoContract /\ Complete(contract.session))
===============================================================================
