-------------------------------- MODULE Planning --------------------------------
(***************************************************************************)
(* planner.py and review_execution.py: the planning command, from the scan *)
(* of the library to a published plan with its preflight, among the other  *)
(* commands that read it or change what it saw: reviews, applies and       *)
(* quarantines, which are taken as a whole here, and other programs.  The  *)
(* command reads the library for its videos and then for their sidecars,   *)
(* and under a review contract does so twice more; each reading is a step, *)
(* so that the library may change between any two.  A published plan is a  *)
(* bundle of files, which may be kept and applied after later ones.        *)
(***************************************************************************)
EXTENDS PlanRules

CONSTANTS
  Findings,    \* what matching may find: functions from Videos to Finds
  Answers,     \* the finds a reviewer may answer with
  Absences,    \* the sets of files that may be missing from the inbox at first
  Budgets      \* bounds: how often other programs change the library, how many
               \* answers reviewers give, how many earlier bundles are kept

ASSUME PlanningAssumption ==
  /\ Findings \subseteq [Videos -> Finds]
  /\ Answers \subseteq {find \in Finds : Identified(find)}
  /\ Absences \subseteq SUBSET Files
  /\ Budgets \subseteq [changes : Nat, reviews : Nat, saved : Nat]

VARIABLES
  library,  \* where each file is, and which version of it
  finds,    \* what matching finds for each video in the inbox
  left,     \* the changes and answers still to come, and the room for bundles
  touched,  \* the files that other programs have changed
  catalog,  \* the review contract: decisions by path
  command,  \* the planning command that runs
  plan,     \* the plan published last
  saved,    \* the bundles of earlier plans that are still there
  outdated  \* history: what was done from one of those

planningVars == <<library, finds, left, touched, catalog, command, plan, saved, outdated>>

NoCatalog == [groups |-> {}, sources |-> {}, holds |-> {}]
Empty == [x \in {} |-> {}]
Idle == [pc |-> "idle", seen |-> Empty, records |-> Empty, companions |-> Empty,
         again |-> Empty]
NoPlan == [records |-> Empty, companions |-> Empty, ready |-> FALSE, latest |-> FALSE]

PlanningInit ==
  /\ finds \in Findings
  /\ \E missing \in Absences :
       library = [f \in Files |-> [at |-> IF f \in missing THEN Nowhere ELSE Inbox(f),
                                   version |-> 0]]
  /\ left \in Budgets
  /\ touched = {} /\ catalog = NoCatalog /\ command = Idle /\ plan = NoPlan
  /\ saved = {} /\ outdated = {}

-------------------------------------------------------------------------------
(* The planning command. *)

\* scan_videos.  What is in quarantine is outside the library.
Scanned(on) ==
  LET there == {f \in Videos : on[f].at = Inbox(f) \/ IsManaged(on[f].at)}
  IN [f \in there |-> on[f]]

\* What matching finds for a file by the place it was seen in: in the layout of
\* Jellyfin, what the layout says.
FoundAt(f, path) ==
  CASE path.base[1] = "season" -> Episodes(path.base[2], path.base[3])
    [] path.base[1] = "extras" -> [as |-> "extra", show |-> path.base[2],
                                   what |-> path.base[3], kind |-> "extra"]
    [] OTHER -> finds[f]

Reviewed == catalog # NoCatalog

\* _compiled_preferences.
PreferredPaths == UNION {g.winner : g \in catalog.groups}

\* The binding of a source: its fingerprint and its companions'.
Binding(f, records, companions) ==
  [at |-> records[f].at, version |-> records[f].version,
   with |-> {[at |-> companions[s].at, version |-> companions[s].version] :
               s \in {t \in DOMAIN companions : f \in companions[t].video}}]

\* An error leaves nothing behind: the plan published before stays.
GoesOn(ok, next) == command' = IF ok THEN next ELSE Idle

Reads == UNCHANGED <<library, finds, left, touched, catalog, outdated>>
Draws == UNCHANGED <<plan, saved>> /\ Reads

\* No videos, or a hold of a source that is not there, stop the command.
Scan ==
  /\ command.pc = "idle"
  /\ LET seen == Scanned(library) IN
     GoesOn(DOMAIN seen # {} /\ catalog.holds \subseteq {seen[f].at : f \in DOMAIN seen},
            [Idle EXCEPT !.pc = "scanned", !.seen = seen])
  /\ Draws

\* What follows the draft: under no decision, a command may run under an empty
\* contract or under none.
Drafted == IF Reviewed THEN {"drafted"} ELSE {"drafted", "planned"}

\* _build_plan from discover_sidecars on.
DraftPlan ==
  /\ command.pc = "scanned"
  /\ LET seen == command.seen
         sidecars == DiscoverSidecars(library, seen)
         held == {f \in DOMAIN seen : seen[f].at \in catalog.holds}
         drafted == Draft(seen, [f \in DOMAIN seen |-> FoundAt(f, seen[f].at)], held)
         records == DecideDuplicates(drafted, PreferredPaths)
     IN \E pc \in Drafted :
          GoesOn(PreferencesUsed(drafted, PreferredPaths),
                 [command EXCEPT !.pc = pc, !.records = records,
                                 !.companions = PlanCompanions(sidecars, records)])
  /\ Draws

\* Mutant: the status that came with the decision stays.
StatusStays(record) == [record EXCEPT !.dup = {}]

\* _clear_duplicate_decisions.
Cleared(record) ==
  IF record.dup = {} THEN record
  ELSE [record EXCEPT !.dup = {},
                      !.status = IF record.find.as = "extra" THEN "extra" ELSE "matched"]

Decided(f) == {d \in catalog.sources : d.at = command.records[f].at}

\* _reviewed_episode_record and _explicit_extra_record: the source and its
\* companions are those that were reviewed, and the show is the one found.
Answerable(f) ==
  \A d \in Decided(f) :
    /\ d.binding = Binding(f, command.records, command.companions)
    /\ d.find.show = command.records[f].find.show
    /\ HasDestination(d.find)

Answered(f) ==
  LET record == Cleared(command.records[f]) IN
  IF Decided(f) = {} THEN record
  ELSE LET find == (CHOOSE d \in Decided(f) : TRUE).find IN
       Record(command.seen[f], IF find.as = "extra" THEN "extra" ELSE "matched", find,
              Destination(f, find))

\* The videos are read again, for their sidecars only: once when the answers have
\* been taken in, once when the reviewed groups have.
Reread ==
  /\ command.pc \in {"drafted", "extended"}
  /\ command' = [command EXCEPT !.pc = IF @ = "drafted" THEN "extending" ELSE "binding",
                                !.again = Scanned(library)]
  /\ Draws

\* _apply_review_extensions from the second discover_sidecars on.
Extend ==
  /\ command.pc = "extending"
  /\ LET sidecars == DiscoverSidecars(library, command.again)
         answered == [f \in DOMAIN command.records |-> Answered(f)]
         records == DecideDuplicates(answered, PreferredPaths)
         known == {command.records[f].at : f \in DOMAIN command.records}
         ok == /\ \A d \in catalog.sources : d.at \in known
               /\ \A f \in DOMAIN command.records : Answerable(f)
               /\ PreferencesUsed(answered, PreferredPaths)
               /\ Accompanied(sidecars, records)
     IN GoesOn(ok, [command EXCEPT !.pc = "extended", !.records = records,
                                   !.companions = PlanCompanions(sidecars, records),
                                   !.again = Empty])
  /\ Draws

Members(g) ==
  {f \in DOMAIN command.records :
     \E d \in command.records[f].dup : d.key = g.key /\ d.candidates = g.candidates}

\* A reviewed choice of a winner whose group is not there any more is taken as
\* consumed.
InForce(g) ==
  IF Members(g) = {} THEN g.action = "select-winner"
  ELSE g.bindings = {Binding(f, command.records, command.companions) : f \in Members(g)}

\* Mutant: the automatic decision is kept.
NotRuled(f, g) == command.records[f]

\* One member of a reviewed group, as the review decided.
Ruled(f, g) ==
  LET record == command.records[f]
      decision == [key |-> g.key, candidates |-> g.candidates, winner |-> g.winner]
  IN [record EXCEPT
        !.dup = {decision},
        !.status = IF record.at \notin g.winner THEN "duplicate"
                   ELSE IF record.find.as = "extra" THEN "extra" ELSE "matched"]

\* _apply_duplicate_group_contract, then _rebuild_companions from its
\* discover_sidecars on.
Bind ==
  /\ command.pc = "binding"
  /\ LET sidecars == DiscoverSidecars(library, command.again)
         ruled == [f \in DOMAIN command.records |->
                     IF \E g \in catalog.groups : f \in Members(g)
                     THEN Ruled(f, CHOOSE g \in catalog.groups : f \in Members(g))
                     ELSE command.records[f]]
         ok == (\A g \in catalog.groups : InForce(g)) /\ Accompanied(sidecars, ruled)
     IN GoesOn(ok, [command EXCEPT !.pc = "planned", !.records = ruled,
                                   !.companions = PlanCompanions(sidecars, ruled),
                                   !.again = Empty])
  /\ Draws

\* The bundle of a plan, that another one has been published since.
Past(p) == [p EXCEPT !.latest = FALSE]

\* preflight_plan, and the audit bundle.  Of the earlier bundles, those that are
\* ready may still be applied; any may be deleted.
Publish ==
  /\ command.pc = "planned"
  /\ LET new == [NoPlan EXCEPT !.records = command.records, !.companions = command.companions,
                               !.latest = TRUE]
     IN plan' = [new EXCEPT !.ready = PreflightReady(new, library)]
  /\ \E kept \in SUBSET {p \in saved \cup {Past(plan)} : p.ready /\ p # Past(plan')} :
       Cardinality(kept) <= left.saved /\ saved' = kept
  /\ command' = Idle
  /\ Reads

-------------------------------------------------------------------------------
(* The other commands, each as a whole; the executors' own failures are in
   their modules. *)

\* A decision replaces one on the same group; one path cannot be in two groups.
Contracted(decision) ==
  LET others == {g \in catalog.groups :
                   ~(g.key = decision.key /\ g.candidates = decision.candidates)}
  IN /\ \A g \in others : g.candidates \cap decision.candidates = {}
     /\ catalog' = [catalog EXCEPT !.groups = others \cup {decision}]

PlanBinding(f) == Binding(f, plan.records, plan.companions)

\* An answer on a duplicate group of the plan: a conflict of different
\* identities can only be kept.
AnswerDuplicate(f) ==
  \E d \in plan.records[f].dup :
    LET group == {g \in DOMAIN plan.records : d \in plan.records[g].dup}
        decided(action, winner) ==
          [key |-> d.key, candidates |-> d.candidates, action |-> action, winner |-> winner,
           bindings |-> {PlanBinding(g) : g \in group}]
    IN \/ Contracted(decided("keep-all", {}))
       \/ /\ \A g, h \in group : plan.records[g].find = plan.records[h].find
          /\ \E path \in d.candidates : Contracted(decided("select-winner", {path}))

IsHeldItem(record) == record.status \in {"held", "suspicious", "unresolved"} /\ record.dup = {}

\* An answer on a source: it is held, or is what the reviewer says.
AnswerSource(f) ==
  LET path == plan.records[f].at
      others == {d \in catalog.sources : d.at # path}
  IN /\ IsHeldItem(plan.records[f])
     /\ \/ catalog' = [catalog EXCEPT !.sources = others, !.holds = @ \cup {path}]
        \/ \E find \in Answers :
             catalog' = [catalog EXCEPT
               !.sources = others \cup {[at |-> path, binding |-> PlanBinding(f), find |-> find]},
               !.holds = @ \ {path}]

\* A review of the plan adds to the contract; plans made before are not under it.
Review ==
  /\ command.pc = "idle" /\ left.reviews > 0
  /\ \E f \in DOMAIN plan.records : AnswerDuplicate(f) \/ AnswerSource(f)
  /\ left' = [left EXCEPT !.reviews = @ - 1]
  /\ plan' = [plan EXCEPT !.latest = FALSE]
  /\ UNCHANGED <<library, finds, touched, command, saved, outdated>>

Bundles == {plan} \cup saved

\* An executor works from a ready bundle, the last one or one that was kept.
Executes(p, what) ==
  /\ command.pc = "idle" /\ p.ready
  /\ outdated' = IF p = plan THEN outdated ELSE outdated \cup {what}
  /\ UNCHANGED <<finds, left, touched, catalog, command, plan, saved>>

\* The files of some moving groups of a plan.
MembersOf(p, groups) == {x \in Moving(p) : GroupOf(p, x) \subseteq groups}

\* A whole contract, or the proper subset of its groups that a scope names.
Apply(p, groups) ==
  /\ Executes(p, "apply")
  /\ groups # {} \/ MovingGroups(p) = {}
  /\ Current(p, library, MembersOf(p, groups))
  /\ library' = [x \in Files |-> IF x \in MembersOf(p, groups)
                                THEN [library[x] EXCEPT !.at = Entry(p, x).dest]
                                ELSE library[x]]

\* The quarantine root has a directory for each loser, which tells the winner.
QuarantinePath(p, x) ==
  LET loser == CHOOSE f \in GroupOf(p, x) : TRUE
      winner == p.records[CHOOSE g \in WinnerOf(p, loser) : TRUE]
  IN Path(<<"quarantine", x>>, <<winner.dest.base>>)

\* Mutant: the winners are not looked for in the library.
WinnersInPlan(p) == QuarantineDerivable(p)

\* _winner_state: each winner is organized, and not in its old place as well.
WinnersInPlace(p) ==
  \A f \in Losers(p) : \A g \in WinnerOf(p, f) :
    /\ library[g] = [at |-> p.records[g].dest, version |-> p.records[g].version]
    /\ p.records[g].dest = p.records[g].at \/ Vacant(library, p.records[g].at)

\* The losers leave the library, those that are not gone already.
Quarantine(p) ==
  /\ Executes(p, "quarantine")
  /\ QuarantineDerivable(p) /\ WinnersInPlace(p)
  /\ \A x \in QuarantineMembers(p) :
       Unchanged(library, Entry(p, x), x) \/ Vacant(library, Entry(p, x).at)
  /\ library' = [x \in Files |->
                   IF x \in QuarantineMembers(p) /\ library[x].at = Entry(p, x).at
                   THEN [library[x] EXCEPT !.at = QuarantinePath(p, x)]
                   ELSE library[x]]

Appear(f) == library[f].at = Nowhere /\ f \notin touched /\ library' = [library EXCEPT ![f].at = Inbox(f)]
Vanish(f) == library[f].at # Nowhere /\ library' = [library EXCEPT ![f].at = Nowhere]
Modify(f) == library[f].at # Nowhere /\ library' = [library EXCEPT ![f].version = @ + 1]

LibraryChange ==
  /\ left.changes > 0
  /\ \E f \in Files : (Appear(f) \/ Vanish(f) \/ Modify(f)) /\ touched' = touched \cup {f}
  /\ left' = [left EXCEPT !.changes = @ - 1]
  /\ UNCHANGED <<finds, catalog, command, plan, saved, outdated>>

PlanningNext ==
  \/ Scan \/ DraftPlan \/ Reread \/ Extend \/ Bind \/ Publish
  \/ Review
  \/ \E p \in Bundles : Quarantine(p) \/ \E groups \in SUBSET MovingGroups(p) : Apply(p, groups)
  \/ LibraryChange

PlanningSpec == PlanningInit /\ [][PlanningNext]_planningVars

-------------------------------------------------------------------------------
(* What planning promises. *)

Statuses == {"matched", "extra", "duplicate", "held", "suspicious", "unresolved"}

\* Records say where each video of the scan was, each moves or stays for one
\* reason, and a decision on duplicates names its candidates and one winner at
\* most.
PlanTypeOK ==
  /\ command.pc \in {"idle", "scanned", "drafted", "extending", "extended", "binding", "planned"}
  /\ outdated \subseteq {"apply", "quarantine"}
  /\ \A w \in Bundles \cup {command} :
       DOMAIN w.records \subseteq Videos /\ DOMAIN w.companions \subseteq Sidecars
  /\ \A p \in Bundles : \A f \in DOMAIN p.records :
       LET r == p.records[f] IN
       /\ r.status \in Statuses
       /\ r.status \in {"matched", "extra"} => r.dest # Nowhere
       /\ \A d \in r.dup : r.at \in d.candidates /\ d.winner \subseteq d.candidates
                            /\ Cardinality(d.winner) <= 1
       /\ r.status = "duplicate" => r.dup # {}

\* Whatever was reviewed, applied, quarantined and scanned again, no two files
\* are ever in one place: an apply that was found ready has room for each file.
PlacesDistinct ==
  \A x, y \in Files : x # y /\ library[x].at = library[y].at => library[x].at = Nowhere

Together(s, v) ==
  \/ library[s].at = Inbox(s) /\ library[v].at = Inbox(v)
  \/ IsManaged(library[s].at) /\ library[s].at.base = library[v].at.base
  \/ library[s].at.base[1] = "quarantine" /\ library[v].at.base[1] = "quarantine"

\* A subtitle of one video is where its video is, through every apply,
\* quarantine and rescan, however the commands read the library in between,
\* unless somebody else moved or changed one of the two.
SubtitlesStayWithVideos ==
  \A s \in Sidecars \ touched : KindOf[s] = "subtitle" /\ library[s].at # Nowhere =>
    \A v \in Videos \ touched : Beside[s] = {v} /\ library[v].at # Nowhere => Together(s, v)

ReviewedHere(path) ==
  \/ path \in catalog.holds \/ \E d \in catalog.sources : d.at = path
  \/ \E g \in catalog.groups : path \in g.candidates

\* The organized library never has two files of the same episodes, whatever
\* their extensions, unless a reviewer decided on one of them, or a bundle was
\* applied when a later plan had been published.
EpisodesOrganizedOnce ==
  "apply" \notin outdated =>
    \A f, g \in Videos : f # g /\ library[f].at.base[1] = "season" /\ library[f].at.base = library[g].at.base =>
      ReviewedHere(library[f].at) \/ ReviewedHere(library[g].at)

NobodyRemoved == \A f \in touched : library[f].at # Nowhere

\* A video is in quarantine only while what was kept in its stead is organized,
\* unless somebody removed a file, or a reviewer said that it is something else.
LastCopyStays ==
  NobodyRemoved =>
    \A f \in Videos : library[f].at.base[1] = "quarantine" =>
      \/ \E g \in Videos : library[g].at.base = library[f].at.tail[1]
      \/ \E d \in catalog.sources : d.at.base = library[f].at.tail[1]

OrganizedReopened ==
  \E path \in catalog.holds \cup {d.at : d \in catalog.sources} : IsManaged(path)

InPlan(path) == {f \in DOMAIN plan.records : plan.records[f].at = path}

\* A later review held the chosen one, or answered a candidate as something else.
Revised(g) ==
  \/ g.winner \cap catalog.holds # {}
  \/ \E d \in catalog.sources :
       /\ d.at \in g.candidates /\ g.key.base # Base(d.find)
       /\ ~(d.find.as = "episode" /\ g.key.base = <<"episodes", d.find.show, d.find.what>>)

\* In a ready plan made under the contract, held sources do not move, the members of
\* a group that is kept stay, all of them, and no candidate that a reviewer
\* turned down moves, also after the chosen one has moved and whatever has come
\* or changed since, unless somebody removed a file, or a reviewer reopened what
\* was organized or revised the group by an answer on one of its sources.
ReviewedChoicesHold ==
  plan.latest /\ plan.ready =>
    /\ \A path \in catalog.holds : InPlan(path) \cap Moving(plan) = {}
    /\ \A g \in catalog.groups :
         NobodyRemoved /\ ~OrganizedReopened /\ ~Revised(g) =>
           \A path \in g.candidates \ g.winner : InPlan(path) \cap Moving(plan) = {}

\* A plan under the contract rests on the groups that were reviewed: each is
\* there with the same candidates, or its winner is where it belongs.
DriftFailsClosed ==
  plan.latest =>
    \A g \in catalog.groups :
      \/ \E f \in DOMAIN plan.records :
           \E d \in plan.records[f].dup : d.key = g.key /\ d.candidates = g.candidates
      \/ \E f \in Videos :
           IsManaged(library[f].at) /\ {Inbox(f), library[f].at} \cap g.winner # {}

\* A plan that has settled everything, and still fits the library, is ready.
SettledPlansAreReady ==
  plan.latest /\ Settled(plan) /\ NoCollision(plan) /\ Current(plan, library, Moving(plan))
    => plan.ready
===============================================================================
