------------------------------- MODULE PlanRules -------------------------------
(***************************************************************************)
(* The rules of planner.py, duplicate_classifier.py, release_quality.py,   *)
(* sidecars.py, destination.py, preflight.py, apply_contract.py and        *)
(* quarantine_contract.py: from a scan of the library to the records of a  *)
(* plan, the findings of its preflight and the moves it authorizes.  They  *)
(* are pure; Planning.tla is the commands that apply them.                 *)
(*                                                                         *)
(* A path is a directory and stem, the base, and what follows it, the      *)
(* tail: the inbox path of a file is <<"inbox", f>> with an empty tail,    *)
(* one in the layout of Jellyfin has a base that its show and episodes, or *)
(* its kind of extra and title, determine.  Spellings that differ only in  *)
(* case or Unicode form are one path.  Source and destination root are the *)
(* same directory.                                                         *)
(***************************************************************************)
EXTENDS Integers, FiniteSets

CONSTANTS
  Videos,       \* the videos there may be
  Sidecars,     \* the other files there may be beside them
  FolderOf,     \* the top directory in the inbox of a video
  ExtensionOf,  \* the extension of a video
  Quality,      \* what the name of a video says of its release
  Beside,       \* the videos whose stem the stem of a sidecar extends
  KindOf,       \* "subtitle", "ignored" or "unsupported", for each sidecar
  SuffixOf,     \* the language and flags of a subtitle
  FormatOf      \* its extension

Files == Videos \cup Sidecars

Qualities ==
  [errors : BOOLEAN, resolution : Nat, family : STRING, remux : BOOLEAN, revision : Nat]

ASSUME RulesAssumption ==
  /\ IsFiniteSet(Videos) /\ Videos \cap Sidecars = {} /\ FolderOf \in [Videos -> STRING]
  /\ Beside \in [Sidecars -> SUBSET Videos]
  /\ KindOf \in [Sidecars -> {"subtitle", "ignored", "unsupported"}]
  /\ Quality \in [Videos -> Qualities]

Path(base, tail) == [base |-> base, tail |-> tail]
Inbox(f) == Path(<<"inbox", f>>, <<>>)
Nowhere == Path(<<"nowhere">>, <<>>)

\* What matching finds for a video: the episodes of a show, an extra of a kind
\* and title, or that it cannot tell.  Episodes and titles are numbers.
Episodes(show, numbers) == [as |-> "episode", show |-> show, what |-> numbers, kind |-> ""]
Extra(show, kind, title) == [as |-> "extra", show |-> show, what |-> {title}, kind |-> kind]
Unclear(status, show) == [as |-> status, show |-> show, what |-> {}, kind |-> ""]

Finds ==
  {find \in [as : {"episode", "extra", "suspicious", "unresolved"}, show : STRING,
             what : SUBSET Nat, kind : STRING] :
     find.as = "episode" => find = Episodes(find.show, find.what)}

Identified(find) == find.as \in {"episode", "extra"}

-------------------------------------------------------------------------------
(* Destinations. *)

\* _episode_token: a file of several episodes has one range of them.
Contiguous(numbers) ==
  \E first, last \in numbers : first <= last /\ numbers = first..last

EpisodeBase(show, numbers) == <<"season", show, numbers>>

\* The kinds of extra that the instances use share one folder.
ExtraBase(show, title) == <<"extras", show, title>>

Base(find) ==
  IF find.as = "episode" THEN EpisodeBase(find.show, find.what)
  ELSE ExtraBase(find.show, find.what)

Destination(f, find) == Path(Base(find), <<ExtensionOf[f]>>)

\* A video whose name identifies it, but that no path can be built for.
HasDestination(find) ==
  \/ find.as = "extra"
  \/ find.as = "episode" /\ find.what # {} /\ Contiguous(find.what)

-------------------------------------------------------------------------------
(* Sidecars.  seen says where the videos of the scan lie, on is the library. *)

IsManaged(path) == path.base[1] \in {"season", "extras"}

\* _subtitle_candidates: the videos in the directory of a sidecar whose stem its
\* own stem extends by a language and flags.
CandidatesFor(s, on, seen) ==
  {v \in DOMAIN seen :
     \/ on[s].at = Inbox(s) /\ seen[v].at = Inbox(v) /\ v \in Beside[s]
     \/ IsManaged(on[s].at) /\ seen[v].at.base = on[s].at.base}

\* Only directories that hold a video of the scan are read.
Adjacent(on, seen) ==
  {s \in Sidecars :
     /\ on[s].at # Nowhere
     /\ \E v \in DOMAIN seen :
          CASE on[s].at = Inbox(s) ->
                 seen[v].at = Inbox(v) /\ \E w \in Beside[s] : FolderOf[v] = FolderOf[w]
            [] OTHER -> IsManaged(seen[v].at) /\ seen[v].at.base[2] = on[s].at.base[2]}

\* The video that a subtitle goes with, if its name leaves no choice.
Subtitles(on, seen) ==
  {s \in Adjacent(on, seen) :
     KindOf[s] = "subtitle" /\ Cardinality(CandidatesFor(s, on, seen)) = 1}

VideoOf(s, on, seen) == CHOOSE v \in CandidatesFor(s, on, seen) : TRUE

SameSlot(s, t, on, seen) ==
  /\ VideoOf(s, on, seen) = VideoOf(t, on, seen)
  /\ SuffixOf[s] = SuffixOf[t]

\* Two files for one slot, or an index without its subtitles, are left alone.
Associated(on, seen) ==
  {s \in Subtitles(on, seen) :
     LET slot == {t \in Subtitles(on, seen) : SameSlot(s, t, on, seen)} IN
     /\ \A t, u \in slot : t # u => FormatOf[t] # FormatOf[u]
     /\ FormatOf[s] = ".idx" => \E t \in slot : FormatOf[t] = ".sub"}

Ignored(on, seen) == {s \in Adjacent(on, seen) : KindOf[s] = "ignored"}

\* discover_sidecars: [video, version, at] of each sidecar; "none" for a video
\* that is not determined.
DiscoverSidecars(on, seen) ==
  [s \in Adjacent(on, seen) |->
     [as |-> IF s \in Associated(on, seen) THEN "associated"
             ELSE IF s \in Ignored(on, seen) THEN "ignored" ELSE "unresolved",
      video |-> IF s \in Associated(on, seen) THEN {VideoOf(s, on, seen)} ELSE {},
      at |-> on[s].at, version |-> on[s].version]]

-------------------------------------------------------------------------------
(* The assignment of one show's group, as far as its sources compete. *)

\* _duplicate_claim_components: the sources reachable through shared episodes.
Component(f, claims) ==
  LET Next(reached) ==
        {g \in DOMAIN claims : \E h \in reached : claims[g] \cap claims[h] # {}}
      grown[n \in 0..Cardinality(DOMAIN claims)] ==
        IF n = 0 THEN {f} ELSE grown[n - 1] \cup Next(grown[n - 1])
  IN grown[Cardinality(DOMAIN claims)]

\* The strict assignment suspects every source whose episodes another one of
\* the group claims too; _recover_equivalent_provider_episode_duplicates takes
\* them back where all of a component claim the same.
Assigned(f, claims) == \A g \in Component(f, claims) : claims[g] = claims[f]

-------------------------------------------------------------------------------
(* Release quality and the winner of a duplicate group. *)

Dominates(q, r) ==
  /\ q.resolution >= r.resolution /\ q.revision >= r.revision
  /\ q.resolution > r.resolution \/ q.revision > r.revision

Comparable(group) ==
  LET of == {Quality[f] : f \in group} IN
  /\ \A q \in of : ~q.errors /\ q.resolution > 0
  /\ \A q, r \in of : q.remux = r.remux
  /\ \A q, r \in of : q.family = r.family \/ "unknown" \in {q.family, r.family}

\* select_unique_release_quality_winner: a release of unknown source neither
\* wins against nor ties with one of known source.
BestRelease(group) ==
  {f \in group :
     /\ Comparable(group)
     /\ \A g \in group \ {f} : Dominates(Quality[f], Quality[g])
     /\ \/ \A g \in group : Quality[g].family = "unknown"
        \/ /\ Quality[f].family # "unknown"
           /\ \A g \in group : Quality[g].family = "unknown" =>
                Quality[g].resolution < Quality[f].resolution}

\* _preference_winner, where rank gives the preferred members their ranks.
Preferred(group, rank) == group \cap DOMAIN rank
TopRanked(group, rank) ==
  {f \in Preferred(group, rank) : \A g \in Preferred(group, rank) : rank[g] <= rank[f]}

Sole(set) == IF Cardinality(set) = 1 THEN set ELSE {}

\* _duplicate_result: a preference, or a tie of preferences, leaves no say to
\* the quality of the release.  The fingerprints of a scan carry no digest, so
\* that files are never found to be equal.
Winner(group, rank) ==
  IF Preferred(group, rank) # {} THEN Sole(TopRanked(group, rank)) ELSE BestRelease(group)

-------------------------------------------------------------------------------
(* The records of a plan, by video: where it was seen, its status, what it is,
   where it goes, and the duplicate decision on it, if there is one. *)

Record(seen, status, find, dest) ==
  [at |-> seen.at, version |-> seen.version, status |-> status, find |-> find,
   dest |-> dest, dup |-> {}]

\* _plan_resolved_group for one episode or extra, assigned or not.
Placed(f, seen, find, assigned) ==
  IF find.as = "episode" /\ ~assigned THEN Record(seen, "suspicious", find, Nowhere)
  ELSE IF HasDestination(find)
       THEN Record(seen, IF find.as = "extra" THEN "extra" ELSE "matched", find,
                   Destination(f, find))
       ELSE Record(seen, "unresolved", find, Nowhere)

\* The episodes that the sources of one directory claim, f's among them.
ClaimsBeside(f, seen, finds, held) ==
  LET Top(g) == IF IsManaged(seen[g].at) THEN seen[g].at.base[2] ELSE FolderOf[g]
      rivals == {g \in DOMAIN seen :
                   g \notin held /\ finds[g].as = "episode" /\ Top(g) = Top(f)}
  IN [g \in rivals |-> finds[g].what]

\* _build_plan up to the duplicates.
Draft(seen, finds, held) ==
  [f \in DOMAIN seen |->
     CASE f \in held -> Record(seen[f], "held", Unclear("held", ""), Nowhere)
       [] f \notin held /\ Identified(finds[f]) ->
            Placed(f, seen[f], finds[f],
                   finds[f].as = "episode" => Assigned(f, ClaimsBeside(f, seen, finds, held)))
       [] OTHER -> Record(seen[f], finds[f].as, finds[f], Nowhere)]

-------------------------------------------------------------------------------
(* Duplicates. *)

Candidates(records) == {f \in DOMAIN records : records[f].status \in {"matched", "extra"}}

Rivals(f, records) ==
  {g \in Candidates(records) : records[g].find = records[f].find /\ records[g].find.as = "episode"}

\* Mutant: everything collides by destination.
ByDestination(f, records) == records[f].dest

\* Releases of the same episodes are a group wherever they would go, everything
\* else collides by destination.
CollisionKey(f, records) ==
  IF Cardinality(Rivals(f, records)) > 1
  THEN Path(<<"episodes", records[f].find.show, records[f].find.what>>, <<>>)
  ELSE records[f].dest

Collision(f, records) ==
  {g \in Candidates(records) : CollisionKey(g, records) = CollisionKey(f, records)}

\* The preference of a reviewed winner is below that of a file that is already
\* where it belongs, and replaces it.
Ranks(records, preferred) ==
  [f \in {g \in DOMAIN records :
            records[g].at \in preferred \/ records[g].at = records[g].dest} |->
     IF records[f].at \in preferred THEN 1 ELSE 2]

Decision(key, group, records, winner) ==
  [key |-> key, candidates |-> {records[g].at : g \in group},
   winner |-> {records[g].at : g \in winner}]

\* classify_duplicate_candidates and its use in the planner.
DecideDuplicates(records, preferred) ==
  [f \in DOMAIN records |->
     LET group == Collision(f, records)
         winner == IF \A g \in group : records[g].find = records[f].find
                   THEN Winner(group, Ranks(records, preferred)) ELSE {}
         decision == Decision(CollisionKey(f, records), group, records, winner)
     IN IF f \notin Candidates(records) \/ Cardinality(group) = 1 THEN records[f]
        ELSE [records[f] EXCEPT
                !.dup = {decision},
                !.status = CASE winner = {} -> "suspicious"
                             [] f \in winner -> @
                             [] OTHER -> "duplicate"]]

\* A preferred source that moves must be in a collision.
PreferencesUsed(records, preferred) ==
  \A f \in Candidates(records) :
    records[f].at \in preferred => Cardinality(Collision(f, records)) > 1

-------------------------------------------------------------------------------
(* Companions: the records of the sidecars. *)

CompanionOf(sidecar, s, records) ==
  LET of(status, dest) ==
        [at |-> sidecar.at, version |-> sidecar.version, status |-> status,
         video |-> sidecar.video, dest |-> dest]
  IN IF sidecar.as # "associated" THEN of(sidecar.as, Nowhere)
     ELSE LET video == records[CHOOSE v \in sidecar.video : TRUE] IN
          CASE video.status \in {"matched", "extra"} ->
                 of("associated", Path(video.dest.base, <<SuffixOf[s], FormatOf[s]>>))
            [] video.status = "duplicate" -> of("duplicate", Nowhere)
            [] video.status = "held" -> of("ignored", Nowhere)
            [] OTHER -> of("unresolved", Nowhere)

\* _plan_companions raises KeyError for a sidecar of a video it has no record of.
Accompanied(sidecars, records) == \A s \in DOMAIN sidecars : sidecars[s].video \subseteq DOMAIN records

PlanCompanions(sidecars, records) ==
  [s \in DOMAIN sidecars |-> CompanionOf(sidecars[s], s, records)]

-------------------------------------------------------------------------------
(* What a plan moves, and its preflight. *)

Entry(plan, x) == IF x \in DOMAIN plan.records THEN plan.records[x] ELSE plan.companions[x]

\* The files of a plan that move, and the video in whose group they do.
Moving(plan) ==
  {f \in DOMAIN plan.records :
     plan.records[f].status \in {"matched", "extra"} /\ plan.records[f].dest # plan.records[f].at}
  \cup
  {s \in DOMAIN plan.companions :
     plan.companions[s].status = "associated" /\ plan.companions[s].dest # plan.companions[s].at}

GroupOf(plan, x) == IF x \in DOMAIN plan.records THEN {x} ELSE plan.companions[x].video

\* derive_apply_group_ids, by their videos.
MovingGroups(plan) == UNION {GroupOf(plan, x) : x \in Moving(plan)}

Unchanged(on, entry, x) == on[x].at = entry.at /\ on[x].version = entry.version
Vacant(on, path) == \A y \in DOMAIN on : on[y].at # path

\* blocking-plan-status.
Settled(plan) ==
  /\ \A f \in DOMAIN plan.records : plan.records[f].status \notin {"suspicious", "unresolved"}
  /\ \A s \in DOMAIN plan.companions : plan.companions[s].status # "unresolved"

\* _duplicate_findings: what moves is the winner of its group.  A companion
\* carries the decision on its video.
WinnersOnly(plan) ==
  \A x \in Moving(plan) :
    \A v \in GroupOf(plan, x) : \A d \in plan.records[v].dup : d.winner = {Entry(plan, x).at}

\* Mutant: companions are not looked at.
NoVideoCollision(plan) ==
  \A x, y \in Moving(plan) \cap Videos : x # y => Entry(plan, x).dest # Entry(plan, y).dest

\* _collision_findings.
NoCollision(plan) ==
  \A x, y \in Moving(plan) : x # y => Entry(plan, x).dest # Entry(plan, y).dest

\* _validate_source_state and _validate_destination_state.
Current(plan, on, moving) ==
  \A x \in moving : Unchanged(on, Entry(plan, x), x) /\ Vacant(on, Entry(plan, x).dest)

PreflightReady(plan, on) ==
  Settled(plan) /\ WinnersOnly(plan) /\ NoCollision(plan) /\ Current(plan, on, Moving(plan))

-------------------------------------------------------------------------------
(* derive_quarantine_plan. *)

Losers(plan) == {f \in DOMAIN plan.records : plan.records[f].status = "duplicate"}

\* The losers and their companions.
QuarantineMembers(plan) ==
  Losers(plan) \cup {s \in DOMAIN plan.companions : plan.companions[s].status = "duplicate"}

WinnerOf(plan, f) ==
  {g \in Candidates(plan.records) : \E d \in plan.records[f].dup : plan.records[g].at \in d.winner}

\* One loser without a winner, of a group that is kept whole, is an error.
QuarantineDerivable(plan) ==
  Losers(plan) # {} /\ \A f \in Losers(plan) : WinnerOf(plan, f) # {}

===============================================================================
