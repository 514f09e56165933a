----------------------------- MODULE PlanningProofs -----------------------------
(***************************************************************************)
(* Proofs about Planning, for every library, all that matching may find,   *)
(* and any number of changes and reviews.                                  *)
(***************************************************************************)
EXTENDS Planning, FiniteSetTheorems, TLAPS

\* A record has the parts of a record ...
IsRecord(r) ==
  r = [at |-> r.at, version |-> r.version, status |-> r.status, find |-> r.find,
       dest |-> r.dest, dup |-> r.dup]

\* ... and goes nowhere or into the layout; a decision on it has it among its
\* candidates, and one winner at most.
SmallSet(S) == \A x, y \in S : x = y

RecordOK(r) ==
  /\ IsRecord(r) /\ r.status \in Statuses
  /\ r.dest = Nowhere \/ IsManaged(r.dest)
  /\ r.status \in {"matched", "extra"} \/ r.dup # {} => r.dest # Nowhere
  /\ r.status = "duplicate" => r.dup # {}
  /\ \A d \in r.dup : r.at \in d.candidates /\ d.winner \subseteq d.candidates /\ SmallSet(d.winner)

RecordsOK(records) ==
  DOMAIN records \subseteq Videos /\ \A f \in DOMAIN records : RecordOK(records[f])

CompanionsOK(companions) ==
  /\ DOMAIN companions \subseteq Sidecars
  /\ \A s \in DOMAIN companions :
       companions[s].dest = Nowhere \/ IsManaged(companions[s].dest)

\* Where a file may be: its place in the inbox, one of its own in quarantine, or
\* one of the layout.
InPlace(f, path) ==
  \/ path = Nowhere \/ path = Inbox(f) \/ IsManaged(path) \/ path.base = <<"quarantine", f>>

LibraryOK ==
  /\ DOMAIN library = Files
  /\ \A f \in Files :
       /\ library[f] = [at |-> library[f].at, version |-> library[f].version]
       /\ InPlace(f, library[f].at)

IsCommand(w) ==
  w = [pc |-> w.pc, seen |-> w.seen, records |-> w.records, companions |-> w.companions,
       again |-> w.again]

\* The steps of the command that follow the draft of the records.
Answering == {"drafted", "extending", "extended", "binding"}
Drawing == Answering \cup {"planned"}

CommandOK ==
  /\ IsCommand(command)
  /\ command.pc \in {"idle", "scanned"} \cup Drawing
  /\ DOMAIN command.seen \subseteq Videos /\ DOMAIN command.again \subseteq Videos
  /\ RecordsOK(command.records) /\ CompanionsOK(command.companions)

PlanOK(p) ==
  /\ p = [records |-> p.records, companions |-> p.companions, ready |-> p.ready,
          latest |-> p.latest]
  /\ RecordsOK(p.records) /\ CompanionsOK(p.companions)
  /\ p.ready => NoCollision(p)

PublishedOK == PlanOK(plan) /\ \A p \in saved : PlanOK(p)

CatalogOK ==
  /\ catalog = [groups |-> catalog.groups, sources |-> catalog.sources, holds |-> catalog.holds]
  /\ \A g \in catalog.groups : g.winner \subseteq g.candidates /\ SmallSet(g.winner)
  /\ \A d \in catalog.sources : d.find \in Answers

PlanningInv ==
  /\ finds \in Findings /\ outdated \subseteq {"apply", "quarantine"}
  /\ LibraryOK /\ CommandOK /\ PublishedOK /\ CatalogOK /\ PlacesDistinct

-------------------------------------------------------------------------------
(* Places. *)

LEMMA PlacesOf ==
  /\ ~IsManaged(Nowhere) /\ \A f : ~IsManaged(Inbox(f)) /\ Inbox(f) # Nowhere
  /\ \A f, g : Inbox(f) = Inbox(g) => f = g
  /\ \A f, find : IsManaged(Destination(f, find))
<1>1. /\ Nowhere.base[1] = "nowhere" /\ \A f : Inbox(f).base[1] = "inbox"
      /\ \A f : Inbox(f).base[2] = f
  BY DEF Nowhere, Inbox, Path
<1>2. \A f, find : Destination(f, find).base[1] \in {"season", "extras"}
  BY DEF Destination, Base, EpisodeBase, ExtraBase, Path
<1> QED
  BY <1>1, <1>2 DEF IsManaged

LEMMA InQuarantine ==
  /\ \A f, g : <<"quarantine", f>> = <<"quarantine", g>> => f = g
  /\ \A f, path : path.base = <<"quarantine", f>> =>
       ~IsManaged(path) /\ path # Nowhere /\ \A g : path # Inbox(g)
<1>1. \A f : <<"quarantine", f>>[1] = "quarantine" /\ <<"quarantine", f>>[2] = f
  OBVIOUS
<1>2. Nowhere.base[1] = "nowhere" /\ \A f : Inbox(f).base[1] = "inbox"
  BY DEF Nowhere, Inbox, Path
<1> QED
  BY <1>1, <1>2 DEF IsManaged

\* A set that has two elements at most once.
LEMMA SmallCardinality ==
  ASSUME NEW S, SmallSet(S)
  PROVE  Cardinality(S) <= 1
<1>1. CASE S = {}
  BY <1>1, FS_EmptySet
<1>2. CASE S # {}
  <2>1. PICK x \in S : TRUE
    BY <1>2
  <2>2. S = {x}
    BY <2>1 DEF SmallSet
  <2> QED
    BY <2>2, FS_Singleton
<1> QED
  BY <1>1, <1>2

LEMMA SoleIsSmall ==
  ASSUME NEW S, S \subseteq Videos
  PROVE  SmallSet(Sole(S)) /\ Sole(S) \subseteq S
<1>1. IsFiniteSet(S)
  BY RulesAssumption, FS_Subset
<1>2. Cardinality(S) = 1 => \E x : S = {x}
  BY <1>1, FS_Singleton
<1> QED
  BY <1>2 DEF Sole, SmallSet

-------------------------------------------------------------------------------
(* Duplicates have one winner at most. *)

LEMMA BestIsSmall ==
  ASSUME NEW group, group \subseteq Videos
  PROVE  SmallSet(BestRelease(group)) /\ BestRelease(group) \subseteq group
<1>1. SUFFICES ASSUME NEW f \in BestRelease(group), NEW g \in BestRelease(group), f # g
               PROVE  FALSE
  BY DEF BestRelease, SmallSet
<1>2. Dominates(Quality[f], Quality[g]) /\ Dominates(Quality[g], Quality[f])
  BY <1>1 DEF BestRelease
<1>3. /\ Quality[f].resolution \in Nat /\ Quality[f].revision \in Nat
      /\ Quality[g].resolution \in Nat /\ Quality[g].revision \in Nat
  <2>1. f \in Videos /\ g \in Videos
    BY <1>1 DEF BestRelease
  <2>2. Quality[f] \in Qualities /\ Quality[g] \in Qualities
    BY <2>1, RulesAssumption
  <2> QED
    BY <2>2 DEF Qualities
<1> QED
  BY <1>2, <1>3 DEF Dominates

LEMMA WinnerIsSmall ==
  ASSUME NEW group, group \subseteq Videos, NEW rank
  PROVE  SmallSet(Winner(group, rank)) /\ Winner(group, rank) \subseteq group
<1>1. TopRanked(group, rank) \subseteq group
  BY DEF TopRanked, Preferred
<1> QED
  BY <1>1, SoleIsSmall, BestIsSmall DEF Winner

LEMMA DecideKeeps ==
  ASSUME NEW records, RecordsOK(records), NEW preferred
  PROVE  /\ DOMAIN DecideDuplicates(records, preferred) = DOMAIN records
         /\ RecordsOK(DecideDuplicates(records, preferred))
<1> DEFINE group(f) == Collision(f, records)
           winner(f) == IF \A g \in group(f) : records[g].find = records[f].find
                        THEN Winner(group(f), Ranks(records, preferred)) ELSE {}
           decision(f) == Decision(CollisionKey(f, records), group(f), records, winner(f))
           decided(f) == [records[f] EXCEPT
                            !.dup = {decision(f)},
                            !.status = CASE winner(f) = {} -> "suspicious"
                                         [] f \in winner(f) -> @
                                         [] OTHER -> "duplicate"]
<1>1. DecideDuplicates(records, preferred) =
        [f \in DOMAIN records |->
           IF f \notin Candidates(records) \/ Cardinality(group(f)) = 1 THEN records[f]
           ELSE decided(f)]
  BY DEF DecideDuplicates
<1>2. DOMAIN DecideDuplicates(records, preferred) = DOMAIN records
  BY <1>1
<1>3. ASSUME NEW f \in DOMAIN records, f \in Candidates(records)
      PROVE  RecordOK(decided(f))
  <2>1. group(f) \subseteq Videos /\ f \in group(f)
    BY <1>3 DEF RecordsOK, Collision, Candidates
  <2>2. SmallSet(winner(f)) /\ winner(f) \subseteq group(f)
    BY <2>1, WinnerIsSmall DEF SmallSet
  <2>3. /\ decision(f).candidates = {records[g].at : g \in group(f)}
        /\ decision(f).winner = {records[g].at : g \in winner(f)}
    BY DEF Decision
  <2> HIDE DEF group, winner, decision
  <2>4. /\ records[f].at \in decision(f).candidates
        /\ decision(f).winner \subseteq decision(f).candidates /\ SmallSet(decision(f).winner)
    BY <2>1, <2>2, <2>3 DEF SmallSet
  <2>5. IsRecord(records[f]) /\ records[f].status \in {"matched", "extra"}
        /\ RecordOK(records[f])
    BY <1>3 DEF RecordsOK, RecordOK, Candidates
  <2> DEFINE status == CASE winner(f) = {} -> "suspicious"
                         [] f \in winner(f) -> records[f].status
                         [] OTHER -> "duplicate"
  <2>6. decided(f) = [records[f] EXCEPT !.dup = {decision(f)}, !.status = status]
    BY <2>5 DEF IsRecord
  <2>7. status \in Statuses
    BY <2>5 DEF Statuses
  <2> HIDE DEF status, decided
  <2>8. decided(f) = [at |-> records[f].at, version |-> records[f].version, status |-> status,
                      find |-> records[f].find, dest |-> records[f].dest, dup |-> {decision(f)}]
    BY <2>5, <2>6 DEF IsRecord
  <2> QED
    BY <2>4, <2>5, <2>7, <2>8 DEF RecordOK, IsRecord
<1> HIDE DEF decided, group
<1>4. \A f \in DOMAIN records : RecordOK(DecideDuplicates(records, preferred)[f])
  BY <1>1, <1>3 DEF RecordsOK
<1> QED
  BY <1>2, <1>4 DEF RecordsOK

-------------------------------------------------------------------------------
(* The records of a command. *)

LEMMA RecordShape ==
  ASSUME NEW seen, NEW status, NEW find, NEW dest
  PROVE  /\ IsRecord(Record(seen, status, find, dest))
         /\ Record(seen, status, find, dest).at = seen.at
         /\ Record(seen, status, find, dest).status = status
         /\ Record(seen, status, find, dest).dest = dest
         /\ Record(seen, status, find, dest).find = find
         /\ Record(seen, status, find, dest).dup = {}
BY DEF Record, IsRecord

LEMMA NewRecordOK ==
  ASSUME NEW seen, NEW status \in Statuses \ {"duplicate"}, NEW find, NEW dest,
         dest = Nowhere \/ IsManaged(dest), status \in {"matched", "extra"} => dest # Nowhere
  PROVE  RecordOK(Record(seen, status, find, dest))
BY RecordShape DEF RecordOK

LEMMA PlacedOK ==
  ASSUME NEW f, NEW seen, NEW find, NEW assigned
  PROVE  RecordOK(Placed(f, seen, find, assigned))
<1>1. IsManaged(Destination(f, find)) /\ Destination(f, find) # Nowhere
  BY PlacesOf
<1>2. {"suspicious", "extra", "matched", "unresolved"} \subseteq Statuses \ {"duplicate"}
  BY DEF Statuses
<1>3. RecordOK(Record(seen, "suspicious", find, Nowhere))
  BY <1>2, NewRecordOK
<1>4. RecordOK(Record(seen, "unresolved", find, Nowhere))
  BY <1>2, NewRecordOK
<1>5. /\ RecordOK(Record(seen, "extra", find, Destination(f, find)))
      /\ RecordOK(Record(seen, "matched", find, Destination(f, find)))
  BY <1>1, <1>2, NewRecordOK
<1> QED
  BY <1>3, <1>4, <1>5 DEF Placed

LEMMA DraftOK ==
  ASSUME NEW seen, DOMAIN seen \subseteq Videos, NEW found, NEW held,
         \A f \in DOMAIN seen : found[f].as \in {"episode", "extra", "suspicious", "unresolved"}
  PROVE  DOMAIN Draft(seen, found, held) = DOMAIN seen /\ RecordsOK(Draft(seen, found, held))
<1>1. DOMAIN Draft(seen, found, held) = DOMAIN seen
  BY DEF Draft
<1>2. ASSUME NEW f \in DOMAIN seen
      PROVE  RecordOK(Draft(seen, found, held)[f])
  <2>1. CASE f \in held
    <3>1. Draft(seen, found, held)[f] = Record(seen[f], "held", Unclear("held", ""), Nowhere)
      BY <2>1 DEF Draft
    <3>2. "held" \in Statuses \ {"duplicate"}
      BY DEF Statuses
    <3> QED
      BY <3>1, <3>2, NewRecordOK
  <2>2. CASE f \notin held /\ Identified(found[f])
    <3>1. Draft(seen, found, held)[f] =
            Placed(f, seen[f], found[f], found[f].as = "episode" =>
                     Assigned(f, ClaimsBeside(f, seen, found, held)))
      BY <2>2 DEF Draft
    <3> QED
      BY <3>1, PlacedOK
  <2>3. CASE f \notin held /\ ~Identified(found[f])
    <3>1. Draft(seen, found, held)[f] = Record(seen[f], found[f].as, found[f], Nowhere)
      BY <2>3 DEF Draft
    <3>2. found[f].as \in {"suspicious", "unresolved"}
      BY <1>2, <2>3 DEF Identified
    <3>3. found[f].as \in Statuses \ {"duplicate"} /\ found[f].as \notin {"matched", "extra"}
      BY <3>2 DEF Statuses
    <3> QED
      BY <3>1, <3>3, NewRecordOK
  <2> QED
    BY <2>1, <2>2, <2>3
<1> QED
  BY <1>1, <1>2 DEF RecordsOK

LEMMA FoundKinds ==
  ASSUME finds \in Findings, NEW f \in Videos, NEW path
  PROVE  FoundAt(f, path).as \in {"episode", "extra", "suspicious", "unresolved"}
<1>1. finds[f].as \in {"episode", "extra", "suspicious", "unresolved"}
  BY PlanningAssumption DEF Finds
<1>2. CASE path.base[1] = "season"
  BY <1>2 DEF FoundAt, Episodes
<1>3. CASE path.base[1] = "extras"
  BY <1>3 DEF FoundAt
<1>4. CASE path.base[1] \notin {"season", "extras"}
  BY <1>1, <1>4 DEF FoundAt
<1> QED
  BY <1>2, <1>3, <1>4

-------------------------------------------------------------------------------
(* Companions. *)

\* A sidecar that is associated is so with one video of the scan.
LEMMA SidecarsOf ==
  ASSUME NEW on, NEW seen, DOMAIN seen \subseteq Videos
  PROVE  /\ DOMAIN DiscoverSidecars(on, seen) \subseteq Sidecars
         /\ \A s \in DOMAIN DiscoverSidecars(on, seen) :
              DiscoverSidecars(on, seen)[s].as = "associated" =>
                /\ DiscoverSidecars(on, seen)[s].video # {}
                /\ DiscoverSidecars(on, seen)[s].video \subseteq DOMAIN seen
<1>1. DOMAIN DiscoverSidecars(on, seen) = Adjacent(on, seen) /\ Adjacent(on, seen) \subseteq Sidecars
  BY DEF DiscoverSidecars, Adjacent
<1>2. ASSUME NEW s \in Adjacent(on, seen), DiscoverSidecars(on, seen)[s].as = "associated"
      PROVE  /\ DiscoverSidecars(on, seen)[s].video # {}
             /\ DiscoverSidecars(on, seen)[s].video \subseteq DOMAIN seen
  <2>1. DiscoverSidecars(on, seen)[s] =
          [as |-> IF s \in Associated(on, seen) THEN "associated"
                  ELSE IF s \in Ignored(on, seen) THEN "ignored" ELSE "unresolved",
           video |-> IF s \in Associated(on, seen) THEN {VideoOf(s, on, seen)} ELSE {},
           at |-> on[s].at, version |-> on[s].version]
    BY DEF DiscoverSidecars
  <2>2. s \in Associated(on, seen) /\ DiscoverSidecars(on, seen)[s].video = {VideoOf(s, on, seen)}
    BY <1>2, <2>1
  <2>3. Cardinality(CandidatesFor(s, on, seen)) = 1
    BY <2>2 DEF Associated, Subtitles
  <2>4. CandidatesFor(s, on, seen) # {} /\ CandidatesFor(s, on, seen) \subseteq DOMAIN seen
    BY <2>3, FS_EmptySet DEF CandidatesFor
  <2>5. VideoOf(s, on, seen) \in DOMAIN seen
    BY <2>4 DEF VideoOf
  <2> QED
    BY <2>2, <2>5
<1> QED
  BY <1>1, <1>2

LEMMA CompanionsKept ==
  ASSUME NEW sidecars, DOMAIN sidecars \subseteq Sidecars, NEW records, RecordsOK(records),
         \A s \in DOMAIN sidecars : sidecars[s].as = "associated" =>
           sidecars[s].video # {} /\ sidecars[s].video \subseteq DOMAIN records
  PROVE  CompanionsOK(PlanCompanions(sidecars, records))
<1>1. DOMAIN PlanCompanions(sidecars, records) = DOMAIN sidecars
  BY DEF PlanCompanions
<1>2. ASSUME NEW s \in DOMAIN sidecars
      PROVE  \/ PlanCompanions(sidecars, records)[s].dest = Nowhere
             \/ IsManaged(PlanCompanions(sidecars, records)[s].dest)
  <2> DEFINE sidecar == sidecars[s]
             video == records[CHOOSE v \in sidecar.video : TRUE]
  <2>1. PlanCompanions(sidecars, records)[s] = CompanionOf(sidecar, s, records)
    BY DEF PlanCompanions
  <2>2. CASE sidecar.as # "associated"
    BY <2>1, <2>2 DEF CompanionOf
  <2>3. CASE sidecar.as = "associated" /\ video.status \in {"matched", "extra"}
    <3>1. CompanionOf(sidecar, s, records).dest = Path(video.dest.base, <<SuffixOf[s], FormatOf[s]>>)
      BY <2>3 DEF CompanionOf
    <3>2. (CHOOSE v \in sidecar.video : TRUE) \in DOMAIN records
      BY <2>3
    <3>3. RecordOK(video)
      BY <3>2 DEF RecordsOK
    <3>4. IsManaged(video.dest)
      BY <2>3, <3>3 DEF RecordOK
    <3>5. IsManaged(Path(video.dest.base, <<SuffixOf[s], FormatOf[s]>>))
      BY <3>4 DEF IsManaged, Path
    <3> QED
      BY <2>1, <3>1, <3>5
  <2>4. CASE sidecar.as = "associated" /\ video.status \notin {"matched", "extra"}
    BY <2>1, <2>4 DEF CompanionOf
  <2> QED
    BY <2>2, <2>3, <2>4
<1> QED
  BY <1>1, <1>2 DEF CompanionsOK

-------------------------------------------------------------------------------
(* The planning command. *)

LEMMA IdleOK ==
  /\ Idle = [pc |-> "idle", seen |-> Empty, records |-> Empty, companions |-> Empty,
             again |-> Empty]
  /\ IsCommand(Idle) /\ Idle.records = Empty /\ Idle.companions = Empty
  /\ DOMAIN Empty = {} /\ RecordsOK(Empty) /\ CompanionsOK(Empty)
BY DEF Idle, Empty, IsCommand, RecordsOK, CompanionsOK

\* What a step of the command writes.
LEMMA CommandWrites ==
  ASSUME NEW w, IsCommand(w), NEW pc, NEW records, NEW companions, NEW next,
         next = [w EXCEPT !.pc = pc, !.records = records, !.companions = companions]
  PROVE  next = [pc |-> pc, seen |-> w.seen, records |-> records, companions |-> companions,
                 again |-> w.again]
BY DEF IsCommand

LEMMA CommandSees ==
  ASSUME NEW w, IsCommand(w), NEW pc, NEW seen, NEW next,
         next = [w EXCEPT !.pc = pc, !.seen = seen]
  PROVE  next = [pc |-> pc, seen |-> seen, records |-> w.records, companions |-> w.companions,
                 again |-> w.again]
BY DEF IsCommand

\* The steps that follow a second reading, which they forget.
LEMMA CommandGoesOn ==
  ASSUME IsCommand(command), NEW pc, NEW records, NEW companions,
         command' = [command EXCEPT !.pc = pc, !.records = records, !.companions = companions,
                                    !.again = Empty]
  PROVE  command' = [pc |-> pc, seen |-> command.seen, records |-> records,
                     companions |-> companions, again |-> Empty]
BY DEF IsCommand

\* A step of the command that leaves well-formed records.
LEMMA CommandStep ==
  ASSUME PlanningInv, Draws, NEW pc, NEW seen, NEW records, NEW companions, NEW again,
         pc \in {"idle", "scanned"} \cup Drawing, DOMAIN again \subseteq Videos,
         DOMAIN seen \subseteq Videos, RecordsOK(records), CompanionsOK(companions),
         command' = [pc |-> pc, seen |-> seen, records |-> records, companions |-> companions,
                     again |-> again]
  PROVE  PlanningInv'
<1>1. CommandOK'
  BY DEF CommandOK, IsCommand
<1> QED
  BY <1>1 DEF PlanningInv, Draws, Reads, LibraryOK, PublishedOK, PlanOK, CatalogOK, PlacesDistinct

LEMMA CommandStops ==
  ASSUME PlanningInv, Draws, command' = Idle
  PROVE  PlanningInv'
<1>1. DOMAIN Empty \subseteq Videos
  BY IdleOK
<1> QED
  BY <1>1, IdleOK, CommandStep

LEMMA ScanInv ==
  ASSUME PlanningInv, Scan
  PROVE  PlanningInv'
<1> DEFINE seen == Scanned(library)
<1>1. command' = [Idle EXCEPT !.pc = "scanned", !.seen = seen] \/ command' = Idle
  BY DEF Scan, GoesOn
<1>2. Draws
  BY DEF Scan
<1>3. DOMAIN seen \subseteq Videos
  BY DEF Scanned
<1> HIDE DEF seen
<1>4. [Idle EXCEPT !.pc = "scanned", !.seen = seen] =
        [pc |-> "scanned", seen |-> seen, records |-> Empty, companions |-> Empty,
         again |-> Empty]
  BY IdleOK, CommandSees DEF Idle
<1>5. CASE command' = Idle
  BY <1>2, <1>5, CommandStops
<1>6. CASE command' = [Idle EXCEPT !.pc = "scanned", !.seen = seen]
  BY <1>2, <1>3, <1>4, <1>6, IdleOK, CommandStep
<1> QED
  BY <1>1, <1>5, <1>6

LEMMA DraftPlanInv ==
  ASSUME PlanningInv, DraftPlan
  PROVE  PlanningInv'
<1> DEFINE seen == command.seen
           sidecars == DiscoverSidecars(library, seen)
           held == {f \in DOMAIN seen : seen[f].at \in catalog.holds}
           found == [f \in DOMAIN seen |-> FoundAt(f, seen[f].at)]
           drafted == Draft(seen, found, held)
           records == DecideDuplicates(drafted, PreferredPaths)
           companions == PlanCompanions(sidecars, records)
           next(pc) == [command EXCEPT !.pc = pc, !.records = records,
                                       !.companions = companions]
<1>1. \E pc \in Drafted : command' = next(pc) \/ command' = Idle
  BY DEF DraftPlan, GoesOn
<1>2. Draws
  BY DEF DraftPlan
<1>3. DOMAIN seen \subseteq Videos /\ DOMAIN command.again \subseteq Videos /\ finds \in Findings
  BY DEF PlanningInv, CommandOK
<1>4. \A f \in DOMAIN seen : found[f].as \in {"episode", "extra", "suspicious", "unresolved"}
  BY <1>3, FoundKinds
<1>5. DOMAIN sidecars \subseteq Sidecars
      /\ \A s \in DOMAIN sidecars : sidecars[s].as = "associated" =>
           sidecars[s].video # {} /\ sidecars[s].video \subseteq DOMAIN seen
  BY <1>3, SidecarsOf
<1> HIDE DEF found, held, sidecars
<1>6. DOMAIN drafted = DOMAIN seen /\ RecordsOK(drafted)
  BY <1>3, <1>4, DraftOK
<1> HIDE DEF drafted
<1>7. DOMAIN records = DOMAIN seen /\ RecordsOK(records)
  BY <1>6, DecideKeeps
<1> HIDE DEF records
<1>8. CompanionsOK(companions)
  BY <1>5, <1>7, CompanionsKept
<1> HIDE DEF companions
<1>9. Drafted \subseteq Drawing
  BY DEF Drafted, Drawing, Answering
<1>10. ASSUME NEW pc \in Drafted, command' = next(pc)
       PROVE  command' = [pc |-> pc, seen |-> seen, records |-> records,
                          companions |-> companions, again |-> command.again]
  <2>1. IsCommand(command)
    BY DEF PlanningInv, CommandOK
  <2> QED
    BY <1>10, <2>1, CommandWrites DEF next, seen
<1> HIDE DEF seen, next
<1>11. CASE command' = Idle
  BY <1>2, <1>11, CommandStops
<1>12. ASSUME NEW pc \in Drafted, command' = next(pc)
       PROVE  PlanningInv'
  BY <1>2, <1>3, <1>7, <1>8, <1>9, <1>10, <1>12, CommandStep
<1> QED
  BY <1>1, <1>11, <1>12

\* The second and third reading of the videos.
LEMMA RereadInv ==
  ASSUME PlanningInv, Reread
  PROVE  PlanningInv'
<1> DEFINE pc == IF command.pc = "drafted" THEN "extending" ELSE "binding"
           again == Scanned(library)
<1>1. command' = [command EXCEPT !.pc = pc, !.again = again] /\ Draws
  BY DEF Reread
<1>2. DOMAIN again \subseteq Videos
  BY DEF Scanned
<1>3. pc \in Drawing
  BY DEF Drawing, Answering
<1> HIDE DEF again, pc
<1>4. command' = [pc |-> pc, seen |-> command.seen, records |-> command.records,
                  companions |-> command.companions, again |-> again]
  BY <1>1 DEF PlanningInv, CommandOK, IsCommand
<1> QED
  BY <1>1, <1>2, <1>3, <1>4, CommandStep DEF PlanningInv, CommandOK

LEMMA AnsweredOK ==
  ASSUME PlanningInv, NEW f \in DOMAIN command.records, Answerable(f)
  PROVE  RecordOK(Answered(f))
<1> DEFINE r == command.records[f]
<1>1. RecordOK(r)
  BY DEF PlanningInv, CommandOK, RecordsOK
<1>2. CASE Decided(f) = {}
  <2>1. Answered(f) = Cleared(r)
    BY <1>2 DEF Answered
  <2>2. CASE r.dup = {}
    BY <1>1, <2>1, <2>2 DEF Cleared
  <2>3. CASE r.dup # {}
    <3> DEFINE status == IF r.find.as = "extra" THEN "extra" ELSE "matched"
    <3>1. Answered(f) = [r EXCEPT !.dup = {}, !.status = status]
      BY <2>1, <2>3 DEF Cleared
    <3>2. status \in {"extra", "matched"} /\ status \in Statuses /\ status # "duplicate"
      BY DEF Statuses
    <3>3. IsRecord(r) /\ r.dest # Nowhere /\ (r.dest = Nowhere \/ IsManaged(r.dest))
      BY <1>1, <2>3 DEF RecordOK
    <3> HIDE DEF r, status
    <3>4. Answered(f) = [at |-> r.at, version |-> r.version, status |-> status,
                         find |-> r.find, dest |-> r.dest, dup |-> {}]
      BY <3>1, <3>3 DEF IsRecord
    <3> QED
      BY <3>2, <3>3, <3>4 DEF RecordOK, IsRecord
  <2> QED
    BY <2>2, <2>3
<1>3. CASE Decided(f) # {}
  <2> DEFINE find == (CHOOSE d \in Decided(f) : TRUE).find
             status == IF find.as = "extra" THEN "extra" ELSE "matched"
  <2>1. Answered(f) = Record(command.seen[f], status, find, Destination(f, find))
    BY <1>3 DEF Answered
  <2>2. IsManaged(Destination(f, find)) /\ Destination(f, find) # Nowhere
    BY PlacesOf
  <2>3. status \in Statuses \ {"duplicate"}
    BY DEF Statuses
  <2> HIDE DEF find, status
  <2> QED
    BY <2>1, <2>2, <2>3, NewRecordOK
<1> QED
  BY <1>2, <1>3

LEMMA ExtendInv ==
  ASSUME PlanningInv, Extend
  PROVE  PlanningInv'
<1> DEFINE seen == command.again
           sidecars == DiscoverSidecars(library, seen)
           answered == [f \in DOMAIN command.records |-> Answered(f)]
           records == DecideDuplicates(answered, PreferredPaths)
           companions == PlanCompanions(sidecars, records)
           known == {command.records[f].at : f \in DOMAIN command.records}
           ok == /\ \A d \in catalog.sources : d.at \in known
                 /\ \A f \in DOMAIN command.records : Answerable(f)
                 /\ PreferencesUsed(answered, PreferredPaths)
                 /\ Accompanied(sidecars, records)
           next == [command EXCEPT !.pc = "extended", !.records = records,
                                   !.companions = companions, !.again = Empty]
<1>1. IF ok THEN command' = next ELSE command' = Idle
  BY DEF Extend, GoesOn
<1>2. Draws
  BY DEF Extend
<1>3. CASE ~ok
  BY <1>1, <1>2, <1>3, CommandStops
<1>4. CASE ok
  <2>1. DOMAIN seen \subseteq Videos
    BY DEF PlanningInv, CommandOK
  <2>2. DOMAIN sidecars \subseteq Sidecars
        /\ \A s \in DOMAIN sidecars : sidecars[s].as = "associated" => sidecars[s].video # {}
    BY <2>1, SidecarsOf
  <2>3. DOMAIN answered \subseteq Videos
    BY DEF PlanningInv, CommandOK, RecordsOK
  <2>4. RecordsOK(answered)
    BY <1>4, <2>3, AnsweredOK DEF RecordsOK
  <2>5. Accompanied(sidecars, records)
    BY <1>4
  <2> HIDE DEF answered, sidecars
  <2>6. RecordsOK(records)
    BY <2>4, DecideKeeps
  <2> HIDE DEF records
  <2>7. CompanionsOK(companions)
    BY <2>2, <2>5, <2>6, CompanionsKept DEF Accompanied
  <2> HIDE DEF companions
  <2>8. command' = next
    BY <1>1, <1>4
  <2>9. command' = [pc |-> "extended", seen |-> command.seen, records |-> records,
                    companions |-> companions, again |-> Empty]
    <3>1. IsCommand(command)
      BY DEF PlanningInv, CommandOK
    <3> QED
      BY <2>8, <3>1, CommandGoesOn DEF next
  <2>10. DOMAIN command.seen \subseteq Videos
    BY DEF PlanningInv, CommandOK
  <2> HIDE DEF next
  <2> QED
    BY <1>2, <2>6, <2>7, <2>8, <2>9, <2>10, IdleOK, CommandStep DEF Drawing, Answering
<1> QED
  BY <1>3, <1>4

LEMMA RuledOK ==
  ASSUME PlanningInv, NEW g \in catalog.groups, NEW f \in Members(g)
  PROVE  RecordOK(Ruled(f, g))
<1> DEFINE r == command.records[f]
           decision == [key |-> g.key, candidates |-> g.candidates, winner |-> g.winner]
           status == IF r.at \notin g.winner THEN "duplicate"
                     ELSE IF r.find.as = "extra" THEN "extra" ELSE "matched"
<1>1. PICK d \in r.dup : d.key = g.key /\ d.candidates = g.candidates
  BY DEF Members
<1>2. RecordOK(r)
  BY DEF PlanningInv, CommandOK, RecordsOK, Members
<1>3. r.at \in g.candidates /\ r.dest # Nowhere /\ IsManaged(r.dest) /\ IsRecord(r)
  BY <1>1, <1>2 DEF RecordOK
<1>4. g.winner \subseteq g.candidates /\ SmallSet(g.winner)
  BY DEF PlanningInv, CatalogOK
<1>5. Ruled(f, g) = [r EXCEPT !.dup = {decision}, !.status = status]
  <2>1. IsRecord(command.records[f])
    BY <1>3
  <2> QED
    BY <2>1 DEF Ruled, IsRecord
<1>6. status \in Statuses
  BY DEF Statuses
<1>7. decision.candidates = g.candidates /\ decision.winner = g.winner
  OBVIOUS
<1> HIDE DEF r, decision, status
<1>8. Ruled(f, g) = [at |-> r.at, version |-> r.version, status |-> status,
                     find |-> r.find, dest |-> r.dest, dup |-> {decision}]
  BY <1>3, <1>5 DEF IsRecord
<1> QED
  BY <1>3, <1>4, <1>6, <1>7, <1>8 DEF RecordOK, IsRecord

LEMMA BindInv ==
  ASSUME PlanningInv, Bind
  PROVE  PlanningInv'
<1> DEFINE sidecars == DiscoverSidecars(library, command.again)
           ruled == [f \in DOMAIN command.records |->
                       IF \E g \in catalog.groups : f \in Members(g)
                       THEN Ruled(f, CHOOSE g \in catalog.groups : f \in Members(g))
                       ELSE command.records[f]]
           companions == PlanCompanions(sidecars, ruled)
           ok == (\A g \in catalog.groups : InForce(g)) /\ Accompanied(sidecars, ruled)
           next == [command EXCEPT !.pc = "planned", !.records = ruled,
                                   !.companions = companions, !.again = Empty]
<1>1. IF ok THEN command' = next ELSE command' = Idle
  BY DEF Bind, GoesOn
<1>2. Draws
  BY DEF Bind
<1>3. CASE ~ok
  BY <1>1, <1>2, <1>3, CommandStops
<1>4. CASE ok
  <2>1. DOMAIN command.again \subseteq Videos
    BY DEF PlanningInv, CommandOK
  <2>2. DOMAIN sidecars \subseteq Sidecars
        /\ \A s \in DOMAIN sidecars : sidecars[s].as = "associated" => sidecars[s].video # {}
    BY <2>1, SidecarsOf
  <2>3. DOMAIN ruled \subseteq Videos /\ RecordsOK(command.records)
    BY DEF PlanningInv, CommandOK, RecordsOK
  <2>4. ASSUME NEW f \in DOMAIN command.records
        PROVE  RecordOK(ruled[f])
    <3>1. CASE \E g \in catalog.groups : f \in Members(g)
      <4>1. PICK g \in catalog.groups : f \in Members(g) /\ ruled[f] = Ruled(f, g)
        BY <3>1
      <4> QED
        BY <4>1, RuledOK
    <3>2. CASE ~\E g \in catalog.groups : f \in Members(g)
      BY <2>3, <3>2 DEF RecordsOK
    <3> QED
      BY <3>1, <3>2
  <2>5. RecordsOK(ruled) /\ Accompanied(sidecars, ruled)
    BY <1>4, <2>3, <2>4 DEF RecordsOK
  <2> HIDE DEF sidecars, ruled
  <2>6. CompanionsOK(companions)
    BY <2>2, <2>5, CompanionsKept DEF Accompanied
  <2> HIDE DEF companions
  <2>7. command' = next
    BY <1>1, <1>4
  <2>8. command' = [pc |-> "planned", seen |-> command.seen, records |-> ruled,
                    companions |-> companions, again |-> Empty]
    <3>1. IsCommand(command)
      BY DEF PlanningInv, CommandOK
    <3> QED
      BY <2>7, <3>1, CommandGoesOn DEF next
  <2>9. DOMAIN command.seen \subseteq Videos
    BY DEF PlanningInv, CommandOK
  <2> HIDE DEF next
  <2> QED
    BY <1>2, <2>5, <2>6, <2>7, <2>8, <2>9, IdleOK, CommandStep DEF Drawing
<1> QED
  BY <1>3, <1>4

LEMMA PlanDrawnUp ==
  ASSUME NEW records, NEW companions, NEW new,
         new = [NoPlan EXCEPT !.records = records, !.companions = companions, !.latest = TRUE]
  PROVE  new = [records |-> records, companions |-> companions, ready |-> FALSE,
                latest |-> TRUE]
BY DEF NoPlan

\* A bundle stays what it was when a later plan is published.
LEMMA PastOK ==
  ASSUME NEW p, PlanOK(p)
  PROVE  /\ Past(p) = [records |-> p.records, companions |-> p.companions,
                       ready |-> p.ready, latest |-> FALSE]
         /\ PlanOK(Past(p)) /\ Moving(Past(p)) = Moving(p)
<1>1. ASSUME NEW q, q = [p EXCEPT !.latest = FALSE]
      PROVE  q = [records |-> p.records, companions |-> p.companions, ready |-> p.ready,
                  latest |-> FALSE]
  <2>1. p = [records |-> p.records, companions |-> p.companions, ready |-> p.ready,
             latest |-> p.latest]
    BY DEF PlanOK
  <2> QED
    BY <1>1, <2>1
<1>2. Past(p) = [records |-> p.records, companions |-> p.companions, ready |-> p.ready,
                 latest |-> FALSE]
  BY <1>1 DEF Past
<1>3. NoCollision(p) => NoCollision(Past(p))
  BY <1>2 DEF NoCollision, Moving, Entry
<1> QED
  BY <1>2, <1>3 DEF PlanOK, Moving

\* What is published is what the command drew up; a ready plan has no two files
\* for one place.
LEMMA PublishInv ==
  ASSUME PlanningInv, Publish
  PROVE  PlanningInv'
<1> DEFINE new == [NoPlan EXCEPT !.records = command.records,
                                 !.companions = command.companions, !.latest = TRUE]
           ready == PreflightReady(new, library)
<1>1. /\ plan' = [new EXCEPT !.ready = ready] /\ command' = Idle /\ Reads
      /\ saved' \subseteq saved \cup {Past(plan)}
  BY DEF Publish
<1>2. new = [records |-> command.records, companions |-> command.companions,
             ready |-> FALSE, latest |-> TRUE]
  BY PlanDrawnUp
<1>3. ready => NoCollision(new)
  BY DEF PreflightReady
<1> HIDE DEF new, ready
<1>4. plan' = [records |-> command.records, companions |-> command.companions,
               ready |-> ready, latest |-> TRUE]
  BY <1>1, <1>2
<1>5. NoCollision(new) => NoCollision(plan')
  BY <1>2, <1>4 DEF NoCollision, Moving, Entry
<1>6. PublishedOK'
  <2>1. PlanOK(plan')
    BY <1>3, <1>4, <1>5 DEF PlanOK, PlanningInv, CommandOK
  <2>2. PlanOK(Past(plan)) /\ \A p \in saved : PlanOK(p)
    BY PastOK DEF PlanningInv, PublishedOK
  <2> QED
    BY <1>1, <2>1, <2>2 DEF PublishedOK
<1>7. CommandOK'
  BY <1>1, IdleOK DEF CommandOK
<1> QED
  BY <1>1, <1>6, <1>7 DEF PlanningInv, Reads, LibraryOK, CatalogOK, PlacesDistinct

-------------------------------------------------------------------------------
(* Reviews. *)

LEMMA ContractedOK ==
  ASSUME PlanningInv, NEW decision, Contracted(decision),
         decision.winner \subseteq decision.candidates, SmallSet(decision.winner)
  PROVE  CatalogOK'
<1> DEFINE others == {g \in catalog.groups :
                        ~(g.key = decision.key /\ g.candidates = decision.candidates)}
<1>1. catalog' = [catalog EXCEPT !.groups = others \cup {decision}]
  BY DEF Contracted
<1>2. \A g \in others \cup {decision} : g.winner \subseteq g.candidates /\ SmallSet(g.winner)
  BY DEF PlanningInv, CatalogOK
<1> HIDE DEF others
<1>3. catalog' = [groups |-> others \cup {decision}, sources |-> catalog.sources,
                  holds |-> catalog.holds]
  BY <1>1 DEF PlanningInv, CatalogOK
<1> QED
  BY <1>2, <1>3 DEF PlanningInv, CatalogOK

LEMMA DuplicateAnswered ==
  ASSUME PlanningInv, NEW f \in DOMAIN plan.records, AnswerDuplicate(f)
  PROVE  CatalogOK'
<1>1. PICK d \in plan.records[f].dup :
        LET group == {g \in DOMAIN plan.records : d \in plan.records[g].dup}
            decided(action, winner) ==
              [key |-> d.key, candidates |-> d.candidates, action |-> action, winner |-> winner,
               bindings |-> {PlanBinding(g) : g \in group}]
        IN \/ Contracted(decided("keep-all", {}))
           \/ /\ \A g, h \in group : plan.records[g].find = plan.records[h].find
              /\ \E path \in d.candidates : Contracted(decided("select-winner", {path}))
  BY DEF AnswerDuplicate
<1> DEFINE group == {g \in DOMAIN plan.records : d \in plan.records[g].dup}
           decided(action, winner) ==
             [key |-> d.key, candidates |-> d.candidates, action |-> action, winner |-> winner,
              bindings |-> {PlanBinding(g) : g \in group}]
<1>2. ASSUME NEW action, NEW winner
      PROVE  decided(action, winner).winner = winner
             /\ decided(action, winner).candidates = d.candidates
  OBVIOUS
<1>3. Contracted(decided("keep-all", {}))
      \/ \E path \in d.candidates : Contracted(decided("select-winner", {path}))
  BY <1>1
<1> HIDE DEF decided
<1>4. CASE Contracted(decided("keep-all", {}))
  BY <1>2, <1>4, ContractedOK DEF SmallSet
<1>5. ASSUME NEW path \in d.candidates, Contracted(decided("select-winner", {path}))
      PROVE  CatalogOK'
  BY <1>2, <1>5, ContractedOK DEF SmallSet
<1> QED
  BY <1>3, <1>4, <1>5

LEMMA SourceAnswered ==
  ASSUME PlanningInv, NEW f \in DOMAIN plan.records, AnswerSource(f)
  PROVE  CatalogOK'
<1> DEFINE path == plan.records[f].at
           others == {d \in catalog.sources : d.at # path}
           answer(find) == [at |-> path, binding |-> PlanBinding(f), find |-> find]
<1>1. \/ catalog' = [catalog EXCEPT !.sources = others, !.holds = catalog.holds \cup {path}]
      \/ \E find \in Answers :
           catalog' = [catalog EXCEPT !.sources = others \cup {answer(find)},
                                      !.holds = catalog.holds \ {path}]
  BY DEF AnswerSource, PlanningInv, CatalogOK
<1>2. PICK sources, holds :
        /\ catalog' = [catalog EXCEPT !.sources = sources, !.holds = holds]
        /\ \A d \in sources : d.find \in Answers
  <2>1. \A d \in others : d.find \in Answers
    BY DEF PlanningInv, CatalogOK
  <2>2. \A find \in Answers : \A d \in others \cup {answer(find)} : d.find \in Answers
    BY <2>1
  <2> HIDE DEF others, answer, path
  <2> QED
    BY <1>1, <2>1, <2>2
<1>3. catalog' = [groups |-> catalog.groups, sources |-> sources, holds |-> holds]
  BY <1>2 DEF PlanningInv, CatalogOK
<1> QED
  BY <1>2, <1>3 DEF PlanningInv, CatalogOK

LEMMA ReviewInvariant ==
  ASSUME PlanningInv, Review
  PROVE  PlanningInv'
<1>1. CatalogOK'
  BY DuplicateAnswered, SourceAnswered DEF Review
<1>2. plan' = Past(plan) /\ UNCHANGED <<library, finds, command, saved, outdated>>
  BY DEF Review, Past
<1>5. PublishedOK'
  BY <1>2, PastOK DEF PublishedOK, PlanningInv
<1> QED
  BY <1>1, <1>2, <1>5 DEF PlanningInv, LibraryOK, CommandOK, PlacesDistinct

-------------------------------------------------------------------------------
(* What moves files. *)

\* Some files are moved, each to a place of its own that nobody holds.
LEMMA MovesInPlace ==
  ASSUME PlanningInv, NEW moved, NEW to,
         library' = [x \in Files |-> IF x \in moved THEN [library[x] EXCEPT !.at = to[x]]
                                     ELSE library[x]],
         \A x \in Files : x \in moved => InPlace(x, to[x]),
         \A x \in moved : \A y \in Files :
           x # y => library[y].at # to[x] /\ (y \in moved => to[y] # to[x])
  PROVE  LibraryOK' /\ PlacesDistinct'
<1>1. ASSUME NEW x \in Files
      PROVE  /\ library'[x] = [at |-> library'[x].at, version |-> library'[x].version]
             /\ library'[x].at = IF x \in moved THEN to[x] ELSE library[x].at
  <2>1. library[x] = [at |-> library[x].at, version |-> library[x].version]
    BY DEF PlanningInv, LibraryOK
  <2>2. CASE x \in moved
    <3>1. library'[x] = [library[x] EXCEPT !.at = to[x]]
      BY <2>2
    <3>2. library'[x] = [at |-> to[x], version |-> library[x].version]
      BY <2>1, <3>1
    <3> QED
      BY <2>2, <3>2
  <2>3. CASE x \notin moved
    BY <2>1, <2>3
  <2> QED
    BY <2>2, <2>3
<1>2. LibraryOK'
  BY <1>1 DEF LibraryOK, PlanningInv
<1>3. PlacesDistinct'
  <2>1. SUFFICES ASSUME NEW x \in Files, NEW y \in Files, x # y, library'[x].at = library'[y].at
                 PROVE  library'[x].at = Nowhere
    BY DEF PlacesDistinct
  <2>2. CASE x \in moved
    BY <1>1, <2>1, <2>2
  <2>3. CASE x \notin moved /\ y \in moved
    BY <1>1, <2>1, <2>3
  <2>4. CASE x \notin moved /\ y \notin moved
    BY <1>1, <2>1, <2>4 DEF PlanningInv, PlacesDistinct
  <2> QED
    BY <2>2, <2>3, <2>4
<1> QED
  BY <1>2, <1>3

\* What an executor works from is well-formed.
LEMMA BundleOK ==
  ASSUME PlanningInv, NEW p \in Bundles
  PROVE  PlanOK(p)
BY DEF PlanningInv, PublishedOK, Bundles

\* An apply moves what its bundle says, into places that were vacant.
LEMMA ApplyInv ==
  ASSUME PlanningInv, NEW p \in Bundles, NEW groups, Apply(p, groups)
  PROVE  PlanningInv'
<1> DEFINE moved == MembersOf(p, groups)
           to == [x \in moved |-> Entry(p, x).dest]
<1>1. /\ p.ready /\ Current(p, library, moved)
      /\ library' = [x \in Files |-> IF x \in moved THEN [library[x] EXCEPT !.at = to[x]]
                                     ELSE library[x]]
      /\ outdated' \subseteq outdated \cup {"apply"}
      /\ UNCHANGED <<finds, catalog, command, plan, saved>>
  <2>1. \A x \in moved : to[x] = Entry(p, x).dest
    OBVIOUS
  <2> QED
    BY <2>1 DEF Apply, Executes
<1>2. moved \subseteq Moving(p) /\ PlanOK(p)
  BY BundleOK DEF MembersOf
<1>3. \A x \in moved : to[x] = Nowhere \/ IsManaged(to[x])
  BY <1>2 DEF Moving, Entry, PlanOK, RecordsOK, RecordOK, CompanionsOK
<1>4. \A x \in moved : \A y \in Files : library[y].at # to[x]
  BY <1>1 DEF Current, Vacant, PlanningInv, LibraryOK
<1>5. \A x, y \in moved : x # y => to[x] # to[y]
  BY <1>1, <1>2 DEF NoCollision, PlanOK
<1>6. \A x \in moved : InPlace(x, to[x])
  BY <1>3 DEF InPlace
<1> HIDE DEF moved, to
<1>7. LibraryOK' /\ PlacesDistinct'
  BY <1>1, <1>4, <1>5, <1>6, MovesInPlace
<1> QED
  BY <1>1, <1>7 DEF PlanningInv, CommandOK, CatalogOK, PublishedOK, PlanOK

\* A quarantine gives each loser a directory of its own.
LEMMA QuarantineInv ==
  ASSUME PlanningInv, NEW p \in Bundles, Quarantine(p)
  PROVE  PlanningInv'
<1> DEFINE moved == {x \in QuarantineMembers(p) : library[x].at = Entry(p, x).at}
           to == [x \in moved |-> QuarantinePath(p, x)]
<1>1. \A x \in moved : to[x].base = <<"quarantine", x>>
  BY DEF QuarantinePath, Path
<1>2. library' = [x \in Files |-> IF x \in moved THEN [library[x] EXCEPT !.at = to[x]]
                                  ELSE library[x]]
  <2>1. \A x \in moved : to[x] = QuarantinePath(p, x)
    OBVIOUS
  <2> QED
    BY <2>1 DEF Quarantine
<1>3. /\ UNCHANGED <<finds, catalog, command, plan, saved>>
      /\ outdated' \subseteq outdated \cup {"quarantine"}
  BY DEF Quarantine, Executes
<1> HIDE DEF moved, to
<1>4. \A x \in moved : InPlace(x, to[x])
  BY <1>1 DEF InPlace
<1>5. ASSUME NEW x \in moved, NEW y \in Files, x # y
      PROVE  library[y].at # to[x] /\ (y \in moved => to[y] # to[x])
  <2>1. to[x] # Nowhere /\ to[x] # Inbox(y) /\ ~IsManaged(to[x])
    BY <1>1, InQuarantine
  <2>2. InPlace(y, library[y].at)
    BY DEF PlanningInv, LibraryOK
  <2>3. <<"quarantine", x>> # <<"quarantine", y>>
    BY <1>5, InQuarantine
  <2> QED
    BY <1>1, <2>1, <2>2, <2>3 DEF InPlace
<1>6. LibraryOK' /\ PlacesDistinct'
  BY <1>2, <1>4, <1>5, MovesInPlace
<1> QED
  BY <1>3, <1>6 DEF PlanningInv, PublishedOK, PlanOK, CommandOK, CatalogOK

\* Another program brings a file to the inbox, where it alone has its place,
\* takes one away or changes it.
LEMMA LibraryChangeInv ==
  ASSUME PlanningInv, LibraryChange
  PROVE  PlanningInv'
<1>1. PICK f \in Files : Appear(f) \/ Vanish(f) \/ Modify(f)
  BY DEF LibraryChange
<1>2. UNCHANGED <<finds, catalog, command, plan, saved, outdated>>
  BY DEF LibraryChange
<1>3. /\ library[f] = [at |-> library[f].at, version |-> library[f].version]
      /\ DOMAIN library = Files /\ InPlace(f, library[f].at)
  BY DEF PlanningInv, LibraryOK
<1> DEFINE at == library'[f].at
<1>4. /\ library'[f] = [at |-> at, version |-> library'[f].version]
      /\ at = Nowhere \/ at = library[f].at \/ at = Inbox(f)
  <2>1. CASE Appear(f)
    <3>1. library'[f] = [library[f] EXCEPT !.at = Inbox(f)]
      BY <1>3, <2>1 DEF Appear
    <3>2. library'[f] = [at |-> Inbox(f), version |-> library[f].version]
      BY <1>3, <3>1
    <3> QED
      BY <3>2
  <2>2. CASE Vanish(f)
    <3>1. library'[f] = [library[f] EXCEPT !.at = Nowhere]
      BY <1>3, <2>2 DEF Vanish
    <3>2. library'[f] = [at |-> Nowhere, version |-> library[f].version]
      BY <1>3, <3>1
    <3> QED
      BY <3>2
  <2>3. CASE Modify(f)
    <3>1. library'[f] = [library[f] EXCEPT !.version = library[f].version + 1]
      BY <1>3, <2>3 DEF Modify
    <3>2. library'[f] = [at |-> library[f].at, version |-> library[f].version + 1]
      BY <1>3, <3>1
    <3> QED
      BY <3>2
  <2> QED
    BY <1>1, <2>1, <2>2, <2>3
<1>5. DOMAIN library' = Files /\ \A x \in Files \ {f} : library'[x] = library[x]
  BY <1>1, <1>3 DEF Appear, Vanish, Modify
<1> HIDE DEF at
<1>6. InPlace(f, at)
  BY <1>3, <1>4 DEF InPlace
<1>7. LibraryOK'
  BY <1>4, <1>5, <1>6 DEF PlanningInv, LibraryOK, at
<1>8. ASSUME NEW y \in Files \ {f}
      PROVE  library[y].at = at => at = Nowhere
  <2>1. InPlace(y, library[y].at)
    BY DEF PlanningInv, LibraryOK
  <2>2. library[y].at # Inbox(f)
    BY <2>1, PlacesOf, InQuarantine DEF InPlace
  <2>3. library[y].at = library[f].at => library[f].at = Nowhere
    BY DEF PlanningInv, PlacesDistinct
  <2> QED
    BY <1>4, <2>2, <2>3
<1>9. PlacesDistinct'
  <2>1. SUFFICES ASSUME NEW x \in Files, NEW y \in Files, x # y, library'[x].at = library'[y].at
                 PROVE  library'[x].at = Nowhere
    BY DEF PlacesDistinct
  <2>2. CASE x = f
    BY <1>5, <1>8, <2>1, <2>2 DEF at
  <2>3. CASE y = f
    BY <1>5, <1>8, <2>1, <2>3 DEF at
  <2>4. CASE x # f /\ y # f
    BY <1>5, <2>1, <2>4 DEF PlanningInv, PlacesDistinct
  <2> QED
    BY <2>2, <2>3, <2>4
<1> QED
  BY <1>2, <1>7, <1>9 DEF PlanningInv, PublishedOK, PlanOK, CommandOK, CatalogOK

-------------------------------------------------------------------------------
(* The invariant and what it implies. *)

LEMMA PlanningInitInv ==
  ASSUME PlanningInit
  PROVE  PlanningInv
<1>1. PICK missing \in Absences :
        library = [f \in Files |-> [at |-> IF f \in missing THEN Nowhere ELSE Inbox(f),
                                    version |-> 0]]
  BY DEF PlanningInit
<1>2. LibraryOK
  BY <1>1 DEF LibraryOK, InPlace
<1>3. PlacesDistinct
  BY <1>1, PlacesOf DEF PlacesDistinct
<1>4. /\ command = Idle /\ plan = NoPlan /\ catalog = NoCatalog /\ finds \in Findings
      /\ saved = {} /\ outdated = {}
  BY DEF PlanningInit
<1>5. CommandOK
  BY <1>4, IdleOK DEF CommandOK
<1>6. PublishedOK
  BY <1>4, IdleOK DEF PublishedOK, PlanOK, NoPlan
<1>7. CatalogOK
  BY <1>4 DEF CatalogOK, NoCatalog
<1> QED
  BY <1>2, <1>3, <1>4, <1>5, <1>6, <1>7 DEF PlanningInv

LEMMA PlanningNextInv ==
  ASSUME PlanningInv, [PlanningNext]_planningVars
  PROVE  PlanningInv'
<1>1. CASE UNCHANGED planningVars
  BY <1>1 DEF planningVars, PlanningInv, LibraryOK, CommandOK, PublishedOK, PlanOK, CatalogOK,
              PlacesDistinct
<1>2. CASE PlanningNext
  BY <1>2, ScanInv, DraftPlanInv, RereadInv, ExtendInv, BindInv, PublishInv, ReviewInvariant,
     ApplyInv, QuarantineInv, LibraryChangeInv, Zenon DEF PlanningNext
<1> QED
  BY <1>1, <1>2

LEMMA PlanningInvImplies ==
  ASSUME PlanningInv
  PROVE  PlanTypeOK /\ PlacesDistinct
<1>1. ASSUME NEW p \in Bundles, NEW f \in DOMAIN p.records
      PROVE  LET r == p.records[f] IN
             /\ r.status \in Statuses
             /\ r.status \in {"matched", "extra"} => r.dest # Nowhere
             /\ \A d \in r.dup : r.at \in d.candidates /\ d.winner \subseteq d.candidates
                                  /\ Cardinality(d.winner) <= 1
             /\ r.status = "duplicate" => r.dup # {}
  <2>1. RecordOK(p.records[f])
    BY BundleOK DEF PlanOK, RecordsOK
  <2> QED
    BY <2>1, SmallCardinality DEF RecordOK
<1>2. ASSUME NEW w \in Bundles \cup {command}
      PROVE  DOMAIN w.records \subseteq Videos /\ DOMAIN w.companions \subseteq Sidecars
  BY BundleOK DEF PlanOK, PlanningInv, CommandOK, RecordsOK, CompanionsOK
<1> QED
  BY <1>1, <1>2 DEF PlanningInv, CommandOK, PlanTypeOK, Drawing, Answering

LEMMA PlanningInvariant == PlanningSpec => []PlanningInv
<1>1. PlanningInit => PlanningInv
  BY PlanningInitInv
<1>2. PlanningInv /\ [PlanningNext]_planningVars => PlanningInv'
  BY PlanningNextInv
<1> QED
  BY <1>1, <1>2, PTL DEF PlanningSpec

\* Every plan that is published, whatever was reviewed before it and however the
\* library changed while it was drawn up, has a reason for each video to move or
\* to stay, and a decision on duplicates has the video among its candidates and
\* one winner at most.
THEOREM PlanTypeCorrectness == PlanningSpec => []PlanTypeOK
<1>1. PlanningInv => PlanTypeOK
  BY PlanningInvImplies
<1> QED
  BY <1>1, PlanningInvariant, PTL

\* No two files are ever in one place of the library, for every library and
\* contract: neither an apply of a bundle that was ready, however old, nor a
\* quarantine puts one file over another.
THEOREM FilesHavePlacesOfTheirOwn == PlanningSpec => []PlacesDistinct
<1>1. PlanningInv => PlacesDistinct
  BY PlanningInvImplies
<1> QED
  BY <1>1, PlanningInvariant, PTL



-------------------------------------------------------------------------------
(* Nothing is organized twice.  A plan is drawn from a reading that the      *)
(* library has changed since; what keeps it sound is that nothing enters the *)
(* layout but by an apply, that whatever is in the layout was read there or  *)
(* is a move of the plan, and that of one set of episodes one video goes.    *)

\* A record that says what its video is: it goes there, or a decision on
\* duplicates says why it does not.
Claims(r) == r.status \in {"matched", "extra"} \/ r.dup # {}

\* A find of episodes says nothing but the show and their numbers.
Normal(find) == find.as = "episode" => find = Episodes(find.show, find.what)

\* What its place in the layout says of a video is what was found for it.
Layout(f, path) ==
  path.base[1] = "season" =>
    LET find == Episodes(path.base[2], path.base[3]) IN
    path = Destination(f, find) /\ HasDestination(find)

\* A record that claims a place claims that of what was found.
Grounded(f, r) ==
  Claims(r) => Normal(r.find) /\ HasDestination(r.find) /\ r.dest = Destination(f, r.find)

\* What was organized is taken for what it is, unless it was reviewed.
AsPlaced(r) ==
  r.at.base[1] = "season" /\ ~ReviewedHere(r.at) =>
    /\ r.find = Episodes(r.at.base[2], r.at.base[3])
    /\ Claims(r) \/ r.status \in {"suspicious", "unresolved"}

SameEpisodes(r, q) == r.find = q.find /\ r.find.as = "episode"
Goes(r) == r.status \in {"matched", "extra"}

\* Videos of the same episodes have one decision and one of them goes; to the
\* place of an organized one no other goes.
Once(records) ==
  \A f, g \in DOMAIN records : f # g =>
    LET r == records[f]
        q == records[g]
    IN /\ r.at # q.at
       /\ Claims(r) /\ Claims(q) /\ SameEpisodes(r, q) => r.dup = q.dup /\ r.dup # {}
       /\ ~(Goes(r) /\ Goes(q) /\ SameEpisodes(r, q))
       /\ Goes(r) /\ r.dest # r.at /\ r.find.as = "episode" /\ q.at.base = r.dest.base
            /\ ~ReviewedHere(q.at) => q.status \in {"suspicious", "unresolved"}

\* A reading has the places of its time, and all that is organized now was then.
SeenAll(seen) ==
  /\ \A f \in DOMAIN seen : Layout(f, seen[f].at)
  /\ \A f, g \in DOMAIN seen : f # g => seen[f].at # seen[g].at
  /\ \A f \in Videos : library[f].at.base[1] = "season" =>
       f \in DOMAIN seen /\ seen[f].at = library[f].at

\* Records drawn from a reading.
Drawn(seen, records) ==
  /\ DOMAIN records = DOMAIN seen
  /\ \A f \in DOMAIN records :
       records[f].at = seen[f].at /\ Grounded(f, records[f]) /\ AsPlaced(records[f])
  /\ Once(records)

\* A ready plan takes each video where its find says.
GroundedBundle(p) == p.ready => \A f \in DOMAIN p.records : Grounded(f, p.records[f])

\* The last one knows all that is organized, where it is or by its own move, if
\* no earlier one was applied.
PlannedOnce ==
  plan.ready /\ "apply" \notin outdated =>
    /\ Settled(plan) /\ Once(plan.records)
    /\ \A f \in Videos : library[f].at.base[1] = "season" =>
         /\ f \in DOMAIN plan.records
         /\ \/ library[f].at = plan.records[f].at
            \/ f \in Moving(plan) /\ library[f].at = plan.records[f].dest

\* No path is in two groups that were reviewed.
Disjoint == \A g, h \in catalog.groups : g # h => g.candidates \cap h.candidates = {}

OnceInv ==
  /\ PlanningInv /\ EpisodesOrganizedOnce
  /\ \A f \in Videos : Layout(f, library[f].at)
  /\ Disjoint
  /\ command.pc # "idle" => SeenAll(command.seen)
  /\ command.pc \in Drawing => Drawn(command.seen, command.records)
  /\ PlannedOnce /\ \A p \in Bundles : GroundedBundle(p)

-------------------------------------------------------------------------------
(* What decides between the records of a plan. *)

LEMMA TwoMembers ==
  ASSUME NEW S, IsFiniteSet(S), NEW x \in S, NEW y \in S, x # y
  PROVE  Cardinality(S) > 1
<1>1. Cardinality(S) \in Nat
  BY FS_CardinalityType
<1>2. Cardinality(S) # 0
  BY FS_EmptySet
<1>3. Cardinality(S) # 1
  BY FS_Singleton
<1> QED
  BY <1>1, <1>2, <1>3

LEMMA EpisodePlace ==
  ASSUME NEW f, NEW find
  PROVE  /\ find.as = "episode" => Destination(f, find).base = <<"season", find.show, find.what>>
         /\ Destination(f, find).base[1] = "season" <=> find.as = "episode"
         /\ Destination(f, find) # Nowhere
<1>1. CASE find.as = "episode"
  <2>1. Destination(f, find).base = <<"season", find.show, find.what>>
    BY <1>1 DEF Destination, Base, EpisodeBase, Path
  <2> QED
    BY <1>1, <2>1, PlacesOf
<1>2. CASE find.as # "episode"
  <2>1. Destination(f, find).base = <<"extras", find.show, find.what>>
    BY <1>2 DEF Destination, Base, ExtraBase, Path
  <2> QED
    BY <1>2, <2>1, PlacesOf
<1> QED
  BY <1>1, <1>2

\* Two videos with one place but for the extension are the same episodes.
LEMMA SameBase ==
  ASSUME NEW f, NEW g, NEW find, NEW other, Normal(find), Normal(other),
         find.as = "episode", other.as = "episode",
         Destination(f, find).base = Destination(g, other).base
  PROVE  find = other
<1>1. <<"season", find.show, find.what>> = <<"season", other.show, other.what>>
  BY EpisodePlace
<1>2. find.show = other.show /\ find.what = other.what
  BY <1>1
<1> QED
  BY <1>2 DEF Normal

\* What the layout says of a place is what its base says.
LEMMA PlaceSays ==
  ASSUME NEW f, NEW g, NEW find, Normal(find), find.as = "episode", NEW path,
         path.base[1] = "season", Layout(g, path), path.base = Destination(f, find).base
  PROVE  find = Episodes(path.base[2], path.base[3])
<1>1. path.base = <<"season", find.show, find.what>>
  BY EpisodePlace
<1>2. path.base[2] = find.show /\ path.base[3] = find.what
  BY <1>1
<1> QED
  BY <1>2 DEF Normal

\* What the decision on duplicates makes of a record.
LEMMA DecideSays ==
  ASSUME NEW records, RecordsOK(records), NEW preferred, NEW f \in DOMAIN records
  PROVE  LET decided == DecideDuplicates(records, preferred)[f]
             group == Collision(f, records)
             winner == IF \A g \in group : records[g].find = records[f].find
                       THEN Winner(group, Ranks(records, preferred)) ELSE {}
         IN /\ decided.at = records[f].at /\ decided.find = records[f].find
            /\ decided.dest = records[f].dest
            /\ f \notin Candidates(records) \/ Cardinality(group) = 1 => decided = records[f]
            /\ f \in Candidates(records) /\ Cardinality(group) # 1 =>
                 /\ decided.dup = {Decision(CollisionKey(f, records), group, records, winner)}
                 /\ Goes(decided) => f \in winner
<1> DEFINE group == Collision(f, records)
           winner == IF \A g \in group : records[g].find = records[f].find
                     THEN Winner(group, Ranks(records, preferred)) ELSE {}
           decision == Decision(CollisionKey(f, records), group, records, winner)
           status == CASE winner = {} -> "suspicious"
                       [] f \in winner -> records[f].status
                       [] OTHER -> "duplicate"
           decided == DecideDuplicates(records, preferred)[f]
<1>1. IsRecord(records[f])
  BY DEF RecordsOK, RecordOK
<1>2. CASE f \notin Candidates(records) \/ Cardinality(group) = 1
  <2>1. decided = records[f]
    BY <1>2 DEF DecideDuplicates
  <2> QED
    BY <1>2, <2>1
<1>3. CASE f \in Candidates(records) /\ Cardinality(group) # 1
  <2>1. decided = [records[f] EXCEPT !.dup = {decision}, !.status = status]
    BY <1>1, <1>3 DEF DecideDuplicates, IsRecord
  <2>2. status \in {"matched", "extra"} => f \in winner
    OBVIOUS
  <2> HIDE DEF decision, status, winner, decided, group
  <2>3. decided = [at |-> records[f].at, version |-> records[f].version, status |-> status,
                   find |-> records[f].find, dest |-> records[f].dest, dup |-> {decision}]
    BY <1>1, <2>1 DEF IsRecord
  <2>4. /\ decided.at = records[f].at /\ decided.find = records[f].find
        /\ decided.dest = records[f].dest /\ decided.dup = {decision}
        /\ Goes(decided) => f \in winner
    BY <2>2, <2>3 DEF Goes
  <2> QED
    BY <1>3, <2>4 DEF decision, decided, winner, group
<1> QED
  BY <1>2, <1>3

LEMMA PreferredReviewed ==
  ASSUME CatalogOK, NEW path \in PreferredPaths
  PROVE  ReviewedHere(path)
BY DEF CatalogOK, PreferredPaths, ReviewedHere

\* Videos of the same episodes are in one group.
LEMMA RivalsCollide ==
  ASSUME NEW records, DOMAIN records \subseteq Videos,
         NEW f \in Candidates(records), NEW g \in Candidates(records), f # g,
         SameEpisodes(records[f], records[g])
  PROVE  /\ CollisionKey(f, records) = CollisionKey(g, records)
         /\ Collision(f, records) = Collision(g, records)
         /\ f \in Collision(f, records) /\ g \in Collision(f, records)
         /\ Cardinality(Collision(f, records)) # 1
<1>1. Rivals(f, records) = Rivals(g, records) /\ f \in Rivals(f, records) /\ g \in Rivals(f, records)
  BY DEF Rivals, SameEpisodes
<1>2. IsFiniteSet(Rivals(f, records)) /\ IsFiniteSet(Collision(f, records))
  <2>1. Rivals(f, records) \subseteq Videos /\ Collision(f, records) \subseteq Videos
    BY DEF Rivals, Collision, Candidates
  <2> QED
    BY <2>1, RulesAssumption, FS_Subset
<1>3. Cardinality(Rivals(f, records)) > 1
  BY <1>1, <1>2, TwoMembers
<1>4. CollisionKey(f, records) = CollisionKey(g, records)
  BY <1>1, <1>3 DEF CollisionKey, SameEpisodes
<1>5. /\ Collision(f, records) = Collision(g, records)
      /\ f \in Collision(f, records) /\ g \in Collision(f, records)
  BY <1>4 DEF Collision
<1>6. Cardinality(Collision(f, records)) > 1
  BY <1>2, <1>5, TwoMembers
<1>7. ~(1 > 1)
  OBVIOUS
<1> QED
  BY <1>4, <1>5, <1>6, <1>7

\* What is where it belongs outranks what would move there, unless a reviewer
\* preferred the latter.
LEMMA InPlaceOutranks ==
  ASSUME NEW records, NEW group, group \subseteq DOMAIN records, NEW preferred,
         NEW f \in group, NEW g \in group,
         records[f].dest # records[f].at, records[g].dest = records[g].at,
         records[g].at \notin preferred
  PROVE  f \notin Winner(group, Ranks(records, preferred))
<1> DEFINE rank == Ranks(records, preferred)
<1>1. g \in DOMAIN rank /\ rank[g] = 2
  BY DEF Ranks
<1>2. f \in DOMAIN rank => rank[f] = 1
  BY DEF Ranks
<1> HIDE DEF rank
<1>3. g \in Preferred(group, rank)
  BY <1>1 DEF Preferred
<1>4. f \notin TopRanked(group, rank)
  <2>1. SUFFICES ASSUME f \in TopRanked(group, rank)
                 PROVE  FALSE
    OBVIOUS
  <2>2. f \in DOMAIN rank /\ rank[g] <= rank[f]
    BY <1>3, <2>1 DEF TopRanked, Preferred
  <2>3. ~(2 <= 1)
    OBVIOUS
  <2> QED
    BY <1>1, <1>2, <2>2, <2>3
<1>5. Winner(group, rank) \subseteq TopRanked(group, rank)
  BY <1>3 DEF Winner, Sole
<1> QED
  BY <1>4, <1>5 DEF rank

\* The records a decision starts from: none on a duplicate yet.
Undecided(records) ==
  /\ RecordsOK(records)
  /\ \A f \in DOMAIN records :
       /\ records[f].dup = {}
       /\ Grounded(f, records[f]) /\ AsPlaced(records[f]) /\ Layout(f, records[f].at)
  /\ \A f, g \in DOMAIN records : f # g => records[f].at # records[g].at

LEMMA DecideOnce ==
  ASSUME CatalogOK, NEW records, Undecided(records)
  PROVE  LET decided == DecideDuplicates(records, PreferredPaths) IN
         /\ \A f \in DOMAIN records :
              /\ decided[f].at = records[f].at
              /\ Grounded(f, decided[f]) /\ AsPlaced(decided[f])
         /\ DOMAIN decided = DOMAIN records /\ Once(decided)
<1> DEFINE decided == DecideDuplicates(records, PreferredPaths)
           group(f) == Collision(f, records)
           winner(f) == IF \A g \in group(f) : records[g].find = records[f].find
                        THEN Winner(group(f), Ranks(records, PreferredPaths)) ELSE {}
           decision(f) == Decision(CollisionKey(f, records), group(f), records, winner(f))
<1>1. RecordsOK(records) /\ DOMAIN decided = DOMAIN records /\ DOMAIN records \subseteq Videos
  BY DecideKeeps DEF Undecided, RecordsOK
<1>2. ASSUME NEW f \in DOMAIN records
      PROVE  /\ decided[f].at = records[f].at /\ decided[f].find = records[f].find
             /\ decided[f].dest = records[f].dest
             /\ f \notin Candidates(records) \/ Cardinality(group(f)) = 1 =>
                  decided[f] = records[f]
             /\ f \in Candidates(records) /\ Cardinality(group(f)) # 1 =>
                  decided[f].dup = {decision(f)} /\ (Goes(decided[f]) => f \in winner(f))
  BY <1>1, <1>2, DecideSays
<1>3. \A f \in DOMAIN records : f \in Candidates(records) <=> Goes(records[f])
  BY DEF Candidates, Goes
<1>4. \A f \in DOMAIN records : Claims(decided[f]) <=> f \in Candidates(records)
  BY <1>2, <1>3 DEF Claims, Goes, Undecided
<1>5. \A f \in DOMAIN records : Claims(records[f]) <=> f \in Candidates(records)
  BY <1>3 DEF Claims, Goes, Undecided
<1>6. \A f \in DOMAIN records : winner(f) \subseteq group(f) /\ SmallSet(winner(f))
  <2>1. \A f \in DOMAIN records : group(f) \subseteq Videos
    BY <1>1 DEF Collision, Candidates
  <2> QED
    BY <2>1, WinnerIsSmall DEF SmallSet
<1>7. ASSUME NEW f \in Candidates(records), NEW g \in Candidates(records), f # g,
             SameEpisodes(records[f], records[g])
      PROVE  /\ group(f) = group(g) /\ winner(f) = winner(g) /\ decision(f) = decision(g)
             /\ f \in group(f) /\ g \in group(f) /\ Cardinality(group(f)) # 1
  <2>1. /\ CollisionKey(f, records) = CollisionKey(g, records)
        /\ group(f) = group(g) /\ f \in group(f) /\ g \in group(f) /\ Cardinality(group(f)) # 1
    BY <1>1, <1>7, RivalsCollide
  <2>2. records[f].find = records[g].find
    BY <1>7 DEF SameEpisodes
  <2> HIDE DEF group
  <2> QED
    BY <2>1, <2>2
<1>8. \A f \in DOMAIN records : winner(f) # {} => winner(f) = Winner(group(f), Ranks(records, PreferredPaths))
  OBVIOUS
<1>9. \A f \in DOMAIN records : group(f) \subseteq DOMAIN records
  BY DEF Collision, Candidates
<1>10. Candidates(records) \subseteq DOMAIN records
  BY DEF Candidates
<1> HIDE DEF decided, group, winner, decision
<1>11. ASSUME NEW f \in DOMAIN records
       PROVE  Grounded(f, decided[f]) /\ AsPlaced(decided[f])
  <2>1. Grounded(f, records[f]) /\ AsPlaced(records[f])
    BY DEF Undecided
  <2>2. Grounded(f, decided[f])
    BY <1>2, <1>4, <1>5, <2>1 DEF Grounded
  <2>3. AsPlaced(decided[f])
    BY <1>2, <1>4, <1>5, <2>1 DEF AsPlaced
  <2> QED
    BY <2>2, <2>3
<1>12. ASSUME NEW f \in DOMAIN records, NEW g \in DOMAIN records, f # g
       PROVE  LET r == decided[f]
                  q == decided[g]
              IN /\ r.at # q.at
                 /\ Claims(r) /\ Claims(q) /\ SameEpisodes(r, q) => r.dup = q.dup /\ r.dup # {}
                 /\ ~(Goes(r) /\ Goes(q) /\ SameEpisodes(r, q))
                 /\ Goes(r) /\ r.dest # r.at /\ r.find.as = "episode" /\ q.at.base = r.dest.base
                      /\ ~ReviewedHere(q.at) => q.status \in {"suspicious", "unresolved"}
  <2>1. decided[f].at # decided[g].at
    BY <1>2, <1>12 DEF Undecided
  <2>2. SameEpisodes(decided[f], decided[g]) <=> SameEpisodes(records[f], records[g])
    BY <1>2 DEF SameEpisodes
  <2>3. ASSUME Claims(decided[f]), Claims(decided[g]), SameEpisodes(decided[f], decided[g])
        PROVE  /\ decided[f].dup = decided[g].dup /\ decided[f].dup # {}
               /\ ~(Goes(decided[f]) /\ Goes(decided[g]))
    <3>1. f \in Candidates(records) /\ g \in Candidates(records)
      BY <1>4, <2>3
    <3>2. /\ group(f) = group(g) /\ winner(f) = winner(g) /\ decision(f) = decision(g)
          /\ Cardinality(group(f)) # 1
      BY <1>7, <1>12, <2>2, <2>3, <3>1
    <3>3. decided[f].dup = {decision(f)} /\ decided[g].dup = {decision(f)}
      BY <1>2, <3>1, <3>2
    <3>4. Goes(decided[f]) /\ Goes(decided[g]) => f \in winner(f) /\ g \in winner(f)
      BY <1>2, <3>1, <3>2
    <3> QED
      BY <1>6, <1>12, <3>3, <3>4 DEF SmallSet
  <2>4. ASSUME Goes(decided[f]), decided[f].dest # decided[f].at,
               decided[f].find.as = "episode", decided[g].at.base = decided[f].dest.base,
               ~ReviewedHere(decided[g].at), decided[g].status \notin {"suspicious", "unresolved"}
        PROVE  FALSE
    <3>1. Claims(decided[f])
      BY <2>4 DEF Claims, Goes
    <3>2. f \in Candidates(records) /\ Goes(records[f]) /\ Claims(records[f])
      BY <1>3, <1>4, <1>5, <3>1
    <3>3. /\ Normal(records[f].find) /\ records[f].dest = Destination(f, records[f].find)
          /\ records[f].find.as = "episode"
      BY <1>2, <2>4, <3>2 DEF Undecided, Grounded
    <3>4. /\ records[g].at.base = Destination(f, records[f].find).base
          /\ records[g].at.base[1] = "season"
      BY <1>2, <2>4, <3>3, EpisodePlace
    <3>5. decided[g].find = Episodes(records[g].at.base[2], records[g].at.base[3])
          /\ Claims(decided[g])
      BY <1>2, <1>11, <2>4, <3>4 DEF AsPlaced
    <3>6. Layout(g, records[g].at)
      BY DEF Undecided
    <3>7. records[f].find = Episodes(records[g].at.base[2], records[g].at.base[3])
      BY <3>3, <3>4, <3>6, PlaceSays
    <3>8. SameEpisodes(records[f], records[g])
      BY <1>2, <3>3, <3>5, <3>7 DEF SameEpisodes
    <3>9. g \in Candidates(records) /\ Claims(records[g])
      BY <1>4, <1>5, <3>5
    <3>10. /\ group(f) = group(g) /\ winner(f) = winner(g) /\ f \in group(f) /\ g \in group(f)
           /\ Cardinality(group(f)) # 1
      BY <1>7, <1>12, <3>2, <3>8, <3>9
    <3>11. f \in winner(f)
      BY <1>2, <2>4, <3>2, <3>10
    <3>12. records[g].dest = records[g].at
      <4>1. records[g].dest = Destination(g, records[g].find)
        BY <3>9 DEF Undecided, Grounded
      <4>2. records[g].at = Destination(g, Episodes(records[g].at.base[2], records[g].at.base[3]))
        BY <3>4, <3>6 DEF Layout
      <4> QED
        BY <1>2, <3>5, <4>1, <4>2
    <3>13. records[g].at \notin PreferredPaths
      BY <1>2, <2>4, PreferredReviewed
    <3>14. records[f].dest # records[f].at
      BY <1>2, <2>4
    <3>15. f \notin Winner(group(f), Ranks(records, PreferredPaths))
      BY <1>9, <3>10, <3>12, <3>13, <3>14, InPlaceOutranks
    <3> QED
      BY <1>8, <3>11, <3>15
  <2>5. Goes(decided[f]) => Claims(decided[f])
    BY DEF Goes, Claims
  <2>6. Goes(decided[g]) => Claims(decided[g])
    BY DEF Goes, Claims
  <2> QED
    BY <2>1, <2>3, <2>4, <2>5, <2>6
<1>13. Once(decided)
  BY <1>1, <1>12 DEF Once
<1> QED
  BY <1>1, <1>2, <1>11, <1>13 DEF decided

LEMMA FoundNormal ==
  ASSUME finds \in Findings, NEW f \in Videos, NEW path
  PROVE  /\ Normal(FoundAt(f, path))
         /\ path.base[1] = "season" => FoundAt(f, path) = Episodes(path.base[2], path.base[3])
<1>1. Normal(finds[f])
  BY PlanningAssumption DEF Finds, Normal
<1>2. CASE path.base[1] = "season"
  BY <1>2 DEF FoundAt, Episodes, Normal
<1>3. CASE path.base[1] = "extras"
  <2>1. FoundAt(f, path).as = "extra"
    BY <1>3 DEF FoundAt
  <2> QED
    BY <1>3, <2>1 DEF Normal
<1>4. CASE path.base[1] \notin {"season", "extras"}
  BY <1>1, <1>4 DEF FoundAt
<1> QED
  BY <1>2, <1>3, <1>4

\* A record without a decision on duplicates.
UndecidedRecord(f, seen, r) ==
  r.at = seen.at /\ r.dup = {} /\ Grounded(f, r) /\ AsPlaced(r)

LEMMA RecordFresh ==
  ASSUME NEW f, NEW seen, NEW status, NEW find, NEW dest,
         seen.at.base[1] = "season" /\ ~ReviewedHere(seen.at) =>
           /\ find = Episodes(seen.at.base[2], seen.at.base[3])
           /\ status \in {"matched", "extra", "suspicious", "unresolved"},
         status \in {"matched", "extra"} =>
           Normal(find) /\ HasDestination(find) /\ dest = Destination(f, find)
  PROVE  UndecidedRecord(f, seen, Record(seen, status, find, dest))
<1> DEFINE r == Record(seen, status, find, dest)
<1>1. r.at = seen.at /\ r.status = status /\ r.dest = dest /\ r.find = find /\ r.dup = {}
  BY RecordShape
<1> HIDE DEF r
<1>2. Claims(r) <=> status \in {"matched", "extra"}
  BY <1>1 DEF Claims
<1>3. Grounded(f, r)
  BY <1>1, <1>2 DEF Grounded
<1>4. AsPlaced(r)
  BY <1>1, <1>2 DEF AsPlaced
<1> QED
  BY <1>1, <1>3, <1>4 DEF r, UndecidedRecord

\* The draft of a plan takes what is organized for what it is.
LEMMA DraftUndecided ==
  ASSUME PlanningInv, NEW seen, DOMAIN seen \subseteq Videos, SeenAll(seen), NEW found, NEW held,
         \A f \in held : ReviewedHere(seen[f].at),
         \A f \in DOMAIN seen : found[f] = FoundAt(f, seen[f].at)
  PROVE  /\ DOMAIN Draft(seen, found, held) = DOMAIN seen
         /\ Undecided(Draft(seen, found, held))
         /\ \A f \in DOMAIN seen : Draft(seen, found, held)[f].at = seen[f].at
<1> DEFINE drafted == Draft(seen, found, held)
<1>1. \A f \in DOMAIN seen :
        /\ Normal(found[f])
        /\ seen[f].at.base[1] = "season" =>
             found[f] = Episodes(seen[f].at.base[2], seen[f].at.base[3])
        /\ found[f].as \in {"episode", "extra", "suspicious", "unresolved"}
  BY FoundNormal, FoundKinds DEF PlanningInv
<1>2. DOMAIN drafted = DOMAIN seen /\ RecordsOK(drafted)
  BY <1>1, DraftOK
<1>3. ASSUME NEW f \in DOMAIN seen
      PROVE  UndecidedRecord(f, seen[f], drafted[f])
  <2>1. CASE f \in held
    <3>1. drafted[f] = Record(seen[f], "held", Unclear("held", ""), Nowhere)
      BY <2>1 DEF Draft
    <3>2. ReviewedHere(seen[f].at)
      BY <2>1
    <3> HIDE DEF drafted
    <3> QED
      BY <3>1, <3>2, RecordFresh
  <2>2. CASE f \notin held /\ Identified(found[f])
    <3> DEFINE assigned == found[f].as = "episode" =>
                             Assigned(f, ClaimsBeside(f, seen, found, held))
    <3>1. drafted[f] = Placed(f, seen[f], found[f], assigned)
      BY <2>2 DEF Draft
    <3> HIDE DEF assigned, drafted
    <3>2. CASE drafted[f] = Record(seen[f], "suspicious", found[f], Nowhere)
      BY <1>1, <3>2, RecordFresh
    <3>3. CASE drafted[f] = Record(seen[f], "unresolved", found[f], Nowhere)
      BY <1>1, <3>3, RecordFresh
    <3>4. CASE /\ HasDestination(found[f])
               /\ drafted[f] = Record(seen[f], "extra", found[f], Destination(f, found[f]))
      BY <1>1, <3>4, RecordFresh
    <3>5. CASE /\ HasDestination(found[f])
               /\ drafted[f] = Record(seen[f], "matched", found[f], Destination(f, found[f]))
      BY <1>1, <3>5, RecordFresh
    <3> QED
      BY <3>1, <3>2, <3>3, <3>4, <3>5 DEF Placed
  <2>3. CASE f \notin held /\ ~Identified(found[f])
    <3>1. drafted[f] = Record(seen[f], found[f].as, found[f], Nowhere)
      BY <2>3 DEF Draft
    <3>2. found[f].as \in {"suspicious", "unresolved"}
      BY <1>1, <2>3 DEF Identified
    <3> HIDE DEF drafted
    <3> QED
      BY <1>1, <3>1, <3>2, RecordFresh
  <2> QED
    BY <2>1, <2>2, <2>3
<1> HIDE DEF drafted
<1>4. \A f \in DOMAIN drafted : Layout(f, drafted[f].at)
  BY <1>2, <1>3 DEF SeenAll, UndecidedRecord
<1>5. \A f, g \in DOMAIN drafted : f # g => drafted[f].at # drafted[g].at
  BY <1>2, <1>3 DEF SeenAll, UndecidedRecord
<1> QED
  BY <1>2, <1>3, <1>4, <1>5 DEF Undecided, UndecidedRecord, drafted

\* What a reviewer said of a source takes the place of what was found for it.
LEMMA AnsweredUndecided ==
  ASSUME PlanningInv, SeenAll(command.seen), Drawn(command.seen, command.records),
         \A f \in DOMAIN command.records : Answerable(f)
  PROVE  LET answered == [f \in DOMAIN command.records |-> Answered(f)] IN
         Undecided(answered) /\ \A f \in DOMAIN answered : answered[f].at = command.seen[f].at
<1> DEFINE answered == [f \in DOMAIN command.records |-> Answered(f)]
<1>1. DOMAIN answered = DOMAIN command.records /\ DOMAIN command.records = DOMAIN command.seen
      /\ DOMAIN command.records \subseteq Videos
  BY DEF Drawn, PlanningInv, CommandOK, RecordsOK
<1>2. RecordsOK(answered)
  BY <1>1, AnsweredOK DEF RecordsOK
<1>3. ASSUME NEW f \in DOMAIN command.records
      PROVE  /\ Answered(f).at = command.seen[f].at /\ Answered(f).dup = {}
             /\ Grounded(f, Answered(f)) /\ AsPlaced(Answered(f))
  <2> DEFINE r == command.records[f]
             a == Answered(f)
  <2>1. /\ RecordOK(r) /\ r.at = command.seen[f].at /\ Grounded(f, r) /\ AsPlaced(r)
    BY DEF PlanningInv, CommandOK, RecordsOK, Drawn
  <2>2. CASE Decided(f) = {} /\ r.dup = {}
    <3>1. a = r
      BY <2>2 DEF Answered, Cleared
    <3> QED
      BY <2>1, <2>2, <3>1
  <2>3. CASE Decided(f) = {} /\ r.dup # {}
    <3> DEFINE status == IF r.find.as = "extra" THEN "extra" ELSE "matched"
    <3>1. a = [r EXCEPT !.dup = {}, !.status = status]
      BY <2>3 DEF Answered, Cleared
    <3>2. IsRecord(r) /\ Claims(r)
      BY <2>1, <2>3 DEF RecordOK, Claims
    <3>3. status \in {"extra", "matched"}
      OBVIOUS
    <3> HIDE DEF r, status, a
    <3>4. a = [at |-> r.at, version |-> r.version, status |-> status, find |-> r.find,
               dest |-> r.dest, dup |-> {}]
      BY <3>1, <3>2 DEF IsRecord
    <3>5. a.at = r.at /\ a.find = r.find /\ a.dest = r.dest /\ a.dup = {} /\ Claims(a)
      BY <3>3, <3>4 DEF Claims
    <3>6. Grounded(f, a)
      BY <2>1, <3>2, <3>5 DEF Grounded
    <3>7. AsPlaced(a)
      BY <2>1, <3>5 DEF AsPlaced
    <3> QED
      BY <2>1, <3>5, <3>6, <3>7 DEF a
  <2>4. CASE Decided(f) # {}
    <3>1. PICK d \in Decided(f) : d = CHOOSE e \in Decided(f) : TRUE
      BY <2>4
    <3> DEFINE status == IF d.find.as = "extra" THEN "extra" ELSE "matched"
    <3>2. a = Record(command.seen[f], status, d.find, Destination(f, d.find))
      BY <2>4, <3>1 DEF Answered
    <3>3. d \in catalog.sources /\ d.at = r.at /\ HasDestination(d.find)
      BY DEF Decided, Answerable
    <3>4. Normal(d.find)
      <4>1. d.find \in Answers
        BY <3>3 DEF PlanningInv, CatalogOK
      <4> QED
        BY <4>1, PlanningAssumption DEF Finds, Normal
    <3>5. ReviewedHere(r.at)
      BY <3>3 DEF ReviewedHere
    <3> HIDE DEF r, status, a
    <3> QED
      BY <2>1, <3>2, <3>3, <3>4, <3>5, RecordShape DEF Grounded, AsPlaced, a
  <2> QED
    BY <2>2, <2>3, <2>4
<1>4. \A f \in DOMAIN answered : answered[f] = Answered(f)
  OBVIOUS
<1> HIDE DEF answered
<1> QED
  BY <1>1, <1>2, <1>3, <1>4 DEF Undecided, SeenAll, answered

\* The members of a group that was reviewed, by the decision on them.
LEMMA OneGroup ==
  ASSUME PlanningInv, Disjoint, NEW g \in catalog.groups, NEW h \in catalog.groups,
         NEW f \in Members(g), f \in Members(h)
  PROVE  g = h
<1>1. RecordOK(command.records[f])
  BY DEF Members, PlanningInv, CommandOK, RecordsOK
<1>2. command.records[f].at \in g.candidates /\ command.records[f].at \in h.candidates
  BY <1>1 DEF Members, RecordOK
<1> QED
  BY <1>2 DEF Disjoint

LEMMA RuledSays ==
  ASSUME PlanningInv, NEW g \in catalog.groups, NEW f \in Members(g)
  PROVE  LET r == command.records[f]
             ruled == Ruled(f, g)
         IN /\ ruled.at = r.at /\ ruled.find = r.find /\ ruled.dest = r.dest
            /\ ruled.dup = {[key |-> g.key, candidates |-> g.candidates, winner |-> g.winner]}
            /\ Goes(ruled) => r.at \in g.winner
            /\ Claims(r) /\ Claims(ruled) /\ ReviewedHere(r.at) /\ ruled.status # "held"
<1> DEFINE r == command.records[f]
           decision == [key |-> g.key, candidates |-> g.candidates, winner |-> g.winner]
           status == IF r.at \notin g.winner THEN "duplicate"
                     ELSE IF r.find.as = "extra" THEN "extra" ELSE "matched"
<1>1. PICK d \in r.dup : d.key = g.key /\ d.candidates = g.candidates
  BY DEF Members
<1>2. RecordOK(r)
  BY DEF PlanningInv, CommandOK, RecordsOK, Members
<1>3. Ruled(f, g) = [r EXCEPT !.dup = {decision}, !.status = status]
  <2>1. IsRecord(command.records[f])
    BY <1>2 DEF RecordOK
  <2> QED
    BY <2>1 DEF Ruled, IsRecord
<1>4. status # "held" /\ (status \in {"matched", "extra"} => r.at \in g.winner)
  OBVIOUS
<1>5. Claims(r) /\ ReviewedHere(r.at)
  BY <1>1, <1>2 DEF Claims, RecordOK, ReviewedHere
<1> HIDE DEF r, decision, status
<1>6. Ruled(f, g) = [at |-> r.at, version |-> r.version, status |-> status,
                     find |-> r.find, dest |-> r.dest, dup |-> {decision}]
  BY <1>2, <1>3 DEF RecordOK, IsRecord
<1>7. /\ Ruled(f, g).at = r.at /\ Ruled(f, g).find = r.find /\ Ruled(f, g).dest = r.dest
      /\ Ruled(f, g).dup = {decision} /\ (Goes(Ruled(f, g)) => r.at \in g.winner)
      /\ Claims(Ruled(f, g)) /\ Ruled(f, g).status # "held"
  BY <1>4, <1>6 DEF Goes, Claims
<1> QED
  BY <1>5, <1>7 DEF r, decision

\* The reviewed decisions keep what the draft settled.
LEMMA RuledOnce ==
  ASSUME PlanningInv, Disjoint, Drawn(command.seen, command.records), NEW ruled,
         ruled = [f \in DOMAIN command.records |->
                    IF \E g \in catalog.groups : f \in Members(g)
                    THEN Ruled(f, CHOOSE g \in catalog.groups : f \in Members(g))
                    ELSE command.records[f]]
  PROVE  Drawn(command.seen, ruled)
<1> DEFINE Chosen(f) == \E g \in catalog.groups : f \in Members(g)
<1>1. DOMAIN ruled = DOMAIN command.records
  OBVIOUS
<1>2. ASSUME NEW f \in DOMAIN command.records, ~Chosen(f)
      PROVE  ruled[f] = command.records[f]
  BY <1>2
<1>3. ASSUME NEW g \in catalog.groups, NEW f \in Members(g)
      PROVE  ruled[f] = Ruled(f, g)
  <2>1. f \in DOMAIN command.records
    BY DEF Members
  <2>2. PICK h \in catalog.groups : f \in Members(h) /\ ruled[f] = Ruled(f, h)
    BY <2>1
  <2> QED
    BY <2>2, OneGroup
<1>4. ASSUME NEW f \in DOMAIN command.records, NEW g \in catalog.groups, f \in Members(g)
      PROVE  /\ ruled[f].at = command.records[f].at /\ ruled[f].find = command.records[f].find
             /\ ruled[f].dest = command.records[f].dest
             /\ ruled[f].dup = {[key |-> g.key, candidates |-> g.candidates, winner |-> g.winner]}
             /\ Goes(ruled[f]) => command.records[f].at \in g.winner
             /\ Claims(command.records[f]) /\ Claims(ruled[f])
             /\ ReviewedHere(command.records[f].at)
  BY <1>3, <1>4, RuledSays
<1> HIDE DEF Chosen
<1>5. ASSUME NEW f \in DOMAIN command.records
      PROVE  /\ ruled[f].at = command.records[f].at /\ ruled[f].find = command.records[f].find
             /\ ruled[f].dest = command.records[f].dest
             /\ Claims(ruled[f]) <=> Claims(command.records[f])
  BY <1>2, <1>4 DEF Chosen
<1>6. ASSUME NEW f \in DOMAIN command.records
      PROVE  Grounded(f, ruled[f]) /\ AsPlaced(ruled[f])
  <2>1. Grounded(f, command.records[f]) /\ AsPlaced(command.records[f])
    BY DEF Drawn
  <2>2. Grounded(f, ruled[f])
    BY <1>5, <2>1 DEF Grounded
  <2>3. AsPlaced(ruled[f])
    <3>1. CASE Chosen(f)
      BY <1>4, <1>5, <3>1 DEF Chosen, AsPlaced
    <3>2. CASE ~Chosen(f)
      BY <1>2, <2>1, <3>2
    <3> QED
      BY <3>1, <3>2
  <2> QED
    BY <2>2, <2>3
<1>7. ASSUME NEW f \in DOMAIN command.records, NEW g \in DOMAIN command.records,
             NEW h \in catalog.groups, f \in Members(h),
             command.records[g].dup = command.records[f].dup
      PROVE  g \in Members(h)
  BY <1>7 DEF Members
<1>8. ASSUME NEW f \in DOMAIN command.records, NEW g \in DOMAIN command.records, f # g
      PROVE  LET r == ruled[f]
                 q == ruled[g]
             IN /\ r.at # q.at
                /\ Claims(r) /\ Claims(q) /\ SameEpisodes(r, q) => r.dup = q.dup /\ r.dup # {}
                /\ ~(Goes(r) /\ Goes(q) /\ SameEpisodes(r, q))
                /\ Goes(r) /\ r.dest # r.at /\ r.find.as = "episode" /\ q.at.base = r.dest.base
                     /\ ~ReviewedHere(q.at) => q.status \in {"suspicious", "unresolved"}
  <2> DEFINE r == command.records[f]
             q == command.records[g]
  <2>1. /\ r.at # q.at
        /\ Claims(r) /\ Claims(q) /\ SameEpisodes(r, q) => r.dup = q.dup /\ r.dup # {}
        /\ ~(Goes(r) /\ Goes(q) /\ SameEpisodes(r, q))
        /\ Goes(r) /\ r.dest # r.at /\ r.find.as = "episode" /\ q.at.base = r.dest.base
             /\ ~ReviewedHere(q.at) => q.status \in {"suspicious", "unresolved"}
    BY <1>8 DEF Drawn, Once
  <2>2. SameEpisodes(ruled[f], ruled[g]) <=> SameEpisodes(r, q)
    BY <1>5 DEF SameEpisodes
  <2>3. ASSUME Claims(ruled[f]), Claims(ruled[g]), SameEpisodes(ruled[f], ruled[g])
        PROVE  /\ ruled[f].dup = ruled[g].dup /\ ruled[f].dup # {}
               /\ ~(Goes(ruled[f]) /\ Goes(ruled[g]))
    <3>1. r.dup = q.dup /\ r.dup # {}
      BY <1>5, <2>1, <2>2, <2>3
    <3>2. CASE Chosen(f) \/ Chosen(g)
      <4>1. PICK h \in catalog.groups : f \in Members(h) /\ g \in Members(h)
        BY <1>7, <3>1, <3>2 DEF Chosen
      <4>2. Goes(ruled[f]) /\ Goes(ruled[g]) => r.at \in h.winner /\ q.at \in h.winner
        BY <1>4, <4>1
      <4>3. SmallSet(h.winner)
        BY DEF PlanningInv, CatalogOK
      <4> DEFINE decision == [key |-> h.key, candidates |-> h.candidates, winner |-> h.winner]
      <4>8. ruled[f].dup = {decision}
        BY <1>4, <4>1
      <4>9. ruled[g].dup = {decision}
        BY <1>4, <4>1
      <4> HIDE DEF decision
      <4>4. ruled[f].dup = ruled[g].dup /\ ruled[f].dup # {}
        BY <4>8, <4>9
      <4> QED
        BY <2>1, <4>2, <4>3, <4>4 DEF SmallSet
    <3>3. CASE ~Chosen(f) /\ ~Chosen(g)
      BY <1>2, <2>1, <2>2, <2>3, <3>1, <3>3
    <3> QED
      BY <3>2, <3>3
  <2>4. ASSUME Goes(ruled[f]), ruled[f].dest # ruled[f].at, ruled[f].find.as = "episode",
               ruled[g].at.base = ruled[f].dest.base, ~ReviewedHere(ruled[g].at),
               ruled[g].status \notin {"suspicious", "unresolved"}
        PROVE  FALSE
    <3>1. ~Chosen(g) /\ ruled[g] = q
      BY <1>2, <1>4, <1>5, <2>4 DEF Chosen
    <3>2. Claims(ruled[f]) /\ Claims(r)
      BY <1>5, <2>4 DEF Claims, Goes
    <3>3. CASE ~Chosen(f)
      BY <1>2, <2>1, <2>4, <3>1, <3>3
    <3>4. CASE Chosen(f)
      <4>1. /\ Normal(r.find) /\ r.dest = Destination(f, r.find) /\ r.find.as = "episode"
        BY <1>5, <2>4, <3>2 DEF Drawn, Grounded
      <4>0. ruled[g].at = q.at /\ ruled[f].dest = r.dest
        BY <1>5
      <4>9. q.at.base = Destination(f, r.find).base
        BY <2>4, <4>0, <4>1
      <4>2. q.at.base = Destination(f, r.find).base /\ q.at.base[1] = "season"
        BY <4>1, <4>9, EpisodePlace
      <4>3. q.find = Episodes(q.at.base[2], q.at.base[3]) /\ Claims(q)
        BY <1>6, <2>4, <3>1, <4>2 DEF AsPlaced
      <4>4. q.at.base = <<"season", r.find.show, r.find.what>>
        BY <4>1, <4>2, EpisodePlace
      <4>5. q.find = r.find
        BY <4>1, <4>3, <4>4 DEF Normal
      <4>6. SameEpisodes(r, q)
        BY <4>1, <4>5 DEF SameEpisodes
      <4>7. r.dup = q.dup
        BY <2>1, <3>2, <4>3, <4>6
      <4> QED
        BY <1>7, <3>1, <3>4, <4>7 DEF Chosen
    <3> QED
      BY <3>3, <3>4
  <2>5. Goes(ruled[f]) => Claims(ruled[f])
    BY DEF Goes, Claims
  <2>6. Goes(ruled[g]) => Claims(ruled[g])
    BY DEF Goes, Claims
  <2>7. ruled[f].at # ruled[g].at
    BY <1>5, <2>1
  <2> QED
    BY <2>3, <2>4, <2>5, <2>6, <2>7
<1>9. Once(ruled)
  BY <1>1, <1>8 DEF Once
<1>10. DOMAIN command.records = DOMAIN command.seen
       /\ \A f \in DOMAIN command.records : command.records[f].at = command.seen[f].at
  BY DEF Drawn
<1> QED
  BY <1>1, <1>5, <1>6, <1>9, <1>10 DEF Drawn

-------------------------------------------------------------------------------
(* The steps of the command. *)

\* A step that draws up records, and forgets what was read again.
DrawsUp(pc, records, companions) ==
  \/ command' = [command EXCEPT !.pc = pc, !.records = records, !.companions = companions]
  \/ command' = [command EXCEPT !.pc = pc, !.records = records, !.companions = companions,
                                !.again = Empty]

LEMMA CommandDraws ==
  ASSUME IsCommand(command), NEW pc, NEW records, NEW companions,
         DrawsUp(pc, records, companions)
  PROVE  /\ command'.pc = pc /\ command'.seen = command.seen /\ command'.records = records
         /\ command'.companions = companions /\ command'.again \in {command.again, Empty}
<1>1. ASSUME command' = [command EXCEPT !.pc = pc, !.records = records,
                                        !.companions = companions, !.again = Empty]
      PROVE  command' = [pc |-> pc, seen |-> command.seen, records |-> records,
                         companions |-> companions, again |-> Empty]
  BY <1>1, CommandGoesOn
<1>2. ASSUME command' = [command EXCEPT !.pc = pc, !.records = records,
                                        !.companions = companions]
      PROVE  command' = [pc |-> pc, seen |-> command.seen, records |-> records,
                         companions |-> companions, again |-> command.again]
  BY <1>2 DEF IsCommand
<1>3. PICK again \in {command.again, Empty} :
        command' = [pc |-> pc, seen |-> command.seen, records |-> records,
                    companions |-> companions, again |-> again]
  BY <1>1, <1>2 DEF DrawsUp
<1> QED
  BY <1>3

\* What a reading writes.
LEMMA CommandRereads ==
  ASSUME IsCommand(command), Reread
  PROVE  /\ command'.pc = (IF command.pc = "drafted" THEN "extending" ELSE "binding")
         /\ command'.seen = command.seen /\ command'.records = command.records
         /\ command'.companions = command.companions /\ command'.again = Scanned(library)
         /\ command.pc \in {"drafted", "extended"} /\ Draws
<1> DEFINE pc == IF command.pc = "drafted" THEN "extending" ELSE "binding"
           again == Scanned(library)
<1>1. /\ command' = [command EXCEPT !.pc = pc, !.again = again] /\ Draws
      /\ command.pc \in {"drafted", "extended"}
  BY DEF Reread
<1> HIDE DEF again, pc
<1>2. command' = [pc |-> pc, seen |-> command.seen, records |-> command.records,
                  companions |-> command.companions, again |-> again]
  BY <1>1 DEF IsCommand
<1> QED
  BY <1>1, <1>2 DEF pc, again

LEMMA CommandOnce ==
  ASSUME OnceInv, PlanningInv', Draws,
         command'.pc # "idle" => SeenAll(command'.seen),
         command'.pc \in Drawing =>
           Drawn(command'.seen, command'.records)
  PROVE  OnceInv'
<1>1. /\ library' = library /\ catalog' = catalog /\ plan' = plan
      /\ saved' = saved /\ outdated' = outdated
  BY DEF Draws, Reads
<1>2. EpisodesOrganizedOnce' /\ Disjoint' /\ \A f \in Videos : Layout(f, library'[f].at)
  BY <1>1 DEF OnceInv, EpisodesOrganizedOnce, ReviewedHere, Disjoint
<1>3. PlannedOnce'
  <2>1. PlannedOnce
    BY DEF OnceInv
  <2> QED
    BY <1>1, <2>1 DEF PlannedOnce, Once, ReviewedHere
<1>4. SeenAll(command'.seen) => SeenAll(command.seen)'
  BY <1>1 DEF SeenAll
<1>5. Drawn(command'.seen, command'.records) => Drawn(command.seen, command.records)'
  BY <1>1 DEF Drawn, Once, AsPlaced, ReviewedHere
<1>6. \A p \in Bundles' : GroundedBundle(p)
  BY <1>1 DEF OnceInv, Bundles
<1> QED
  BY <1>2, <1>3, <1>4, <1>5, <1>6 DEF OnceInv, GroundedBundle

LEMMA StopOnce ==
  ASSUME OnceInv, PlanningInv', Draws, command' = Idle
  PROVE  OnceInv'
<1>1. command'.pc = "idle"
  BY DEF Idle
<1>2. command'.pc \notin Drawing
  BY <1>1 DEF Drawing, Answering
<1> QED
  BY <1>1, <1>2, CommandOnce

LEMMA ScanOnce ==
  ASSUME OnceInv, Scan
  PROVE  OnceInv'
<1> DEFINE seen == Scanned(library)
<1>1. command' = [Idle EXCEPT !.pc = "scanned", !.seen = seen] \/ command' = Idle
  BY DEF Scan, GoesOn
<1>2. Draws
  BY DEF Scan
<1>3. PlanningInv'
  BY ScanInv DEF OnceInv
<1>4. DOMAIN seen = {f \in Videos : library[f].at = Inbox(f) \/ IsManaged(library[f].at)}
      /\ \A f \in DOMAIN seen : seen[f] = library[f]
  BY DEF Scanned
<1> HIDE DEF seen
<1>5. SeenAll(seen)
  <2>1. \A f \in DOMAIN seen : Layout(f, seen[f].at)
    BY <1>4 DEF OnceInv
  <2>2. ASSUME NEW f \in DOMAIN seen, NEW g \in DOMAIN seen, f # g
        PROVE  seen[f].at # seen[g].at
    <3>1. f \in Files /\ g \in Files /\ library[f].at # Nowhere
      BY <1>4, PlacesOf DEF Files
    <3> QED
      BY <1>4, <2>2, <3>1 DEF OnceInv, PlanningInv, PlacesDistinct
  <2>3. \A f \in Videos : library[f].at.base[1] = "season" =>
          f \in DOMAIN seen /\ seen[f].at = library[f].at
    BY <1>4 DEF IsManaged
  <2> QED
    BY <2>1, <2>2, <2>3 DEF SeenAll
<1>6. CASE command' = Idle
  BY <1>2, <1>3, <1>6, StopOnce
<1>7. CASE command' = [Idle EXCEPT !.pc = "scanned", !.seen = seen]
  <2>1. command' = [pc |-> "scanned", seen |-> seen, records |-> Empty, companions |-> Empty,
                    again |-> Empty]
    BY <1>7, IdleOK, CommandSees DEF Idle
  <2>2. command'.pc = "scanned" /\ command'.seen = seen /\ command'.pc \notin Drawing
    BY <2>1 DEF Drawing, Answering
  <2> QED
    BY <1>2, <1>3, <1>5, <2>2, CommandOnce
<1> QED
  BY <1>1, <1>6, <1>7

\* A step of the command that leaves its reading and has records drawn from it.
LEMMA RecordsOnce ==
  ASSUME OnceInv, PlanningInv', Draws, command.pc # "idle",
         NEW pc, NEW records, NEW companions, Drawn(command.seen, records),
         DrawsUp(pc, records, companions)
  PROVE  OnceInv'
<1>1. IsCommand(command)
  BY DEF OnceInv, PlanningInv, CommandOK
<1>2. command'.seen = command.seen /\ command'.records = records
  BY <1>1, CommandDraws
<1>3. SeenAll(command.seen)
  BY DEF OnceInv
<1> QED
  BY <1>2, <1>3, CommandOnce

LEMMA DraftPlanOnce ==
  ASSUME OnceInv, DraftPlan
  PROVE  OnceInv'
<1> DEFINE seen == command.seen
           held == {f \in DOMAIN seen : seen[f].at \in catalog.holds}
           found == [f \in DOMAIN seen |-> FoundAt(f, seen[f].at)]
           drafted == Draft(seen, found, held)
           records == DecideDuplicates(drafted, PreferredPaths)
           companions == PlanCompanions(DiscoverSidecars(library, seen), records)
           next(pc) == [command EXCEPT !.pc = pc, !.records = records,
                                       !.companions = companions]
<1>1. command' = Idle \/ \E pc \in Drafted : command' = next(pc)
  BY DEF DraftPlan, GoesOn
<1>2. Draws /\ command.pc = "scanned"
  BY DEF DraftPlan
<1>3. PlanningInv /\ PlanningInv' /\ CatalogOK
  BY DraftPlanInv DEF OnceInv, PlanningInv
<1>4. DOMAIN seen \subseteq Videos /\ SeenAll(seen)
  BY <1>2 DEF OnceInv, PlanningInv, CommandOK
<1>5. \A f \in held : ReviewedHere(seen[f].at)
  BY DEF ReviewedHere
<1>6. \A f \in DOMAIN seen : found[f] = FoundAt(f, seen[f].at)
  OBVIOUS
<1> HIDE DEF found, held, seen, companions
<1>7. /\ DOMAIN drafted = DOMAIN seen /\ Undecided(drafted)
      /\ \A f \in DOMAIN seen : drafted[f].at = seen[f].at
  BY <1>3, <1>4, <1>5, <1>6, DraftUndecided
<1> HIDE DEF drafted
<1>8. /\ \A f \in DOMAIN drafted :
           records[f].at = drafted[f].at /\ Grounded(f, records[f]) /\ AsPlaced(records[f])
      /\ DOMAIN records = DOMAIN drafted /\ Once(records)
  BY <1>3, <1>7, DecideOnce
<1> HIDE DEF records
<1>9. Drawn(seen, records)
  BY <1>7, <1>8 DEF Drawn
<1>10. CASE command' = Idle
  BY <1>2, <1>3, <1>10, StopOnce
<1>11. ASSUME NEW pc \in Drafted, command' = next(pc)
       PROVE  OnceInv'
  <2>1. DrawsUp(pc, records, companions)
    BY <1>11 DEF DrawsUp
  <2> QED
    BY <1>2, <1>3, <1>9, <2>1, RecordsOnce DEF seen
<1> QED
  BY <1>1, <1>10, <1>11

LEMMA RereadOnce ==
  ASSUME OnceInv, Reread
  PROVE  OnceInv'
<1>1. IsCommand(command) /\ PlanningInv'
  BY RereadInv DEF OnceInv, PlanningInv, CommandOK
<1>2. /\ command'.seen = command.seen /\ command'.records = command.records /\ Draws
      /\ command.pc \in {"drafted", "extended"}
  BY <1>1, CommandRereads
<1>3. SeenAll(command.seen) /\ Drawn(command.seen, command.records)
  BY <1>2 DEF OnceInv, Drawing, Answering
<1> QED
  BY <1>1, <1>2, <1>3, CommandOnce

LEMMA ExtendOnce ==
  ASSUME OnceInv, Extend
  PROVE  OnceInv'
<1> DEFINE sidecars == DiscoverSidecars(library, command.again)
           answered == [f \in DOMAIN command.records |-> Answered(f)]
           records == DecideDuplicates(answered, PreferredPaths)
           companions == PlanCompanions(sidecars, records)
<1>1. \/ command' = Idle
      \/ /\ \A f \in DOMAIN command.records : Answerable(f)
         /\ command' = [command EXCEPT !.pc = "extended", !.records = records,
                                       !.companions = companions, !.again = Empty]
  BY DEF Extend, GoesOn
<1>2. Draws /\ command.pc = "extending"
  BY DEF Extend
<1>3. PlanningInv /\ PlanningInv' /\ CatalogOK
  BY ExtendInv DEF OnceInv, PlanningInv
<1>4. SeenAll(command.seen) /\ Drawn(command.seen, command.records)
  BY <1>2 DEF OnceInv, Drawing, Answering
<1>5. CASE command' = Idle
  BY <1>2, <1>3, <1>5, StopOnce
<1>6. CASE /\ \A f \in DOMAIN command.records : Answerable(f)
           /\ command' = [command EXCEPT !.pc = "extended", !.records = records,
                                         !.companions = companions, !.again = Empty]
  <2>1. Undecided(answered) /\ \A f \in DOMAIN answered : answered[f].at = command.seen[f].at
    BY <1>3, <1>4, <1>6, AnsweredUndecided
  <2>2. DOMAIN answered = DOMAIN command.seen
    BY <1>4 DEF Drawn
  <2> HIDE DEF answered, companions
  <2>3. /\ \A f \in DOMAIN answered :
             records[f].at = answered[f].at /\ Grounded(f, records[f]) /\ AsPlaced(records[f])
        /\ DOMAIN records = DOMAIN answered /\ Once(records)
    BY <1>3, <2>1, DecideOnce
  <2> HIDE DEF records
  <2>4. Drawn(command.seen, records)
    BY <2>1, <2>2, <2>3 DEF Drawn
  <2>5. DrawsUp("extended", records, companions)
    BY <1>6 DEF DrawsUp
  <2> QED
    BY <1>2, <1>3, <2>4, <2>5, RecordsOnce
<1> QED
  BY <1>1, <1>5, <1>6

LEMMA BindOnce ==
  ASSUME OnceInv, Bind
  PROVE  OnceInv'
<1> DEFINE sidecars == DiscoverSidecars(library, command.again)
           ruled == [f \in DOMAIN command.records |->
                       IF \E g \in catalog.groups : f \in Members(g)
                       THEN Ruled(f, CHOOSE g \in catalog.groups : f \in Members(g))
                       ELSE command.records[f]]
           companions == PlanCompanions(sidecars, ruled)
<1>1. \/ command' = Idle
      \/ command' = [command EXCEPT !.pc = "planned", !.records = ruled,
                                    !.companions = companions, !.again = Empty]
  BY DEF Bind, GoesOn
<1>2. Draws /\ command.pc = "binding"
  BY DEF Bind
<1>3. PlanningInv /\ PlanningInv' /\ Disjoint
  BY BindInv DEF OnceInv
<1>4. Drawn(command.seen, command.records)
  BY <1>2 DEF OnceInv, Drawing, Answering
<1>5. Drawn(command.seen, ruled)
  BY <1>3, <1>4, RuledOnce
<1> HIDE DEF ruled, companions
<1>6. CASE command' = Idle
  BY <1>2, <1>3, <1>6, StopOnce
<1>7. CASE command' = [command EXCEPT !.pc = "planned", !.records = ruled,
                                      !.companions = companions, !.again = Empty]
  <2>1. DrawsUp("planned", ruled, companions)
    BY <1>7 DEF DrawsUp
  <2> QED
    BY <1>2, <1>3, <1>5, <2>1, RecordsOnce
<1> QED
  BY <1>1, <1>6, <1>7

\* A plan that was found ready has settled everything, and its records are those
\* of what was in the library when the command read it.
LEMMA PublishOnce ==
  ASSUME OnceInv, Publish
  PROVE  OnceInv'
<1> DEFINE new == [NoPlan EXCEPT !.records = command.records,
                                 !.companions = command.companions, !.latest = TRUE]
           ready == PreflightReady(new, library)
<1>1. /\ plan' = [new EXCEPT !.ready = ready] /\ command' = Idle /\ Reads
      /\ command.pc = "planned" /\ saved' \subseteq saved \cup {Past(plan)}
  BY DEF Publish
<1>2. new = [records |-> command.records, companions |-> command.companions,
             ready |-> FALSE, latest |-> TRUE]
  BY PlanDrawnUp
<1>3. ready => Settled(new)
  BY DEF PreflightReady
<1> HIDE DEF new, ready
<1>4. plan' = [records |-> command.records, companions |-> command.companions,
               ready |-> ready, latest |-> TRUE]
  BY <1>1, <1>2
<1>5. plan'.records = command.records /\ plan'.companions = command.companions
      /\ plan'.ready = ready /\ new.records = command.records
      /\ new.companions = command.companions
  BY <1>2, <1>4
<1>6. library' = library /\ catalog' = catalog /\ outdated' = outdated
  BY <1>1 DEF Reads
<1>7. SeenAll(command.seen) /\ Drawn(command.seen, command.records)
  BY <1>1 DEF OnceInv, Drawing, Answering
<1>8. PlannedOnce'
  <2>1. ready => Settled(plan')
    BY <1>3, <1>5 DEF Settled
  <2>2. Once(command.records) => Once(plan.records)'
    BY <1>5, <1>6 DEF Once, ReviewedHere
  <2>4. \A f \in Videos : library[f].at.base[1] = "season" =>
          f \in DOMAIN plan'.records /\ library[f].at = plan'.records[f].at
    BY <1>5, <1>7 DEF SeenAll, Drawn
  <2>5. Once(plan.records)'
    BY <1>7, <2>2 DEF Drawn
  <2> QED
    BY <1>5, <1>6, <2>1, <2>4, <2>5 DEF PlannedOnce
<1>9. EpisodesOrganizedOnce' /\ Disjoint' /\ \A f \in Videos : Layout(f, library'[f].at)
  BY <1>6 DEF OnceInv, EpisodesOrganizedOnce, ReviewedHere, Disjoint
<1>10. command'.pc = "idle"
  BY <1>1 DEF Idle
<1>11. PlanningInv'
  BY PublishInv DEF OnceInv
<1>12. GroundedBundle(plan')
  BY <1>5, <1>7 DEF GroundedBundle, Drawn
<1>13. \A p \in saved \cup {Past(plan)} : GroundedBundle(p)
  <2>1. GroundedBundle(plan) /\ PlanOK(plan)
    BY DEF OnceInv, Bundles, PlanningInv, PublishedOK
  <2>2. GroundedBundle(Past(plan))
    BY <2>1, PastOK DEF GroundedBundle
  <2> QED
    BY <2>2 DEF OnceInv, Bundles
<1>14. command'.pc \notin Drawing
  BY <1>10 DEF Drawing, Answering
<1> QED
  BY <1>1, <1>8, <1>9, <1>10, <1>11, <1>12, <1>13, <1>14 DEF OnceInv, Bundles, GroundedBundle

-------------------------------------------------------------------------------
(* The other commands. *)

\* What was reviewed stays so, and the groups stay disjoint.
LEMMA ContractedOnce ==
  ASSUME CatalogOK, Disjoint, NEW decision, Contracted(decision)
  PROVE  Disjoint' /\ \A path : ReviewedHere(path) => ReviewedHere(path)'
<1> DEFINE others == {g \in catalog.groups :
                        ~(g.key = decision.key /\ g.candidates = decision.candidates)}
<1>1. catalog' = [catalog EXCEPT !.groups = others \cup {decision}]
      /\ \A g \in others : g.candidates \cap decision.candidates = {}
  BY DEF Contracted
<1>2. \A g \in catalog.groups : g \in others \/ g.candidates = decision.candidates
  OBVIOUS
<1>3. others \subseteq catalog.groups
  OBVIOUS
<1> HIDE DEF others
<1>4. catalog' = [groups |-> others \cup {decision}, sources |-> catalog.sources,
                  holds |-> catalog.holds]
  BY <1>1 DEF CatalogOK
<1>5. /\ catalog'.groups = others \cup {decision} /\ catalog'.sources = catalog.sources
      /\ catalog'.holds = catalog.holds
  BY <1>4
<1>6. Disjoint'
  <2>1. SUFFICES ASSUME NEW g \in others \cup {decision}, NEW h \in others \cup {decision}, g # h
                 PROVE  g.candidates \cap h.candidates = {}
    BY <1>5 DEF Disjoint
  <2>2. g \in others /\ h \in others => g.candidates \cap h.candidates = {}
    BY <1>3, <2>1 DEF Disjoint
  <2> QED
    BY <1>1, <2>1, <2>2
<1>7. ASSUME NEW path, ReviewedHere(path)
      PROVE  ReviewedHere(path)'
  BY <1>2, <1>5, <1>7 DEF ReviewedHere
<1> QED
  BY <1>6, <1>7

LEMMA DuplicateOnce ==
  ASSUME CatalogOK, Disjoint, NEW f, AnswerDuplicate(f)
  PROVE  Disjoint' /\ \A path : ReviewedHere(path) => ReviewedHere(path)'
<1>1. \E decision : Contracted(decision)
  BY DEF AnswerDuplicate
<1> QED
  BY <1>1, ContractedOnce

LEMMA SourceOnce ==
  ASSUME CatalogOK, Disjoint, NEW f, AnswerSource(f)
  PROVE  Disjoint' /\ \A path : ReviewedHere(path) => ReviewedHere(path)'
<1> DEFINE at == plan.records[f].at
           others == {d \in catalog.sources : d.at # at}
           answer(find) == [at |-> at, binding |-> PlanBinding(f), find |-> find]
<1>1. \/ catalog' = [catalog EXCEPT !.sources = others, !.holds = catalog.holds \cup {at}]
      \/ \E find \in Answers :
           catalog' = [catalog EXCEPT !.sources = others \cup {answer(find)},
                                      !.holds = catalog.holds \ {at}]
  BY DEF AnswerSource, CatalogOK
<1>2. /\ \A d \in catalog.sources : d \in others \/ d.at = at
      /\ \A find : answer(find).at = at
  OBVIOUS
<1> HIDE DEF others, answer, at
<1>3. \/ catalog' = [groups |-> catalog.groups, sources |-> others,
                     holds |-> catalog.holds \cup {at}]
      \/ \E find \in Answers :
           catalog' = [groups |-> catalog.groups, sources |-> others \cup {answer(find)},
                       holds |-> catalog.holds \ {at}]
  BY <1>1 DEF CatalogOK
<1>4. /\ catalog'.groups = catalog.groups
      /\ \/ catalog'.sources = others /\ catalog'.holds = catalog.holds \cup {at}
         \/ \E find \in Answers : /\ catalog'.sources = others \cup {answer(find)}
                                  /\ catalog'.holds = catalog.holds \ {at}
  BY <1>3
<1>5. Disjoint'
  BY <1>4 DEF Disjoint
<1>6. ASSUME NEW path, ReviewedHere(path)
      PROVE  ReviewedHere(path)'
  BY <1>2, <1>4, <1>6 DEF ReviewedHere
<1> QED
  BY <1>5, <1>6

LEMMA ReviewOnce ==
  ASSUME OnceInv, Review
  PROVE  OnceInv'
<1>1. /\ plan' = Past(plan) /\ UNCHANGED <<library, command, saved, outdated>>
      /\ command.pc = "idle"
  BY DEF Review, Past
<1>2. Disjoint' /\ \A path : ReviewedHere(path) => ReviewedHere(path)'
  BY DuplicateOnce, SourceOnce DEF Review, OnceInv, PlanningInv
<1>3. plan' = [records |-> plan.records, companions |-> plan.companions, ready |-> plan.ready,
               latest |-> FALSE]
  BY <1>1, PastOK DEF OnceInv, PlanningInv, PublishedOK
<1>4. plan'.records = plan.records /\ plan'.companions = plan.companions
      /\ plan'.ready = plan.ready
  BY <1>3
<1>5. \A path : ReviewedHere(path) => ReviewedHere(path)'
  BY <1>2
<1>6. EpisodesOrganizedOnce'
  <2>1. SUFFICES ASSUME "apply" \notin outdated, NEW f \in Videos, NEW g \in Videos, f # g,
                        library'[f].at.base[1] = "season", library'[f].at.base = library'[g].at.base
                 PROVE  ReviewedHere(library[f].at)' \/ ReviewedHere(library[g].at)'
    BY <1>1 DEF EpisodesOrganizedOnce
  <2>2. ReviewedHere(library[f].at) \/ ReviewedHere(library[g].at)
    BY <1>1, <2>1 DEF OnceInv, EpisodesOrganizedOnce
  <2> QED
    BY <1>1, <1>5, <2>2 DEF ReviewedHere
<1>7. PlannedOnce'
  <2>1. SUFFICES ASSUME plan.ready, "apply" \notin outdated
                 PROVE  PlannedOnce'
    BY <1>1, <1>4 DEF PlannedOnce
  <2>2. /\ Settled(plan) /\ Once(plan.records)
        /\ \A f \in Videos : library[f].at.base[1] = "season" =>
             /\ f \in DOMAIN plan.records
             /\ \/ library[f].at = plan.records[f].at
                \/ f \in Moving(plan) /\ library[f].at = plan.records[f].dest
    BY <2>1 DEF OnceInv, PlannedOnce
  <2>3. Settled(plan') /\ Moving(plan') = Moving(plan)
    BY <1>4, <2>2 DEF Settled, Moving
  <2>4. Once(plan.records)'
    <3>1. SUFFICES ASSUME NEW f \in DOMAIN plan.records, NEW g \in DOMAIN plan.records, f # g
                   PROVE  LET r == plan.records[f]
                              q == plan.records[g]
                          IN /\ r.at # q.at
                             /\ Claims(r) /\ Claims(q) /\ SameEpisodes(r, q) =>
                                  r.dup = q.dup /\ r.dup # {}
                             /\ ~(Goes(r) /\ Goes(q) /\ SameEpisodes(r, q))
                             /\ Goes(r) /\ r.dest # r.at /\ r.find.as = "episode"
                                  /\ q.at.base = r.dest.base /\ ~ReviewedHere(q.at)' =>
                                  q.status \in {"suspicious", "unresolved"}
      BY <1>4 DEF Once, ReviewedHere
    <3>2. ReviewedHere(plan.records[g].at) => ReviewedHere(plan.records[g].at)'
      BY <1>4, <1>5 DEF ReviewedHere
    <3> QED
      BY <1>4, <2>2, <3>1, <3>2 DEF Once
  <2> QED
    BY <1>1, <1>4, <2>2, <2>3, <2>4 DEF PlannedOnce
<1>8. PlanningInv'
  BY ReviewInvariant DEF OnceInv
<1>9. \A p \in Bundles' : GroundedBundle(p)
  BY <1>1, <1>4 DEF OnceInv, Bundles, GroundedBundle
<1> QED
  BY <1>1, <1>2, <1>6, <1>7, <1>8, <1>9 DEF OnceInv, GroundedBundle, Drawing, Answering

\* Nothing is organized by what takes files from the library.
LEMMA LibraryShrinks ==
  ASSUME OnceInv, PlanningInv', UNCHANGED <<catalog, command, plan, saved>>,
         outdated \subseteq outdated',
         \A f \in Videos : library'[f].at.base[1] = "season" => library'[f].at = library[f].at
  PROVE  OnceInv'
<1>1. EpisodesOrganizedOnce'
  BY DEF OnceInv, EpisodesOrganizedOnce, ReviewedHere
<1>2. Disjoint'
  BY DEF OnceInv, Disjoint
<1>3. \A f \in Videos : Layout(f, library'[f].at)
  BY DEF OnceInv, Layout
<1>4. PlannedOnce'
  <2>1. PlannedOnce
    BY DEF OnceInv
  <2> QED
    BY <2>1 DEF PlannedOnce, Once, ReviewedHere
<1>5. SeenAll(command.seen) => SeenAll(command.seen)'
  BY DEF SeenAll
<1>6. Drawn(command.seen, command.records) => Drawn(command.seen, command.records)'
  BY DEF Drawn, Once, AsPlaced, ReviewedHere
<1>7. \A p \in Bundles' : GroundedBundle(p)
  BY DEF OnceInv, Bundles
<1> QED
  BY <1>1, <1>2, <1>3, <1>4, <1>5, <1>6, <1>7 DEF OnceInv, GroundedBundle

\* What an apply organizes has a place of its own, and nobody else's episodes.
LEMMA MovedAlone ==
  ASSUME OnceInv, plan.ready, "apply" \notin outdated,
         NEW moved, moved \subseteq Moving(plan) \cap DOMAIN plan.records,
         NEW to, \A f \in Videos : to[f] = IF f \in moved THEN plan.records[f].dest
                                           ELSE library[f].at,
         NEW f \in moved, NEW g \in Videos, f # g,
         to[f].base[1] = "season", to[g].base = to[f].base
  PROVE  ReviewedHere(to[g])
<1> DEFINE r == plan.records[f]
           q == plan.records[g]
<1>1. f \in Videos /\ moved \subseteq Videos /\ DOMAIN plan.records \subseteq Videos
  BY DEF OnceInv, PlanningInv, PublishedOK, PlanOK, RecordsOK
<1>2. Settled(plan) /\ Once(plan.records)
      /\ \A h \in DOMAIN plan.records : Grounded(h, plan.records[h])
  BY DEF OnceInv, PlannedOnce, Bundles, GroundedBundle
<1>3. \A h \in Moving(plan) \cap DOMAIN plan.records :
        Goes(plan.records[h]) /\ plan.records[h].dest # plan.records[h].at
  <2>1. DOMAIN plan.companions \subseteq Sidecars
    BY DEF OnceInv, PlanningInv, PublishedOK, PlanOK, CompanionsOK
  <2> QED
    BY <1>1, <2>1, RulesAssumption DEF Moving, Goes
<1>4. \A h \in DOMAIN plan.records : Goes(plan.records[h]) =>
        /\ Normal(plan.records[h].find)
        /\ plan.records[h].dest = Destination(h, plan.records[h].find)
  BY <1>2 DEF Grounded, Claims, Goes
<1>5. Goes(r) /\ r.dest # r.at /\ to[f] = r.dest /\ f \in DOMAIN plan.records
  BY <1>1, <1>3
<1>6. r.find.as = "episode" /\ Normal(r.find) /\ r.dest = Destination(f, r.find)
  BY <1>4, <1>5, EpisodePlace
<1>7. ASSUME g \in Moving(plan), g \in DOMAIN plan.records, to[g] = q.dest
      PROVE  FALSE
  <2>1. Goes(q) /\ Normal(q.find) /\ q.dest = Destination(g, q.find)
    BY <1>3, <1>4, <1>7
  <2>2. Destination(f, r.find).base = Destination(g, q.find).base
        /\ Destination(g, q.find).base[1] = "season"
    BY <1>5, <1>6, <1>7, <2>1
  <2>3. q.find.as = "episode"
    BY <2>2, EpisodePlace
  <2>4. SameEpisodes(r, q)
    BY <1>6, <2>1, <2>2, <2>3, SameBase DEF SameEpisodes
  <2> QED
    BY <1>2, <1>5, <1>7, <2>1, <2>4 DEF Once
<1>8. CASE g \in moved
  BY <1>1, <1>7, <1>8
<1>9. CASE g \notin moved
  <2>1. library[g].at = to[g] /\ library[g].at.base[1] = "season"
    BY <1>9
  <2>2. g \in DOMAIN plan.records
        /\ (library[g].at = q.at \/ (g \in Moving(plan) /\ library[g].at = q.dest))
    BY <2>1 DEF OnceInv, PlannedOnce
  <2>3. CASE library[g].at = q.at
    <3>1. q.at.base = r.dest.base
      BY <1>5, <2>1, <2>3
    <3>2. q.status \notin {"suspicious", "unresolved"}
      BY <1>2, <2>2 DEF Settled
    <3>3. ReviewedHere(q.at)
      BY <1>2, <1>5, <1>6, <2>2, <3>1, <3>2 DEF Once
    <3> QED
      BY <2>1, <2>3, <3>3
  <2> QED
    BY <1>7, <2>1, <2>2, <2>3
<1> QED
  BY <1>8, <1>9

LEMMA ApplyOnce ==
  ASSUME OnceInv, NEW p \in Bundles, NEW groups, Apply(p, groups)
  PROVE  OnceInv'
<1> DEFINE moved == MembersOf(p, groups) \cap DOMAIN p.records
           to == [f \in Videos |-> library'[f].at]
<1>1. /\ p.ready /\ command.pc = "idle" /\ UNCHANGED <<catalog, command, plan, saved>>
      /\ outdated' = IF p = plan THEN outdated ELSE outdated \cup {"apply"}
      /\ library' = [x \in Files |-> IF x \in MembersOf(p, groups)
                                     THEN [library[x] EXCEPT !.at = Entry(p, x).dest]
                                     ELSE library[x]]
  BY DEF Apply, Executes
<1>2. PlanningInv' /\ PlanningInv /\ PlanOK(p) /\ GroundedBundle(p)
  BY ApplyInv, BundleOK DEF OnceInv
<1>3. moved \subseteq Moving(p) \cap DOMAIN p.records
  BY DEF MembersOf
<1>4. /\ DOMAIN p.records \subseteq Videos /\ DOMAIN p.companions \subseteq Sidecars
      /\ LibraryOK
  BY <1>2 DEF PlanningInv, PlanOK, RecordsOK, CompanionsOK
<1>5. ASSUME NEW f \in Videos
      PROVE  library'[f].at = IF f \in moved THEN p.records[f].dest ELSE library[f].at
  <2>1. f \in Files /\ f \notin Sidecars /\ f \notin DOMAIN p.companions
    BY <1>4, RulesAssumption DEF Files
  <2>2. f \in MembersOf(p, groups) => f \in DOMAIN p.records
    BY <2>1 DEF MembersOf, Moving
  <2>3. library[f] = [at |-> library[f].at, version |-> library[f].version]
    BY <1>4, <2>1 DEF LibraryOK
  <2>4. CASE f \in moved
    <3>1. library'[f] = [library[f] EXCEPT !.at = p.records[f].dest]
      BY <1>1, <2>1, <2>4 DEF Entry
    <3>2. library'[f] = [at |-> p.records[f].dest, version |-> library[f].version]
      BY <2>3, <3>1
    <3> QED
      BY <2>4, <3>2
  <2>5. CASE f \notin moved
    BY <1>1, <2>1, <2>2, <2>5
  <2> QED
    BY <2>4, <2>5
<1>6. \A f \in Videos : to[f] = IF f \in moved THEN p.records[f].dest ELSE library[f].at
  BY <1>5
<1>7. "apply" \notin outdated' => p = plan /\ outdated' = outdated
  BY <1>1
<1>8. \A f \in Videos : library'[f].at = to[f]
  OBVIOUS
<1> HIDE DEF moved, to
<1>9. EpisodesOrganizedOnce'
  <2>1. SUFFICES ASSUME "apply" \notin outdated', NEW f \in Videos, NEW g \in Videos, f # g,
                        library'[f].at.base[1] = "season",
                        library'[f].at.base = library'[g].at.base
                 PROVE  ReviewedHere(library[f].at)' \/ ReviewedHere(library[g].at)'
    BY DEF EpisodesOrganizedOnce
  <2>2. library'[f].at = to[f] /\ library'[g].at = to[g]
    BY <1>8
  <2>3. SUFFICES ReviewedHere(to[f]) \/ ReviewedHere(to[g])
    BY <1>1, <2>2 DEF ReviewedHere
  <2>4. p = plan /\ "apply" \notin outdated
    BY <1>7, <2>1
  <2>5. ASSUME NEW x \in moved, NEW y \in Videos, x # y, to[x].base[1] = "season",
               to[y].base = to[x].base
        PROVE  ReviewedHere(to[y])
    BY <1>1, <1>3, <1>6, <2>4, <2>5, MovedAlone
  <2>6. to[f].base[1] = "season" /\ to[f].base = to[g].base /\ to[g].base[1] = "season"
    BY <2>1, <2>2
  <2>7. CASE f \notin moved /\ g \notin moved
    BY <1>6, <2>1, <2>4, <2>6, <2>7 DEF OnceInv, EpisodesOrganizedOnce
  <2> QED
    BY <2>1, <2>5, <2>6, <2>7
<1>10. ASSUME NEW f \in Videos
       PROVE  Layout(f, to[f])
  <2>1. CASE f \notin moved
    BY <1>6, <2>1 DEF OnceInv
  <2>2. CASE f \in moved
    <3> DEFINE find == p.records[f].find
    <3>1. f \in Moving(p) /\ f \in DOMAIN p.records /\ f \notin DOMAIN p.companions
      BY <1>3, <1>4, <2>2, RulesAssumption
    <3>2. Claims(p.records[f]) /\ Grounded(f, p.records[f])
      BY <1>1, <1>2, <3>1 DEF Moving, Claims, GroundedBundle
    <3>3. Normal(find) /\ HasDestination(find) /\ to[f] = Destination(f, find)
      BY <1>6, <2>2, <3>2 DEF Grounded
    <3>4. SUFFICES ASSUME to[f].base[1] = "season"
                   PROVE  find = Episodes(to[f].base[2], to[f].base[3])
      BY <3>3 DEF Layout
    <3>5. find.as = "episode" /\ to[f].base = <<"season", find.show, find.what>>
      BY <3>3, <3>4, EpisodePlace
    <3>6. to[f].base[2] = find.show /\ to[f].base[3] = find.what
      BY <3>5
    <3> QED
      BY <3>3, <3>5, <3>6 DEF Normal
  <2> QED
    BY <2>1, <2>2
<1>11. PlannedOnce'
  <2>1. SUFFICES ASSUME plan.ready, "apply" \notin outdated'
                 PROVE  PlannedOnce'
    BY <1>1 DEF PlannedOnce
  <2>2. p = plan /\ "apply" \notin outdated
    BY <1>7, <2>1
  <2>3. /\ Settled(plan) /\ Once(plan.records)
        /\ \A f \in Videos : library[f].at.base[1] = "season" =>
             /\ f \in DOMAIN plan.records
             /\ \/ library[f].at = plan.records[f].at
                \/ f \in Moving(plan) /\ library[f].at = plan.records[f].dest
    BY <2>1, <2>2 DEF OnceInv, PlannedOnce
  <2>4. Settled(plan') /\ Moving(plan') = Moving(plan)
    BY <1>1, <2>3 DEF Settled, Moving
  <2>5. Once(plan.records)'
    BY <1>1, <2>3 DEF Once, ReviewedHere
  <2>6. \A f \in Videos : to[f].base[1] = "season" =>
          /\ f \in DOMAIN plan.records
          /\ \/ to[f] = plan.records[f].at
             \/ f \in Moving(plan) /\ to[f] = plan.records[f].dest
    BY <1>3, <1>6, <2>2, <2>3
  <2> QED
    BY <1>1, <1>8, <2>4, <2>5, <2>6 DEF PlannedOnce
<1>12. command'.pc = "idle" /\ command'.pc \notin Drawing /\ Disjoint'
  BY <1>1 DEF OnceInv, Disjoint, Drawing, Answering
<1>13. \A q \in Bundles' : GroundedBundle(q)
  BY <1>1 DEF OnceInv, Bundles
<1> QED
  BY <1>2, <1>8, <1>9, <1>10, <1>11, <1>12, <1>13 DEF OnceInv, GroundedBundle

LEMMA QuarantineOnce ==
  ASSUME OnceInv, NEW p \in Bundles, Quarantine(p)
  PROVE  OnceInv'
<1> DEFINE moved == {x \in QuarantineMembers(p) : library[x].at = Entry(p, x).at}
<1>1. /\ UNCHANGED <<catalog, command, plan, saved>> /\ PlanningInv'
      /\ outdated \subseteq outdated'
  BY QuarantineInv DEF Quarantine, Executes, OnceInv
<1>2. ASSUME NEW f \in Videos, library'[f].at.base[1] = "season"
      PROVE  library'[f].at = library[f].at
  <2>1. f \in Files
    BY DEF Files
  <2>2. library[f] = [at |-> library[f].at, version |-> library[f].version]
    BY <2>1 DEF OnceInv, PlanningInv, LibraryOK
  <2>3. CASE f \in moved
    <3>1. library'[f] = [library[f] EXCEPT !.at = QuarantinePath(p, f)]
      BY <2>1, <2>3 DEF Quarantine
    <3>2. library'[f] = [at |-> QuarantinePath(p, f), version |-> library[f].version]
      BY <2>2, <3>1
    <3>3. QuarantinePath(p, f).base = <<"quarantine", f>>
      BY DEF QuarantinePath, Path
    <3> QED
      BY <1>2, <3>2, <3>3
  <2>4. CASE f \notin moved
    BY <2>1, <2>4 DEF Quarantine
  <2> QED
    BY <2>3, <2>4
<1> QED
  BY <1>1, <1>2, LibraryShrinks

LEMMA ChangeOnce ==
  ASSUME OnceInv, LibraryChange
  PROVE  OnceInv'
<1>1. UNCHANGED <<catalog, command, plan, saved, outdated>> /\ PlanningInv'
  BY LibraryChangeInv DEF LibraryChange, OnceInv
<1>2. PICK x \in Files : Appear(x) \/ Vanish(x) \/ Modify(x)
  BY DEF LibraryChange
<1>3. /\ library[x] = [at |-> library[x].at, version |-> library[x].version]
      /\ DOMAIN library = Files
  BY DEF OnceInv, PlanningInv, LibraryOK
<1>4. Nowhere.base[1] # "season" /\ Inbox(x).base[1] # "season"
  BY DEF Nowhere, Inbox, Path
<1>5. ASSUME NEW f \in Videos, library'[f].at.base[1] = "season"
      PROVE  library'[f].at = library[f].at
  <2>1. f \in Files
    BY DEF Files
  <2>2. CASE f # x
    BY <1>2, <1>3, <2>1, <2>2 DEF Appear, Vanish, Modify
  <2>3. CASE f = x
    <3>1. CASE Appear(x)
      <4>1. library'[x] = [library[x] EXCEPT !.at = Inbox(x)]
        BY <1>3, <3>1 DEF Appear
      <4>2. library'[x] = [at |-> Inbox(x), version |-> library[x].version]
        BY <1>3, <4>1
      <4> QED
        BY <1>4, <1>5, <2>3, <4>2
    <3>2. CASE Vanish(x)
      <4>1. library'[x] = [library[x] EXCEPT !.at = Nowhere]
        BY <1>3, <3>2 DEF Vanish
      <4>2. library'[x] = [at |-> Nowhere, version |-> library[x].version]
        BY <1>3, <4>1
      <4> QED
        BY <1>4, <1>5, <2>3, <4>2
    <3>3. CASE Modify(x)
      <4>1. library'[x] = [library[x] EXCEPT !.version = library[x].version + 1]
        BY <1>3, <3>3 DEF Modify
      <4>2. library'[x] = [at |-> library[x].at, version |-> library[x].version + 1]
        BY <1>3, <4>1
      <4> QED
        BY <2>3, <4>2
    <3> QED
      BY <1>2, <3>1, <3>2, <3>3
  <2> QED
    BY <2>2, <2>3
<1> QED
  BY <1>1, <1>5, LibraryShrinks

LEMMA InitOnce ==
  ASSUME PlanningInit
  PROVE  OnceInv
<1>1. PlanningInv
  BY PlanningInitInv
<1>2. ASSUME NEW f \in Videos
      PROVE  library[f].at.base[1] # "season"
  <2>1. library[f].at = Nowhere \/ library[f].at = Inbox(f)
    BY DEF PlanningInit, Files
  <2>2. Nowhere.base[1] # "season" /\ Inbox(f).base[1] # "season"
    BY DEF Nowhere, Inbox, Path
  <2> QED
    BY <2>1, <2>2
<1>3. command.pc = "idle" /\ catalog.groups = {} /\ ~plan.ready /\ Bundles = {plan}
  BY DEF PlanningInit, Idle, NoCatalog, NoPlan, Bundles
<1> QED
  BY <1>1, <1>2, <1>3 DEF OnceInv, EpisodesOrganizedOnce, Layout, Disjoint, PlannedOnce,
                          GroundedBundle, Drawing, Answering

LEMMA OnceNext ==
  ASSUME OnceInv, [PlanningNext]_planningVars
  PROVE  OnceInv'
<1>1. CASE UNCHANGED planningVars
  <2>1. PlanningInv'
    BY <1>1, PlanningNextInv DEF OnceInv
  <2>2. UNCHANGED <<catalog, command, plan, saved, outdated>> /\ library' = library
    BY <1>1 DEF planningVars
  <2> QED
    BY <2>1, <2>2, LibraryShrinks
<1>2. CASE PlanningNext
  BY <1>2, ScanOnce, DraftPlanOnce, RereadOnce, ExtendOnce, BindOnce, PublishOnce, ReviewOnce,
     ApplyOnce, QuarantineOnce, ChangeOnce, Zenon DEF PlanningNext
<1> QED
  BY <1>1, <1>2

LEMMA OnceInvariant == PlanningSpec => []OnceInv
<1>1. PlanningInit => OnceInv
  BY InitOnce
<1>2. OnceInv /\ [PlanningNext]_planningVars => OnceInv'
  BY OnceNext
<1> QED
  BY <1>1, <1>2, PTL DEF PlanningSpec

\* Under no contract and no schedule of commands do two videos of the same
\* episodes get into the layout, unless a reviewer decided on one of them, or a
\* bundle was applied after a later plan had been published: the last plan knows
\* each video that is organized when it is applied, whatever has changed since,
\* and lets at most one of those that claim the same episodes go there.
THEOREM EpisodesAreOrganizedOnce == PlanningSpec => []EpisodesOrganizedOnce
<1>1. OnceInv => EpisodesOrganizedOnce
  BY DEF OnceInv
<1> QED
  BY <1>1, OnceInvariant, PTL

-------------------------------------------------------------------------------
(* The last copy of something stays.  What a file lost to is in the layout   *)
(* or is one of the decision's own candidates, which go to the same place:   *)
(* what is read there stays there (Rooted), what is decided together goes    *)
(* together (Kin), and a file that rests is where the plan found it.         *)

\* What is in the layout is where its place says that it belongs.
AtHome(f, path) ==
  IsManaged(path) => path = Destination(f, FoundAt(f, path))

\* What was read in the layout stays there, unless a reviewer says that it is
\* something else.
Rooted(r) ==
  IsManaged(r.at) /\ Claims(r) => r.dest = r.at \/ \E d \in catalog.sources : d.at = r.at

\* The candidates of a decision go to one place, but for the extension.
Kin(records) ==
  \A f, g \in DOMAIN records :
    \A d \in records[f].dup :
      records[g].at \in d.candidates => records[g].dest.base = records[f].dest.base

\* A record that neither goes nor loses.
Rests(r) == r.status \notin {"matched", "extra", "duplicate"}

Kept(records) ==
  /\ \A f, g \in DOMAIN records : f # g => records[f].at # records[g].at
  /\ \A f \in DOMAIN records : Rooted(records[f])
  /\ Kin(records)

Somewhere(companions) == \A s \in DOMAIN companions : companions[s].at # Nowhere

Reading(seen) ==
  \A f \in DOMAIN seen :
    /\ AtHome(f, seen[f].at) /\ seen[f].at # Nowhere
    /\ NobodyRemoved => library[f].at = seen[f].at

\* The records and companions of a bundle.
Bundled(p) ==
  /\ Kept(p.records) /\ Somewhere(p.companions)
  /\ \A f \in DOMAIN p.records : p.records[f].at # Nowhere

\* A source of the last plan that may still be answered.
HeldAt(path) ==
  \E x \in DOMAIN plan.records : plan.records[x].at = path /\ IsHeldItem(plan.records[x])

\* What a bundle takes from the layout was answered, and is not to be again.
Leaves(r) == IsManaged(r.at) /\ Claims(r) /\ r.dest # r.at
Justified(p) == \A f \in DOMAIN p.records : Leaves(p.records[f]) => ~HeldAt(p.records[f].at)

\* Where such a source is organized, something is, or left by an answer.
Standing ==
  NobodyRemoved =>
    \A f \in DOMAIN plan.records :
      IsHeldItem(plan.records[f]) /\ IsManaged(plan.records[f].at) =>
        \/ \E g \in Videos : library[g].at.base = plan.records[f].at.base
        \/ \E d \in catalog.sources : d.at.base = plan.records[f].at.base /\ ~HeldAt(d.at)

\* What was answered is open no more.
Closed(records) ==
  \A f \in DOMAIN records :
    IsHeldItem(records[f]) => \A d \in catalog.sources : d.at # records[f].at

Resting ==
  NobodyRemoved /\ outdated = {} =>
    \A f \in DOMAIN plan.records : Rests(plan.records[f]) => library[f].at = plan.records[f].at

Published ==
  (\A p \in Bundles : Bundled(p) /\ Justified(p)) /\ Standing /\ Resting

\* In quarantine a file lies under the place of what was kept in its stead.
Remembered ==
  \A f \in Videos : library[f].at.base[1] = "quarantine" =>
    library[f].at.tail[1][1] \in {"season", "extras"}

KeptInv ==
  /\ OnceInv /\ LastCopyStays /\ Remembered /\ touched \subseteq Files
  /\ \A f \in Videos : AtHome(f, library[f].at)
  /\ command.pc # "idle" => Reading(command.seen)
  /\ command.pc \in Drawing => Kept(command.records) /\ Somewhere(command.companions)
  /\ command.pc \in {"extended", "binding", "planned"} => Closed(command.records)
  /\ Published

-------------------------------------------------------------------------------
\* A destination is the home of what is found there.
LEMMA DestinationIsHome ==
  ASSUME NEW f, NEW find
  PROVE  AtHome(f, Destination(f, find))
<1> DEFINE path == Destination(f, find)
<1>1. path.tail = <<ExtensionOf[f]>> /\ path = Path(path.base, path.tail)
  BY DEF Destination, Path
<1>2. CASE find.as = "episode"
  <2>1. path.base = <<"season", find.show, find.what>>
    BY <1>2, EpisodePlace
  <2>2. path.base[1] = "season" /\ path.base[2] = find.show /\ path.base[3] = find.what
    BY <2>1
  <2> HIDE DEF path
  <2>3. PICK kind : FoundAt(f, path) = [as |-> "episode", show |-> find.show, what |-> find.what,
                                         kind |-> kind]
    BY <2>2 DEF FoundAt, Episodes
  <2>7. /\ FoundAt(f, path).as = "episode" /\ FoundAt(f, path).show = find.show
        /\ FoundAt(f, path).what = find.what
    BY <2>3
  <2>4. Base(FoundAt(f, path)) = <<"season", find.show, find.what>>
    BY <2>7 DEF Base, EpisodeBase
  <2>5. Destination(f, FoundAt(f, path)) = Path(path.base, <<ExtensionOf[f]>>)
    BY <2>1, <2>4 DEF Destination
  <2>6. AtHome(f, path)
    BY <1>1, <2>5 DEF AtHome
  <2> QED
    BY <2>6 DEF path
<1>3. CASE find.as # "episode"
  <2>1. path.base = <<"extras", find.show, find.what>>
    BY <1>3 DEF Destination, Base, ExtraBase, Path
  <2>2. path.base[1] = "extras" /\ path.base[2] = find.show /\ path.base[3] = find.what
    BY <2>1
  <2> HIDE DEF path
  <2>3. FoundAt(f, path) = [as |-> "extra", show |-> find.show, what |-> find.what,
                            kind |-> "extra"]
    BY <2>2 DEF FoundAt
  <2>4. Base(FoundAt(f, path)) = <<"extras", find.show, find.what>>
    BY <2>3 DEF Base, ExtraBase
  <2>5. Destination(f, FoundAt(f, path)) = Path(path.base, <<ExtensionOf[f]>>)
    BY <2>1, <2>4 DEF Destination
  <2>6. AtHome(f, path)
    BY <1>1, <2>5 DEF AtHome
  <2> QED
    BY <2>6 DEF path
<1> QED
  BY <1>2, <1>3

\* The members of a collision go to one place, but for the extension.
LEMMA CollisionKin ==
  ASSUME NEW records, RecordsOK(records),
         \A f \in DOMAIN records : Grounded(f, records[f]),
         NEW f \in Candidates(records), NEW g \in Collision(f, records)
  PROVE  records[g].dest.base = records[f].dest.base
<1>1. /\ g \in Candidates(records) /\ CollisionKey(g, records) = CollisionKey(f, records)
      /\ f \in DOMAIN records /\ g \in DOMAIN records
  BY DEF Collision, Candidates
<1>2. ASSUME NEW h \in Candidates(records)
      PROVE  \/ /\ CollisionKey(h, records) = records[h].dest
                /\ records[h].dest.base[1] \in {"season", "extras"}
             \/ /\ CollisionKey(h, records).base =
                     <<"episodes", records[h].find.show, records[h].find.what>>
                /\ records[h].dest.base = <<"season", records[h].find.show, records[h].find.what>>
  <2>1. h \in DOMAIN records /\ records[h].status \in {"matched", "extra"}
    BY DEF Candidates
  <2>2. RecordOK(records[h]) /\ records[h].dest = Destination(h, records[h].find)
    BY <2>1 DEF RecordsOK, Grounded, Claims
  <2>3. CASE Cardinality(Rivals(h, records)) > 1
    <3>1. Rivals(h, records) # {}
      BY <2>3, FS_EmptySet
    <3>2. records[h].find.as = "episode"
      BY <3>1 DEF Rivals
    <3>3. CollisionKey(h, records).base =
            <<"episodes", records[h].find.show, records[h].find.what>>
      BY <2>3 DEF CollisionKey, Path
    <3> QED
      BY <2>2, <3>2, <3>3, EpisodePlace
  <2>4. CASE ~(Cardinality(Rivals(h, records)) > 1)
    <3>1. CollisionKey(h, records) = records[h].dest
      BY <2>4 DEF CollisionKey
    <3>2. IsManaged(records[h].dest)
      BY <2>1, <2>2 DEF RecordOK
    <3> QED
      BY <3>1, <3>2 DEF IsManaged
  <2> QED
    BY <2>3, <2>4
<1>3. \A show, what : <<"episodes", show, what>>[1] \notin {"season", "extras"}
  OBVIOUS
<1>4. \A show, what, other, those : <<"episodes", show, what>> = <<"episodes", other, those>> =>
        show = other /\ what = those
  OBVIOUS
<1> QED
  BY <1>1, <1>2, <1>3, <1>4

LEMMA DecideKept ==
  ASSUME NEW records, Undecided(records), NEW preferred,
         \A f \in DOMAIN records : Rooted(records[f])
  PROVE  Kept(DecideDuplicates(records, preferred))
<1> DEFINE decided == DecideDuplicates(records, preferred)
           group(f) == Collision(f, records)
           winner(f) == IF \A g \in group(f) : records[g].find = records[f].find
                        THEN Winner(group(f), Ranks(records, preferred)) ELSE {}
           decision(f) == Decision(CollisionKey(f, records), group(f), records, winner(f))
<1>1. RecordsOK(records) /\ DOMAIN decided = DOMAIN records
  BY DecideKeeps DEF Undecided
<1>2. ASSUME NEW f \in DOMAIN records
      PROVE  /\ decided[f].at = records[f].at /\ decided[f].find = records[f].find
             /\ decided[f].dest = records[f].dest
             /\ f \notin Candidates(records) \/ Cardinality(group(f)) = 1 =>
                  decided[f] = records[f]
             /\ f \in Candidates(records) /\ Cardinality(group(f)) # 1 =>
                  decided[f].dup = {decision(f)} /\ (Goes(decided[f]) => f \in winner(f))
  BY <1>1, <1>2, DecideSays
<1>3. \A f \in DOMAIN records : decision(f).candidates = {records[g].at : g \in group(f)}
  BY DEF Decision
<1>4. \A f \in Candidates(records) : f \in DOMAIN records /\ Claims(records[f])
  BY DEF Candidates, Claims
<1>5. \A f \in DOMAIN records : group(f) \subseteq DOMAIN records
  BY DEF Collision, Candidates
<1>6. \A f \in DOMAIN records : records[f].dup = {} /\ Grounded(f, records[f])
  BY DEF Undecided
<1> HIDE DEF decided, group, winner, decision
<1>7. ASSUME NEW f \in DOMAIN records
      PROVE  Rooted(decided[f])
  <2>1. Claims(decided[f]) => Claims(records[f])
    BY <1>2, <1>4
  <2> QED
    BY <1>2, <2>1 DEF Rooted
<1>8. ASSUME NEW f \in DOMAIN records, NEW g \in DOMAIN records, NEW d \in decided[f].dup,
             decided[g].at \in d.candidates
      PROVE  decided[g].dest.base = decided[f].dest.base
  <2>1. f \in Candidates(records) /\ d = decision(f)
    BY <1>2, <1>6
  <2>2. PICK h \in group(f) : records[h].at = records[g].at
    BY <1>2, <1>3, <1>8, <2>1
  <2>3. h = g
    BY <1>5, <2>2 DEF Undecided
  <2>4. records[g].dest.base = records[f].dest.base
    BY <1>1, <1>6, <2>1, <2>2, <2>3, CollisionKin DEF group
  <2> QED
    BY <1>2, <2>4
<1>9. \A f, g \in DOMAIN records : f # g => decided[f].at # decided[g].at
  BY <1>2 DEF Undecided
<1> QED
  BY <1>1, <1>7, <1>8, <1>9 DEF Kept, Kin, decided

-------------------------------------------------------------------------------
(* The steps of the command. *)

LEMMA CompanionsSomewhere ==
  ASSUME NEW on, NEW seen, NEW records
  PROVE  Somewhere(PlanCompanions(DiscoverSidecars(on, seen), records))
<1> DEFINE sidecars == DiscoverSidecars(on, seen)
<1>1. DOMAIN sidecars = Adjacent(on, seen)
      /\ \A s \in DOMAIN sidecars : sidecars[s].at = on[s].at /\ on[s].at # Nowhere
  BY DEF DiscoverSidecars, Adjacent
<1> HIDE DEF sidecars
<1>2. \A s : CompanionOf(sidecars[s], s, records).at = sidecars[s].at
  BY DEF CompanionOf
<1>3. Somewhere(PlanCompanions(sidecars, records))
  BY <1>1, <1>2 DEF Somewhere, PlanCompanions
<1> QED
  BY <1>3 DEF sidecars

LEMMA CommandKept ==
  ASSUME KeptInv, OnceInv', Draws,
         command'.pc # "idle" => Reading(command'.seen),
         command'.pc \in Drawing => Kept(command'.records) /\ Somewhere(command'.companions),
         command'.pc \in {"extended", "binding", "planned"} => Closed(command'.records)
  PROVE  KeptInv'
<1>1. /\ library' = library /\ catalog' = catalog /\ plan' = plan /\ finds' = finds
      /\ touched' = touched /\ saved' = saved /\ outdated' = outdated
  BY DEF Draws, Reads
<1>2. LastCopyStays' /\ Remembered' /\ touched' \subseteq Files
  BY <1>1 DEF KeptInv, LastCopyStays, Remembered, NobodyRemoved
<1>3. \A f \in Videos : AtHome(f, library[f].at)'
  BY <1>1 DEF KeptInv, AtHome, FoundAt
<1>4. Published'
  <2>1. Standing' /\ Resting'
    BY <1>1 DEF KeptInv, Published, Standing, Resting, HeldAt, NobodyRemoved
  <2>2. ASSUME NEW p \in Bundles
        PROVE  Bundled(p)' /\ Justified(p)'
    <3>1. Bundled(p) /\ Justified(p)
      BY DEF KeptInv, Published
    <3> QED
      BY <1>1, <3>1 DEF Bundled, Kept, Rooted, Kin, Somewhere, Justified, HeldAt
  <2>3. Bundles' = Bundles
    BY <1>1 DEF Bundles
  <2> QED
    BY <2>1, <2>2, <2>3 DEF Published
<1>5. Reading(command'.seen) => Reading(command.seen)'
  BY <1>1 DEF Reading, AtHome, FoundAt, NobodyRemoved
<1>6. Kept(command'.records) => Kept(command.records)'
  BY <1>1 DEF Kept, Rooted, Kin
<1>7. Somewhere(command'.companions) => Somewhere(command.companions)'
  BY DEF Somewhere
<1>8. Closed(command'.records) => Closed(command.records)'
  BY <1>1 DEF Closed
<1> QED
  BY <1>2, <1>3, <1>4, <1>5, <1>6, <1>7, <1>8 DEF KeptInv

LEMMA StopKept ==
  ASSUME KeptInv, OnceInv', Draws, command' = Idle
  PROVE  KeptInv'
<1>1. command'.pc = "idle"
  BY DEF Idle
<1>2. command'.pc \notin Drawing
  BY <1>1 DEF Drawing, Answering
<1> QED
  BY <1>1, <1>2, CommandKept

LEMMA ScanKept ==
  ASSUME KeptInv, Scan
  PROVE  KeptInv'
<1> DEFINE seen == Scanned(library)
<1>1. command' = [Idle EXCEPT !.pc = "scanned", !.seen = seen] \/ command' = Idle
  BY DEF Scan, GoesOn
<1>2. Draws
  BY DEF Scan
<1>3. OnceInv'
  BY ScanOnce DEF KeptInv
<1>4. DOMAIN seen = {f \in Videos : library[f].at = Inbox(f) \/ IsManaged(library[f].at)}
      /\ \A f \in DOMAIN seen : seen[f] = library[f]
  BY DEF Scanned
<1> HIDE DEF seen
<1>5. Reading(seen)
  BY <1>4, PlacesOf DEF Reading, KeptInv
<1>6. CASE command' = Idle
  BY <1>2, <1>3, <1>6, StopKept
<1>7. CASE command' = [Idle EXCEPT !.pc = "scanned", !.seen = seen]
  <2>1. command' = [pc |-> "scanned", seen |-> seen, records |-> Empty, companions |-> Empty,
                    again |-> Empty]
    BY <1>7, IdleOK, CommandSees DEF Idle
  <2>2. command'.pc = "scanned" /\ command'.seen = seen /\ command'.pc \notin Drawing
    BY <2>1 DEF Drawing, Answering
  <2> QED
    BY <1>2, <1>3, <1>5, <2>2, CommandKept
<1> QED
  BY <1>1, <1>6, <1>7

LEMMA RecordsKept ==
  ASSUME KeptInv, OnceInv', Draws, command.pc # "idle",
         NEW pc, NEW records, NEW companions, Kept(records), Somewhere(companions),
         pc # "drafted" => Closed(records), DrawsUp(pc, records, companions)
  PROVE  KeptInv'
<1>1. IsCommand(command)
  BY DEF KeptInv, OnceInv, PlanningInv, CommandOK
<1>2. /\ command'.pc = pc /\ command'.seen = command.seen /\ command'.records = records
      /\ command'.companions = companions
  BY <1>1, CommandDraws
<1>3. Reading(command.seen)
  BY DEF KeptInv
<1> QED
  BY <1>2, <1>3, CommandKept

\* What is drafted for a file that is organized is its place.
LEMMA RecordRooted ==
  ASSUME NEW f, NEW seen, AtHome(f, seen.at), NEW status, NEW find, NEW dest,
         status \in {"matched", "extra"} => dest = Destination(f, FoundAt(f, seen.at))
  PROVE  Rooted(Record(seen, status, find, dest))
<1> DEFINE r == Record(seen, status, find, dest)
<1>1. r.at = seen.at /\ r.status = status /\ r.dest = dest /\ r.dup = {}
  BY RecordShape
<1> HIDE DEF r
<1>2. Rooted(r)
  BY <1>1 DEF Rooted, AtHome, Claims
<1> QED
  BY <1>2 DEF r

LEMMA DraftRooted ==
  ASSUME finds \in Findings, NEW seen, DOMAIN seen \subseteq Videos, Reading(seen),
         NEW found, NEW held, \A f \in DOMAIN seen : found[f] = FoundAt(f, seen[f].at),
         NEW f \in DOMAIN seen
  PROVE  Rooted(Draft(seen, found, held)[f])
<1> DEFINE r == Draft(seen, found, held)[f]
<1>1. AtHome(f, seen[f].at) /\ found[f] = FoundAt(f, seen[f].at)
  BY DEF Reading
<1>3. CASE f \in held
  <2>1. r = Record(seen[f], "held", Unclear("held", ""), Nowhere)
    BY <1>3 DEF Draft
  <2> HIDE DEF r
  <2>2. Rooted(r)
    BY <1>1, <2>1, RecordRooted
  <2> QED
    BY <2>2 DEF r
<1>4. CASE f \notin held /\ Identified(found[f])
  <2> DEFINE assigned == found[f].as = "episode" =>
                           Assigned(f, ClaimsBeside(f, seen, found, held))
  <2>1. r = Placed(f, seen[f], found[f], assigned)
    BY <1>4 DEF Draft
  <2> HIDE DEF assigned, r
  <2>6. Rooted(r)
    <3>1. CASE r = Record(seen[f], "suspicious", found[f], Nowhere)
      BY <1>1, <3>1, RecordRooted
    <3>2. CASE r = Record(seen[f], "unresolved", found[f], Nowhere)
      BY <1>1, <3>2, RecordRooted
    <3>3. CASE r = Record(seen[f], "extra", found[f], Destination(f, found[f]))
      BY <1>1, <3>3, RecordRooted
    <3>4. CASE r = Record(seen[f], "matched", found[f], Destination(f, found[f]))
      BY <1>1, <3>4, RecordRooted
    <3> QED
      BY <2>1, <3>1, <3>2, <3>3, <3>4 DEF Placed
  <2> QED
    BY <2>6 DEF r
<1>5. CASE f \notin held /\ ~Identified(found[f])
  <2>1. r = Record(seen[f], found[f].as, found[f], Nowhere)
    BY <1>5 DEF Draft
  <2>2. found[f].as \in {"episode", "extra", "suspicious", "unresolved"}
    BY <1>1, FoundKinds
  <2>3. found[f].as \notin {"matched", "extra"}
    BY <1>5, <2>2 DEF Identified
  <2> HIDE DEF r
  <2>4. Rooted(r)
    BY <1>1, <2>1, <2>3, RecordRooted
  <2> QED
    BY <2>4 DEF r
<1> QED
  BY <1>3, <1>4, <1>5

LEMMA DraftPlanKept ==
  ASSUME KeptInv, DraftPlan
  PROVE  KeptInv'
<1> DEFINE seen == command.seen
           held == {f \in DOMAIN seen : seen[f].at \in catalog.holds}
           found == [f \in DOMAIN seen |-> FoundAt(f, seen[f].at)]
           drafted == Draft(seen, found, held)
           records == DecideDuplicates(drafted, PreferredPaths)
           companions == PlanCompanions(DiscoverSidecars(library, seen), records)
           next(pc) == [command EXCEPT !.pc = pc, !.records = records,
                                       !.companions = companions]
<1>1. command' = Idle \/ \E pc \in Drafted : command' = next(pc)
  BY DEF DraftPlan, GoesOn
<1>2. Draws /\ command.pc = "scanned"
  BY DEF DraftPlan
<1>3. PlanningInv /\ OnceInv' /\ finds \in Findings
  BY DraftPlanOnce DEF KeptInv, OnceInv, PlanningInv
<1>4. DOMAIN seen \subseteq Videos /\ SeenAll(seen) /\ Reading(seen)
  BY <1>2 DEF KeptInv, OnceInv, PlanningInv, CommandOK
<1>5. \A f \in held : ReviewedHere(seen[f].at)
  BY DEF ReviewedHere
<1>6. \A f \in DOMAIN seen : found[f] = FoundAt(f, seen[f].at)
  OBVIOUS
<1>7. Somewhere(companions)
  BY CompanionsSomewhere
<1> HIDE DEF found, held, seen, companions
<1>8. DOMAIN drafted = DOMAIN seen /\ Undecided(drafted)
  BY <1>3, <1>4, <1>5, <1>6, DraftUndecided
<1>9. \A f \in DOMAIN seen : Rooted(drafted[f])
  BY <1>3, <1>4, <1>6, DraftRooted
<1> HIDE DEF drafted
<1>10. Kept(records)
  BY <1>8, <1>9, DecideKept
<1> HIDE DEF records
<1>11. CASE command' = Idle
  BY <1>2, <1>3, <1>11, StopKept
<1>12. ASSUME NEW pc \in Drafted, command' = next(pc)
       PROVE  KeptInv'
  <2>1. DrawsUp(pc, records, companions)
    BY <1>12 DEF DrawsUp
  <2>2. pc # "drafted" => catalog.sources = {}
    BY DEF Drafted, Reviewed, NoCatalog
  <2>3. pc # "drafted" => Closed(records)
    BY <2>2 DEF Closed
  <2> QED
    BY <1>2, <1>3, <1>7, <1>10, <2>1, <2>3, RecordsKept
<1> QED
  BY <1>1, <1>11, <1>12

\* An answer moves what is organized, and is in the contract.
LEMMA AnsweredRooted ==
  ASSUME PlanningInv, Drawn(command.seen, command.records), NEW f \in DOMAIN command.records,
         Rooted(command.records[f]), Answerable(f)
  PROVE  Rooted(Answered(f))
<1> DEFINE r == command.records[f]
           a == Answered(f)
<1>1. RecordOK(r) /\ r.at = command.seen[f].at /\ Rooted(r)
  BY DEF PlanningInv, CommandOK, RecordsOK, Drawn
<1>2. CASE Decided(f) = {} /\ r.dup = {}
  <2>1. a = r
    BY <1>2 DEF Answered, Cleared
  <2> QED
    BY <1>1, <2>1
<1>3. CASE Decided(f) = {} /\ r.dup # {}
  <2> DEFINE status == IF r.find.as = "extra" THEN "extra" ELSE "matched"
  <2>1. a = [r EXCEPT !.dup = {}, !.status = status]
    BY <1>3 DEF Answered, Cleared
  <2>2. IsRecord(r) /\ Claims(r)
    BY <1>1, <1>3 DEF RecordOK, Claims
  <2> HIDE DEF r, status, a
  <2>3. a = [at |-> r.at, version |-> r.version, status |-> status, find |-> r.find,
             dest |-> r.dest, dup |-> {}]
    BY <2>1, <2>2 DEF IsRecord
  <2>4. a.at = r.at /\ a.dest = r.dest
    BY <2>3
  <2>5. Rooted(a)
    BY <1>1, <2>2, <2>4 DEF Rooted
  <2> QED
    BY <2>5 DEF a
<1>4. CASE Decided(f) # {}
  <2>1. PICK d \in Decided(f) : d = CHOOSE e \in Decided(f) : TRUE
    BY <1>4
  <2> DEFINE status == IF d.find.as = "extra" THEN "extra" ELSE "matched"
  <2>2. a = Record(command.seen[f], status, d.find, Destination(f, d.find))
    BY <1>4, <2>1 DEF Answered
  <2>3. d \in catalog.sources /\ d.at = r.at
    BY DEF Decided
  <2> HIDE DEF r, status, a
  <2>4. a.at = r.at
    BY <1>1, <2>2, RecordShape
  <2>5. Rooted(a)
    BY <2>3, <2>4 DEF Rooted
  <2> QED
    BY <2>5 DEF a
<1> QED
  BY <1>2, <1>3, <1>4

\* A source that was answered goes, or a decision on duplicates says why not.
LEMMA AnsweredClosed ==
  ASSUME PlanningInv, Drawn(command.seen, command.records), NEW answered,
         answered = [f \in DOMAIN command.records |-> Answered(f)], RecordsOK(answered)
  PROVE  Closed(DecideDuplicates(answered, PreferredPaths))
<1> DEFINE decided == DecideDuplicates(answered, PreferredPaths)
<1>1. DOMAIN answered = DOMAIN command.records /\ DOMAIN decided = DOMAIN answered
  BY DecideKeeps
<1>2. ASSUME NEW f \in DOMAIN command.records, NEW d \in catalog.sources,
             IsHeldItem(decided[f]), d.at = decided[f].at
      PROVE  FALSE
  <2>1. /\ decided[f].at = answered[f].at
        /\ \/ decided[f] = answered[f] \/ decided[f].dup # {}
    <3> DEFINE group == Collision(f, answered)
               winner == IF \A g \in group : answered[g].find = answered[f].find
                         THEN Winner(group, Ranks(answered, PreferredPaths)) ELSE {}
    <3>1. /\ decided[f].at = answered[f].at
          /\ f \notin Candidates(answered) \/ Cardinality(group) = 1 => decided[f] = answered[f]
          /\ f \in Candidates(answered) /\ Cardinality(group) # 1 =>
               decided[f].dup = {Decision(CollisionKey(f, answered), group, answered, winner)}
      BY <1>1, DecideSays
    <3> HIDE DEF group, winner, decided
    <3> QED
      BY <3>1
  <2>2. decided[f] = answered[f] /\ answered[f] = Answered(f)
    BY <1>2, <2>1 DEF IsHeldItem
  <2> DEFINE r == command.records[f]
  <2>3. r.at = command.seen[f].at /\ IsRecord(r)
    BY DEF Drawn, PlanningInv, CommandOK, RecordsOK, RecordOK
  <2>4. CASE Decided(f) = {}
    <3>1. Answered(f) = Cleared(r)
      BY <2>4 DEF Answered
    <3>2. Cleared(r).at = r.at
      BY <2>3 DEF Cleared, IsRecord
    <3> QED
      BY <1>2, <2>2, <2>4, <3>1, <3>2 DEF Decided
  <2>5. CASE Decided(f) # {}
    <3>1. PICK e : Answered(f) = Record(command.seen[f],
                                        IF e.find.as = "extra" THEN "extra" ELSE "matched",
                                        e.find, Destination(f, e.find))
      BY <2>5 DEF Answered
    <3>2. Answered(f).status \in {"extra", "matched"}
      BY <3>1, RecordShape
    <3> QED
      BY <1>2, <2>2, <3>2 DEF IsHeldItem
  <2> QED
    BY <2>4, <2>5
<1> HIDE DEF decided
<1>3. Closed(decided)
  BY <1>1, <1>2 DEF Closed
<1> QED
  BY <1>3 DEF decided

LEMMA RereadKept ==
  ASSUME KeptInv, Reread
  PROVE  KeptInv'
<1>1. IsCommand(command) /\ OnceInv'
  BY RereadOnce DEF KeptInv, OnceInv, PlanningInv, CommandOK
<1>2. /\ command'.pc = (IF command.pc = "drafted" THEN "extending" ELSE "binding")
      /\ command'.seen = command.seen /\ command'.records = command.records
      /\ command'.companions = command.companions /\ Draws
      /\ command.pc \in {"drafted", "extended"}
  BY <1>1, CommandRereads
<1>3. /\ Reading(command.seen) /\ Kept(command.records) /\ Somewhere(command.companions)
      /\ command.pc = "extended" => Closed(command.records)
  BY <1>2 DEF KeptInv, Drawing, Answering
<1> QED
  BY <1>1, <1>2, <1>3, CommandKept

LEMMA ExtendKept ==
  ASSUME KeptInv, Extend
  PROVE  KeptInv'
<1> DEFINE sidecars == DiscoverSidecars(library, command.again)
           answered == [f \in DOMAIN command.records |-> Answered(f)]
           records == DecideDuplicates(answered, PreferredPaths)
           companions == PlanCompanions(sidecars, records)
<1>1. \/ command' = Idle
      \/ /\ \A f \in DOMAIN command.records : Answerable(f)
         /\ command' = [command EXCEPT !.pc = "extended", !.records = records,
                                       !.companions = companions, !.again = Empty]
  BY DEF Extend, GoesOn
<1>2. Draws /\ command.pc = "extending"
  BY DEF Extend
<1>3. PlanningInv /\ OnceInv'
  BY ExtendOnce DEF KeptInv, OnceInv
<1>4. SeenAll(command.seen) /\ Drawn(command.seen, command.records) /\ Kept(command.records)
  BY <1>2 DEF KeptInv, OnceInv, Drawing, Answering
<1>5. CASE command' = Idle
  BY <1>2, <1>3, <1>5, StopKept
<1>6. CASE /\ \A f \in DOMAIN command.records : Answerable(f)
           /\ command' = [command EXCEPT !.pc = "extended", !.records = records,
                                         !.companions = companions, !.again = Empty]
  <2>1. Undecided(answered)
    BY <1>3, <1>4, <1>6, AnsweredUndecided
  <2>2. \A f \in DOMAIN answered : Rooted(answered[f])
    BY <1>3, <1>4, <1>6, AnsweredRooted DEF Kept
  <2>3. Somewhere(companions)
    BY CompanionsSomewhere
  <2>5. Closed(records)
    BY <1>3, <1>4, <2>1, AnsweredClosed DEF Undecided
  <2>6. DrawsUp("extended", records, companions)
    BY <1>6 DEF DrawsUp
  <2> HIDE DEF answered, companions
  <2>4. Kept(records)
    BY <2>1, <2>2, DecideKept
  <2> HIDE DEF records
  <2> QED
    BY <1>2, <1>3, <2>3, <2>4, <2>5, <2>6, RecordsKept
<1> QED
  BY <1>1, <1>5, <1>6

LEMMA RuledKept ==
  ASSUME PlanningInv, Disjoint, Kept(command.records), NEW ruled,
         ruled = [f \in DOMAIN command.records |->
                    IF \E g \in catalog.groups : f \in Members(g)
                    THEN Ruled(f, CHOOSE g \in catalog.groups : f \in Members(g))
                    ELSE command.records[f]]
  PROVE  Kept(ruled) /\ (Closed(command.records) => Closed(ruled))
<1>1. DOMAIN ruled = DOMAIN command.records
  OBVIOUS
<1>2. ASSUME NEW f \in DOMAIN command.records
      PROVE  /\ ruled[f].at = command.records[f].at /\ ruled[f].dest = command.records[f].dest
             /\ Claims(ruled[f]) => Claims(command.records[f])
             /\ IsHeldItem(ruled[f]) => IsHeldItem(command.records[f])
             /\ \A d \in ruled[f].dup : \E e \in command.records[f].dup :
                  e.candidates = d.candidates
  <2>1. CASE \E g \in catalog.groups : f \in Members(g)
    <3>1. PICK g \in catalog.groups : f \in Members(g) /\ ruled[f] = Ruled(f, g)
      BY <2>1
    <3> DEFINE decision == [key |-> g.key, candidates |-> g.candidates, winner |-> g.winner]
    <3>2. /\ ruled[f].at = command.records[f].at /\ ruled[f].dest = command.records[f].dest
          /\ ruled[f].dup = {decision} /\ Claims(command.records[f])
      BY <3>1, RuledSays
    <3>3. decision.candidates = g.candidates
      OBVIOUS
    <3>4. \E e \in command.records[f].dup : e.candidates = g.candidates
      BY <3>1 DEF Members
    <3> HIDE DEF decision
    <3>5. ~IsHeldItem(ruled[f])
      BY <3>2 DEF IsHeldItem
    <3> QED
      BY <3>2, <3>3, <3>4, <3>5
  <2>2. CASE ~\E g \in catalog.groups : f \in Members(g)
    <3>1. ruled[f] = command.records[f]
      BY <2>2
    <3> QED
      BY <3>1
  <2> QED
    BY <2>1, <2>2
<1>3. ASSUME NEW f \in DOMAIN ruled
      PROVE  Rooted(ruled[f])
  <2>1. f \in DOMAIN command.records
    BY <1>1
  <2>2. Rooted(command.records[f])
    BY <2>1 DEF Kept
  <2>3. /\ ruled[f].at = command.records[f].at /\ ruled[f].dest = command.records[f].dest
        /\ Claims(ruled[f]) => Claims(command.records[f])
    BY <1>2, <2>1
  <2> QED
    BY <2>2, <2>3 DEF Rooted
<1>4. Kin(ruled)
  <2>1. SUFFICES ASSUME NEW f \in DOMAIN ruled, NEW g \in DOMAIN ruled, NEW d \in ruled[f].dup,
                        ruled[g].at \in d.candidates
                 PROVE  ruled[g].dest.base = ruled[f].dest.base
    BY DEF Kin
  <2>2. PICK e \in command.records[f].dup : e.candidates = d.candidates
    BY <1>1, <1>2
  <2>3. command.records[g].at \in e.candidates
    BY <1>1, <1>2, <2>1, <2>2
  <2>4. command.records[g].dest.base = command.records[f].dest.base
    BY <1>1, <2>2, <2>3 DEF Kept, Kin
  <2> QED
    BY <1>1, <1>2, <2>4
<1>5. ASSUME NEW f \in DOMAIN ruled, NEW g \in DOMAIN ruled, f # g
      PROVE  ruled[f].at # ruled[g].at
  <2>1. command.records[f].at # command.records[g].at
    BY <1>1, <1>5 DEF Kept
  <2>2. ruled[f].at = command.records[f].at
    BY <1>1, <1>2
  <2>3. ruled[g].at = command.records[g].at
    BY <1>1, <1>2
  <2> QED
    BY <2>1, <2>2, <2>3
<1>6. ASSUME Closed(command.records)
      PROVE  Closed(ruled)
  BY <1>1, <1>2, <1>6 DEF Closed
<1> QED
  BY <1>3, <1>4, <1>5, <1>6 DEF Kept

LEMMA BindKept ==
  ASSUME KeptInv, Bind
  PROVE  KeptInv'
<1> DEFINE sidecars == DiscoverSidecars(library, command.again)
           ruled == [f \in DOMAIN command.records |->
                       IF \E g \in catalog.groups : f \in Members(g)
                       THEN Ruled(f, CHOOSE g \in catalog.groups : f \in Members(g))
                       ELSE command.records[f]]
           companions == PlanCompanions(sidecars, ruled)
<1>1. \/ command' = Idle
      \/ command' = [command EXCEPT !.pc = "planned", !.records = ruled,
                                    !.companions = companions, !.again = Empty]
  BY DEF Bind, GoesOn
<1>2. Draws /\ command.pc = "binding"
  BY DEF Bind
<1>3. PlanningInv /\ OnceInv' /\ Disjoint
  BY BindOnce DEF KeptInv, OnceInv
<1>4. Kept(command.records) /\ Closed(command.records)
  BY <1>2 DEF KeptInv, Drawing, Answering
<1>5. Kept(ruled) /\ Closed(ruled)
  BY <1>3, <1>4, RuledKept
<1>6. Somewhere(companions)
  BY CompanionsSomewhere
<1> HIDE DEF ruled, companions
<1>7. CASE command' = Idle
  BY <1>2, <1>3, <1>7, StopKept
<1>8. CASE command' = [command EXCEPT !.pc = "planned", !.records = ruled,
                                      !.companions = companions, !.again = Empty]
  <2>1. DrawsUp("planned", ruled, companions)
    BY <1>8 DEF DrawsUp
  <2> QED
    BY <1>2, <1>3, <1>5, <1>6, <2>1, RecordsKept
<1> QED
  BY <1>1, <1>7, <1>8

LEMMA PublishKept ==
  ASSUME KeptInv, Publish
  PROVE  KeptInv'
<1> DEFINE new == [NoPlan EXCEPT !.records = command.records,
                                 !.companions = command.companions, !.latest = TRUE]
           ready == PreflightReady(new, library)
<1>1. /\ plan' = [new EXCEPT !.ready = ready] /\ command' = Idle /\ Reads
      /\ command.pc = "planned" /\ saved' \subseteq saved \cup {Past(plan)}
  BY DEF Publish
<1>2. new = [records |-> command.records, companions |-> command.companions,
             ready |-> FALSE, latest |-> TRUE]
  BY PlanDrawnUp
<1> HIDE DEF new, ready
<1>3. plan' = [records |-> command.records, companions |-> command.companions,
               ready |-> ready, latest |-> TRUE]
  BY <1>1, <1>2
<1>4. plan'.records = command.records /\ plan'.companions = command.companions
  BY <1>3
<1>5. /\ library' = library /\ catalog' = catalog /\ finds' = finds /\ touched' = touched
      /\ outdated' = outdated
  BY <1>1 DEF Reads
<1>6. /\ Drawn(command.seen, command.records) /\ Reading(command.seen)
      /\ Kept(command.records) /\ Somewhere(command.companions) /\ Closed(command.records)
  BY <1>1 DEF KeptInv, OnceInv, Drawing, Answering
<1>7. Published'
  <2>1. \A f \in DOMAIN plan'.records :
          /\ plan'.records[f].at # Nowhere
          /\ NobodyRemoved => library[f].at = plan'.records[f].at
    BY <1>4, <1>6 DEF Drawn, Reading
  <2>2. Bundled(plan')
    BY <1>4, <1>6, <2>1 DEF Bundled
  <2>3. Bundled(plan) /\ PlanOK(plan) /\ \A p \in saved : Bundled(p)
    BY DEF KeptInv, Published, Bundles, OnceInv, PlanningInv, PublishedOK
  <2>4. Bundled(Past(plan))
    BY <2>3, PastOK DEF Bundled
  <2>5. \A p \in Bundles' : Bundled(p)
    BY <1>1, <2>2, <2>3, <2>4 DEF Bundles
  <2>6. ASSUME NEW p \in Bundles'
        PROVE  Bundled(p)' /\ Justified(p)'
    <3>1. Bundled(p)
      BY <2>5
    <3>2. ASSUME NEW f \in DOMAIN p.records, Leaves(p.records[f]),
                 NEW x \in DOMAIN plan'.records, plan'.records[x].at = p.records[f].at,
                 IsHeldItem(plan'.records[x])
          PROVE  FALSE
      <4>1. \E d \in catalog.sources : d.at = p.records[f].at
        BY <3>1, <3>2 DEF Bundled, Kept, Rooted, Leaves
      <4> QED
        BY <1>4, <1>6, <3>2, <4>1 DEF Closed
    <3> QED
      BY <1>5, <3>1, <3>2 DEF Bundled, Kept, Rooted, Kin, Somewhere, Justified, HeldAt
  <2>7. Standing' /\ Resting'
    <3>1. DOMAIN plan'.records \subseteq Videos
      BY <1>4 DEF KeptInv, OnceInv, PlanningInv, CommandOK, RecordsOK
    <3> QED
      BY <1>5, <2>1, <3>1 DEF Standing, Resting, NobodyRemoved
  <2> QED
    BY <2>6, <2>7 DEF Published
<1>8. LastCopyStays' /\ Remembered' /\ touched' \subseteq Files
      /\ \A f \in Videos : AtHome(f, library[f].at)'
  BY <1>5 DEF KeptInv, LastCopyStays, Remembered, NobodyRemoved, AtHome, FoundAt
<1>9. command'.pc = "idle" /\ OnceInv'
  BY <1>1, PublishOnce DEF Idle, KeptInv
<1> QED
  BY <1>7, <1>8, <1>9 DEF KeptInv, Drawing, Answering

-------------------------------------------------------------------------------
(* The other commands. *)

\* An answer leaves the contract only when another is given on the same source,
\* which the plan has in its place.
LEMMA SourcesKept ==
  ASSUME CatalogOK, NEW f \in DOMAIN plan.records, AnswerDuplicate(f) \/ AnswerSource(f),
         NEW d \in catalog.sources, d \notin catalog'.sources
  PROVE  IsHeldItem(plan.records[f]) /\ d.at = plan.records[f].at
<1>1. CASE AnswerDuplicate(f)
  <2>1. PICK decision : Contracted(decision)
    BY <1>1 DEF AnswerDuplicate
  <2>2. PICK groups : catalog' = [catalog EXCEPT !.groups = groups]
    BY <2>1 DEF Contracted
  <2>3. catalog' = [groups |-> groups, sources |-> catalog.sources, holds |-> catalog.holds]
    BY <2>2 DEF CatalogOK
  <2> QED
    BY <2>3
<1>2. CASE AnswerSource(f)
  <2> DEFINE at == plan.records[f].at
             others == {e \in catalog.sources : e.at # at}
             answer(find) == [at |-> at, binding |-> PlanBinding(f), find |-> find]
  <2>1. /\ IsHeldItem(plan.records[f])
        /\ \/ catalog' = [catalog EXCEPT !.sources = others, !.holds = catalog.holds \cup {at}]
           \/ \E find \in Answers :
                catalog' = [catalog EXCEPT !.sources = others \cup {answer(find)},
                                           !.holds = catalog.holds \ {at}]
    BY <1>2 DEF AnswerSource, CatalogOK
  <2>2. d \in others \/ d.at = at
    OBVIOUS
  <2> HIDE DEF others, answer, at
  <2>3. \/ catalog' = [groups |-> catalog.groups, sources |-> others,
                       holds |-> catalog.holds \cup {at}]
        \/ \E find \in Answers :
             catalog' = [groups |-> catalog.groups, sources |-> others \cup {answer(find)},
                         holds |-> catalog.holds \ {at}]
    BY <2>1 DEF CatalogOK
  <2>4. others \subseteq catalog'.sources
    BY <2>3
  <2> QED
    BY <2>1, <2>2, <2>4 DEF at
<1> QED
  BY <1>1, <1>2

LEMMA ReviewKept ==
  ASSUME KeptInv, Review
  PROVE  KeptInv'
<1>1. /\ plan' = Past(plan) /\ saved' = saved /\ outdated' = outdated
      /\ library' = library /\ command' = command
      /\ finds' = finds /\ touched' = touched /\ command.pc = "idle" /\ OnceInv'
  BY ReviewOnce DEF Review, Past, KeptInv
<1>2. CatalogOK
  BY DEF KeptInv, OnceInv, PlanningInv
<1>3. PICK x \in DOMAIN plan.records :
        \A d \in catalog.sources :
          d \in catalog'.sources \/ (IsHeldItem(plan.records[x]) /\ d.at = plan.records[x].at)
  BY <1>2, SourcesKept DEF Review
<1>4. plan' = [records |-> plan.records, companions |-> plan.companions, ready |-> plan.ready,
               latest |-> FALSE]
  BY <1>1, PastOK DEF KeptInv, OnceInv, PlanningInv, PublishedOK
<1>5. plan'.records = plan.records /\ plan'.companions = plan.companions
  BY <1>4
<1>6. /\ x \in Videos
      /\ IsHeldItem(plan.records[x]) => ~Claims(plan.records[x])
  BY DEF IsHeldItem, Claims, KeptInv, OnceInv, PlanningInv, PublishedOK, PlanOK, RecordsOK
<1>7. LastCopyStays'
  <2>1. SUFFICES ASSUME NobodyRemoved, NEW f \in Videos, library[f].at.base[1] = "quarantine",
                        \A g \in Videos : library[g].at.base # library[f].at.tail[1],
                        NEW d \in catalog.sources, d.at.base = library[f].at.tail[1],
                        \A e \in catalog'.sources : e.at.base # library[f].at.tail[1]
                 PROVE  FALSE
    BY <1>1 DEF KeptInv, LastCopyStays, NobodyRemoved
  <2>2. IsHeldItem(plan.records[x]) /\ d.at = plan.records[x].at
    BY <1>3, <2>1
  <2>3. IsManaged(d.at)
    BY <2>1 DEF KeptInv, Remembered, IsManaged
  <2>4. PICK e \in catalog.sources : e.at.base = d.at.base /\ ~HeldAt(e.at)
    BY <2>1, <2>2, <2>3 DEF KeptInv, Published, Standing
  <2>5. e \in catalog'.sources
    BY <1>3, <2>4 DEF HeldAt
  <2> QED
    BY <2>1, <2>4, <2>5
<1>8. Published'
  <2>1. ASSUME NEW d \in catalog.sources, ~HeldAt(d.at)
        PROVE  d \in catalog'.sources
    BY <1>3, <2>1 DEF HeldAt
  <2>2. \A path : HeldAt(path)' <=> HeldAt(path)
    BY <1>5 DEF HeldAt
  <2>3. ASSUME NEW p \in Bundles
        PROVE  Bundled(p)' /\ Justified(p)'
    <3>1. Bundled(p) /\ Justified(p)
      BY DEF KeptInv, Published
    <3>2. ASSUME NEW f \in DOMAIN p.records
          PROVE  Rooted(p.records[f])'
      <4>1. Rooted(p.records[f]) /\ (Leaves(p.records[f]) => ~HeldAt(p.records[f].at))
        BY <3>1 DEF Bundled, Kept, Justified
      <4> QED
        BY <2>1, <4>1 DEF Rooted, Leaves
    <3>3. Bundled(p)'
      BY <3>1, <3>2 DEF Bundled, Kept, Kin, Somewhere
    <3> QED
      BY <2>2, <3>1, <3>3 DEF Justified
  <2>4. ASSUME NEW q \in Bundles'
        PROVE  Bundled(q)' /\ Justified(q)'
    <3>1. PICK p \in Bundles : q.records = p.records /\ q.companions = p.companions
      BY <1>1, <1>5 DEF Bundles
    <3>2. Bundled(p)' /\ Justified(p)'
      BY <2>3
    <3> QED
      BY <3>1, <3>2 DEF Bundled, Justified
  <2>5. Standing'
    <3>1. SUFFICES ASSUME NobodyRemoved, NEW f \in DOMAIN plan.records,
                          IsHeldItem(plan.records[f]), IsManaged(plan.records[f].at),
                          \A g \in Videos : library[g].at.base # plan.records[f].at.base
                   PROVE  \E d \in catalog'.sources :
                            d.at.base = plan.records[f].at.base /\ ~HeldAt(d.at)
      BY <1>1, <1>5, <2>2 DEF Standing, NobodyRemoved
    <3> QED
      BY <2>1, <3>1 DEF KeptInv, Published, Standing
  <2>6. Resting'
    BY <1>1, <1>5 DEF KeptInv, Published, Resting, NobodyRemoved
  <2> QED
    BY <2>4, <2>5, <2>6 DEF Published
<1>9. Remembered' /\ touched' \subseteq Files /\ \A f \in Videos : AtHome(f, library[f].at)'
  BY <1>1 DEF KeptInv, Remembered, AtHome, FoundAt
<1> QED
  BY <1>1, <1>7, <1>8, <1>9 DEF KeptInv, Drawing, Answering

\* What an apply takes was there, and is where the plan says.
LEMMA ApplyPlaces ==
  ASSUME KeptInv, NEW p \in Bundles, NEW groups, Apply(p, groups)
  PROVE  /\ MembersOf(p, groups) \subseteq Moving(p)
         /\ \A x \in Files :
              library'[x].at = IF x \in MembersOf(p, groups) THEN Entry(p, x).dest
                               ELSE library[x].at
         /\ \A x \in MembersOf(p, groups) :
              library[x].at = Entry(p, x).at /\ library[x].at # Nowhere
<1> DEFINE moved == MembersOf(p, groups)
<1>1. /\ Current(p, library, moved)
      /\ library' = [x \in Files |-> IF x \in moved
                                     THEN [library[x] EXCEPT !.at = Entry(p, x).dest]
                                     ELSE library[x]]
  BY DEF Apply
<1>2. moved \subseteq Moving(p)
  BY DEF MembersOf
<1>3. LibraryOK
  BY DEF KeptInv, OnceInv, PlanningInv
<1>4. ASSUME NEW x \in Files
      PROVE  library'[x].at = IF x \in moved THEN Entry(p, x).dest ELSE library[x].at
  <2>1. library[x] = [at |-> library[x].at, version |-> library[x].version]
    BY <1>3 DEF LibraryOK
  <2>2. CASE x \in moved
    <3>1. library'[x] = [library[x] EXCEPT !.at = Entry(p, x).dest]
      BY <1>1, <2>2
    <3>2. library'[x] = [at |-> Entry(p, x).dest, version |-> library[x].version]
      BY <2>1, <3>1
    <3> QED
      BY <2>2, <3>2
  <2>3. CASE x \notin moved
    BY <1>1, <2>3
  <2> QED
    BY <2>2, <2>3
<1>5. ASSUME NEW x \in moved
      PROVE  library[x].at = Entry(p, x).at /\ library[x].at # Nowhere
  <2>1. Entry(p, x).at # Nowhere
    BY <1>2 DEF Moving, Entry, KeptInv, Published, Bundled, Somewhere
  <2> QED
    BY <1>1, <2>1 DEF Current, Unchanged
<1> QED
  BY <1>2, <1>4, <1>5

\* An apply takes videos from where the plan has them to where they belong.
LEMMA ApplyMoves ==
  ASSUME KeptInv, NEW p \in Bundles, NEW groups, Apply(p, groups)
  PROVE  /\ catalog' = catalog /\ command' = command /\ finds' = finds /\ touched' = touched
         /\ command.pc = "idle" /\ plan' = plan /\ saved' = saved
         /\ outdated' = {} => outdated = {} /\ p = plan
         /\ NobodyRemoved' => NobodyRemoved
         /\ \A f \in Videos :
              \/ library'[f].at = library[f].at
              \/ LET r == p.records[f] IN
                 /\ f \in DOMAIN p.records /\ Goes(r) /\ Claims(r)
                 /\ r.dest = Destination(f, r.find) /\ r.dest # r.at
                 /\ library[f].at = r.at /\ library'[f].at = r.dest
<1> DEFINE moved == MembersOf(p, groups)
<1>1. /\ p.ready /\ plan' = plan /\ saved' = saved /\ command.pc = "idle"
      /\ outdated' = {} => outdated = {} /\ p = plan
      /\ catalog' = catalog /\ command' = command /\ finds' = finds /\ touched' = touched
      /\ Current(p, library, moved)
      /\ library' = [x \in Files |-> IF x \in moved
                                     THEN [library[x] EXCEPT !.at = Entry(p, x).dest]
                                     ELSE library[x]]
  BY DEF Apply, Executes
<1>2. moved \subseteq Moving(p)
  BY DEF MembersOf
<1>3. /\ DOMAIN p.records \subseteq Videos /\ DOMAIN p.companions \subseteq Sidecars
      /\ LibraryOK /\ Videos \subseteq Files
  BY BundleOK DEF KeptInv, OnceInv, PlanningInv, PlanOK, RecordsOK, CompanionsOK, Files
<1>4. ASSUME NEW x \in Files
      PROVE  library'[x].at = IF x \in moved THEN Entry(p, x).dest ELSE library[x].at
  BY ApplyPlaces
<1>5. ASSUME NEW x \in moved
      PROVE  library[x].at # Nowhere
  BY ApplyPlaces
<1>6. ASSUME NEW f \in moved, f \in Videos
      PROVE  LET r == p.records[f] IN
             /\ f \in DOMAIN p.records /\ Goes(r) /\ Claims(r)
             /\ r.dest = Destination(f, r.find) /\ r.dest # r.at
             /\ library[f].at = r.at /\ library'[f].at = r.dest
  <2>1. f \in Files /\ f \notin DOMAIN p.companions
    BY <1>3, <1>6, RulesAssumption DEF Files
  <2>2. /\ f \in DOMAIN p.records /\ Goes(p.records[f])
        /\ p.records[f].dest # p.records[f].at
    BY <1>2, <2>1 DEF Moving, Goes
  <2>3. Entry(p, f) = p.records[f]
    BY <2>2 DEF Entry
  <2>4. Claims(p.records[f])
    BY <2>2 DEF Goes, Claims
  <2>5. p.records[f].dest = Destination(f, p.records[f].find)
    BY <1>1, <2>2, <2>4 DEF KeptInv, OnceInv, GroundedBundle, Grounded
  <2> QED
    BY <1>1, <1>4, <2>1, <2>2, <2>3, <2>4, <2>5 DEF Current, Unchanged
<1> HIDE DEF moved
<1>7. ASSUME NobodyRemoved'
      PROVE  NobodyRemoved
  <2>1. SUFFICES ASSUME NEW x \in touched
                 PROVE  library[x].at # Nowhere
    BY DEF NobodyRemoved
  <2>2. library'[x].at # Nowhere
    BY <1>1, <1>7 DEF NobodyRemoved
  <2>3. x \in Files
    BY DEF KeptInv
  <2>4. CASE x \in moved
    BY <1>5, <2>4
  <2>5. CASE x \notin moved
    BY <1>4, <2>2, <2>3, <2>5
  <2> QED
    BY <2>4, <2>5
<1>8. ASSUME NEW f \in Videos, library'[f].at # library[f].at
       PROVE  f \in moved
  BY <1>3, <1>4, <1>8
<1> QED
  BY <1>1, <1>6, <1>7, <1>8

\* What an apply moves from the layout was answered for.
LEMMA ApplyKept ==
  ASSUME KeptInv, NEW p \in Bundles, NEW groups, Apply(p, groups)
  PROVE  KeptInv'
<1> DEFINE moves(f) == LET r == p.records[f] IN
             /\ f \in DOMAIN p.records /\ Goes(r) /\ Claims(r)
             /\ r.dest = Destination(f, r.find) /\ r.dest # r.at
             /\ library[f].at = r.at /\ library'[f].at = r.dest
<1>1. /\ catalog' = catalog /\ command' = command /\ finds' = finds /\ touched' = touched
      /\ command.pc = "idle" /\ plan' = plan /\ saved' = saved
      /\ outdated' = {} => outdated = {} /\ p = plan
      /\ NobodyRemoved' => NobodyRemoved
      /\ \A f \in Videos : library'[f].at = library[f].at \/ moves(f)
  BY ApplyMoves
<1>2. OnceInv'
  BY ApplyOnce DEF KeptInv
<1>3. LastCopyStays'
  <2>1. SUFFICES ASSUME NobodyRemoved, NEW f \in Videos, library'[f].at.base[1] = "quarantine"
                 PROVE  \/ \E g \in Videos : library'[g].at.base = library'[f].at.tail[1]
                        \/ \E d \in catalog.sources : d.at.base = library'[f].at.tail[1]
    BY <1>1 DEF LastCopyStays
  <2>2. library'[f].at = library[f].at
    <3>1. moves(f) => IsManaged(library'[f].at)
      BY PlacesOf
    <3> QED
      BY <1>1, <2>1, <3>1 DEF IsManaged
  <2>3. library[f].at.base[1] = "quarantine"
    BY <2>1, <2>2
  <2>4. CASE \E d \in catalog.sources : d.at.base = library[f].at.tail[1]
    BY <2>2, <2>4
  <2>5. ASSUME NEW g \in Videos, library[g].at.base = library[f].at.tail[1]
        PROVE  \/ \E h \in Videos : library'[h].at.base = library[f].at.tail[1]
               \/ \E d \in catalog.sources : d.at.base = library[f].at.tail[1]
    <3>1. CASE library'[g].at = library[g].at
      BY <2>5, <3>1
    <3>2. CASE moves(g)
      <4>1. IsManaged(p.records[g].at)
        <5>1. library[f].at.tail[1][1] \in {"season", "extras"}
          BY <2>3 DEF KeptInv, Remembered
        <5> QED
          BY <2>5, <3>2, <5>1 DEF IsManaged
      <4>2. PICK d \in catalog.sources : d.at = p.records[g].at
        BY <3>2, <4>1 DEF KeptInv, Published, Bundled, Kept, Rooted
      <4> QED
        BY <2>5, <3>2, <4>2
    <3> QED
      BY <1>1, <3>1, <3>2
  <2> QED
    BY <2>1, <2>2, <2>3, <2>4, <2>5 DEF KeptInv, LastCopyStays
<1>4. ASSUME NEW f \in Videos
      PROVE  /\ library'[f].at.base[1] = "quarantine" =>
                  library'[f].at.tail[1][1] \in {"season", "extras"}
             /\ AtHome(f, library'[f].at)
  <2>1. CASE moves(f)
    <3>1. library'[f].at = Destination(f, p.records[f].find)
      BY <2>1
    <3>2. IsManaged(library'[f].at) /\ AtHome(f, library'[f].at)
      BY <3>1, PlacesOf, DestinationIsHome
    <3> QED
      BY <3>2 DEF IsManaged
  <2>2. CASE library'[f].at = library[f].at
    BY <2>2 DEF KeptInv, Remembered
  <2> QED
    BY <1>1, <2>1, <2>2
<1>5. Remembered' /\ \A f \in Videos : AtHome(f, library[f].at)'
  BY <1>1, <1>4 DEF Remembered, AtHome, FoundAt
<1>6. Published'
  <2>1. ASSUME NEW q \in Bundles
        PROVE  Bundled(q)' /\ Justified(q)'
    <3>1. Bundled(q) /\ Justified(q)
      BY DEF KeptInv, Published
    <3> QED
      BY <1>1, <3>1 DEF Bundled, Kept, Rooted, Kin, Somewhere, Justified, HeldAt
  <2>2. Bundles' = Bundles
    BY <1>1 DEF Bundles
  <2>3. Standing'
    <3>1. SUFFICES ASSUME NobodyRemoved, NEW f \in DOMAIN plan.records,
                          IsHeldItem(plan.records[f]), IsManaged(plan.records[f].at),
                          NEW g \in Videos, library[g].at.base = plan.records[f].at.base,
                          library'[g].at # library[g].at
                   PROVE  \E d \in catalog.sources :
                            d.at.base = plan.records[f].at.base /\ ~HeldAt(d.at)
      BY <1>1 DEF Standing, HeldAt, KeptInv, Published
    <3>2. moves(g)
      BY <1>1, <3>1
    <3>3. IsManaged(p.records[g].at) /\ p.records[g].at.base = plan.records[f].at.base
      BY <3>1, <3>2 DEF IsManaged
    <3>4. Bundled(p) /\ Justified(p)
      BY DEF KeptInv, Published
    <3>5. PICK d \in catalog.sources : d.at = p.records[g].at
      BY <3>2, <3>3, <3>4 DEF Bundled, Kept, Rooted
    <3>6. ~HeldAt(p.records[g].at)
      BY <3>2, <3>3, <3>4 DEF Justified, Leaves
    <3> QED
      BY <3>3, <3>5, <3>6
  <2>4. Resting'
    <3>1. SUFFICES ASSUME NobodyRemoved', outdated' = {}, NEW f \in DOMAIN plan.records,
                          Rests(plan.records[f])
                   PROVE  library'[f].at = plan.records[f].at
      BY <1>1 DEF Resting
    <3>2. f \in Videos
      BY DEF KeptInv, OnceInv, PlanningInv, PublishedOK, PlanOK, RecordsOK
    <3>3. library'[f].at = library[f].at
      BY <1>1, <3>1, <3>2 DEF Rests, Goes
    <3> QED
      BY <1>1, <3>1, <3>3 DEF KeptInv, Published, Resting
  <2> QED
    BY <2>1, <2>2, <2>3, <2>4 DEF Published
<1>7. touched' \subseteq Files /\ command'.pc = "idle"
  BY <1>1 DEF KeptInv
<1> QED
  BY <1>2, <1>3, <1>5, <1>6, <1>7 DEF KeptInv, Drawing, Answering

\* What a quarantine takes: the losers that are still there.
Taken(p) == {x \in QuarantineMembers(p) : library[x].at = Entry(p, x).at}

\* What a quarantine takes was where the plan has it.
LEMMA QuarantinePlaces ==
  ASSUME KeptInv, NEW p \in Bundles, Quarantine(p)
  PROVE  /\ \A x \in Files :
              library'[x].at = IF x \in Taken(p) THEN QuarantinePath(p, x) ELSE library[x].at
         /\ \A x \in Taken(p) : library[x].at = Entry(p, x).at /\ library[x].at # Nowhere
<1> DEFINE moved == Taken(p)
<1>1. /\ library' = [x \in Files |-> IF x \in moved
                                     THEN [library[x] EXCEPT !.at = QuarantinePath(p, x)]
                                     ELSE library[x]]
  BY DEF Quarantine, Taken
<1>2. LibraryOK
  BY DEF KeptInv, OnceInv, PlanningInv
<1>3. ASSUME NEW x \in Files
      PROVE  library'[x].at = IF x \in moved THEN QuarantinePath(p, x) ELSE library[x].at
  <2>1. library[x] = [at |-> library[x].at, version |-> library[x].version]
    BY <1>2 DEF LibraryOK
  <2>2. CASE x \in moved
    <3>1. library'[x] = [library[x] EXCEPT !.at = QuarantinePath(p, x)]
      BY <1>1, <2>2
    <3>2. library'[x] = [at |-> QuarantinePath(p, x), version |-> library[x].version]
      BY <2>1, <3>1
    <3> QED
      BY <2>2, <3>2
  <2>3. CASE x \notin moved
    BY <1>1, <2>3
  <2> QED
    BY <2>2, <2>3
<1>4. ASSUME NEW x \in moved
      PROVE  library[x].at = Entry(p, x).at /\ library[x].at # Nowhere
  <2>1. Entry(p, x).at # Nowhere
    BY DEF Taken, QuarantineMembers, Losers, Entry, KeptInv, Published, Bundled, Somewhere
  <2> QED
    BY <2>1 DEF Taken
<1> QED
  BY <1>3, <1>4

\* A quarantine takes losers from where the plan has them, into a directory that
\* tells where their winner went.
LEMMA QuarantineMoves ==
  ASSUME KeptInv, NEW p \in Bundles, Quarantine(p)
  PROVE  /\ catalog' = catalog /\ command' = command /\ finds' = finds /\ touched' = touched
         /\ plan' = plan /\ saved' = saved /\ command.pc = "idle"
         /\ outdated' = {} => outdated = {} /\ p = plan
         /\ NobodyRemoved' => NobodyRemoved
         /\ \A f \in Losers(p) :
              /\ f \in DOMAIN p.records /\ Claims(p.records[f]) /\ WinnerOf(p, f) # {}
              /\ \A g \in WinnerOf(p, f) :
                   /\ g \in DOMAIN p.records /\ g \in Videos
                   /\ Goes(p.records[g]) /\ Claims(p.records[g])
                   /\ \E d \in p.records[f].dup : p.records[g].at \in d.candidates
                   /\ p.records[g].dest.base = p.records[f].dest.base
                   /\ IsManaged(p.records[g].dest)
                   /\ library'[g].at = p.records[g].dest
         /\ \A f \in Videos :
              \/ library'[f].at = library[f].at
              \/ /\ f \in Losers(p) /\ library[f].at = p.records[f].at
                 /\ library'[f].at.base = <<"quarantine", f>>
                 /\ library'[f].at.tail[1] = p.records[f].dest.base
<1> DEFINE moved == Taken(p)
<1>1. /\ QuarantineDerivable(p) /\ WinnersInPlace(p)
      /\ library' = [x \in Files |-> IF x \in moved
                                     THEN [library[x] EXCEPT !.at = QuarantinePath(p, x)]
                                     ELSE library[x]]
      /\ catalog' = catalog /\ command' = command /\ finds' = finds /\ touched' = touched
      /\ plan' = plan /\ saved' = saved /\ command.pc = "idle"
      /\ outdated' = {} => outdated = {} /\ p = plan
  BY DEF Quarantine, Executes, Taken
<1>2. /\ DOMAIN p.records \subseteq Videos /\ DOMAIN p.companions \subseteq Sidecars
      /\ LibraryOK /\ Videos \subseteq Files
      /\ \A f \in DOMAIN p.records : RecordOK(p.records[f])
  BY BundleOK DEF KeptInv, OnceInv, PlanningInv, PlanOK, RecordsOK, CompanionsOK, Files
<1>3. ASSUME NEW x \in Files
      PROVE  library'[x].at = IF x \in moved THEN QuarantinePath(p, x) ELSE library[x].at
  BY QuarantinePlaces
<1>4. ASSUME NEW x \in moved
      PROVE  library[x].at # Nowhere
  BY QuarantinePlaces
<1>5. ASSUME NEW f \in moved, f \in Videos
      PROVE  f \in Losers(p) /\ library[f].at = p.records[f].at
  <2>1. f \in Losers(p)
    BY <1>2, <1>5, RulesAssumption DEF Taken, QuarantineMembers
  <2> QED
    BY <1>5, <2>1 DEF Losers, Entry, Taken
<1>6. ASSUME NEW f \in Losers(p)
      PROVE  /\ f \in DOMAIN p.records /\ Claims(p.records[f]) /\ WinnerOf(p, f) # {}
             /\ \A g \in WinnerOf(p, f) :
                  /\ g \in DOMAIN p.records /\ g \in Videos
                  /\ Goes(p.records[g]) /\ Claims(p.records[g])
                  /\ \E d \in p.records[f].dup : p.records[g].at \in d.candidates
                  /\ p.records[g].dest.base = p.records[f].dest.base
                  /\ IsManaged(p.records[g].dest)
                  /\ library'[g].at = p.records[g].dest
  <2>1. f \in DOMAIN p.records /\ p.records[f].status = "duplicate"
        /\ RecordOK(p.records[f])
    BY <1>2 DEF Losers
  <2>2. Claims(p.records[f]) /\ WinnerOf(p, f) # {}
    BY <1>1, <2>1 DEF RecordOK, Claims, QuarantineDerivable
  <2>3. ASSUME NEW g \in WinnerOf(p, f)
        PROVE  /\ g \in DOMAIN p.records /\ g \in Videos
               /\ Goes(p.records[g]) /\ Claims(p.records[g])
               /\ \E d \in p.records[f].dup : p.records[g].at \in d.candidates
               /\ p.records[g].dest.base = p.records[f].dest.base
               /\ IsManaged(p.records[g].dest)
               /\ library'[g].at = p.records[g].dest
    <3>1. g \in DOMAIN p.records /\ g \in Videos /\ Goes(p.records[g])
      BY <1>2 DEF WinnerOf, Candidates, Goes
    <3>2. Claims(p.records[g]) /\ g \notin Losers(p)
      BY <3>1 DEF Goes, Claims, Losers
    <3>3. library[g] = [at |-> p.records[g].dest, version |-> p.records[g].version]
      BY <1>1 DEF WinnersInPlace
    <3>4. library'[g].at = p.records[g].dest
      BY <1>2, <1>3, <1>5, <3>1, <3>2, <3>3
    <3>5. PICK d \in p.records[f].dup : p.records[g].at \in d.winner
      BY DEF WinnerOf
    <3>6. p.records[g].at \in d.candidates
      BY <2>1, <3>5 DEF RecordOK
    <3>7. p.records[g].dest.base = p.records[f].dest.base
      BY <2>1, <3>1, <3>5, <3>6 DEF KeptInv, Published, Bundled, Kept, Kin
    <3>8. IsManaged(p.records[g].dest)
      BY <1>2, <3>1 DEF RecordOK, Goes
    <3> QED
      BY <3>1, <3>2, <3>4, <3>5, <3>6, <3>7, <3>8
  <2> QED
    BY <2>1, <2>2, <2>3
<1>7. ASSUME NEW f \in moved, f \in Videos
      PROVE  /\ library'[f].at.base = <<"quarantine", f>>
             /\ library'[f].at.tail[1] = p.records[f].dest.base
  <2>1. f \in Losers(p) /\ f \in DOMAIN p.records /\ GroupOf(p, f) = {f}
    BY <1>5, <1>7 DEF Losers, GroupOf
  <2>2. (CHOOSE l \in GroupOf(p, f) : TRUE) = f
    BY <2>1
  <2>3. PICK g \in WinnerOf(p, f) : g = CHOOSE h \in WinnerOf(p, f) : TRUE
    BY <1>6, <2>1
  <2>4. QuarantinePath(p, f) = Path(<<"quarantine", f>>, <<p.records[g].dest.base>>)
    BY <2>2, <2>3 DEF QuarantinePath
  <2>5. library'[f].at = QuarantinePath(p, f)
    BY <1>2, <1>3, <1>7
  <2>6. p.records[g].dest.base = p.records[f].dest.base
    BY <1>6, <2>1
  <2> QED
    BY <2>4, <2>5, <2>6 DEF Path
<1>8. ASSUME NobodyRemoved'
      PROVE  NobodyRemoved
  <2>1. SUFFICES ASSUME NEW x \in touched
                 PROVE  library[x].at # Nowhere
    BY DEF NobodyRemoved
  <2>2. library'[x].at # Nowhere
    BY <1>1, <1>8 DEF NobodyRemoved
  <2>3. x \in Files
    BY DEF KeptInv
  <2> QED
    BY <1>3, <1>4, <2>2, <2>3
<1> HIDE DEF moved
<1>9. ASSUME NEW f \in Videos, library'[f].at # library[f].at
      PROVE  f \in moved
  BY <1>2, <1>3, <1>9
<1> QED
  BY <1>1, <1>5, <1>6, <1>7, <1>8, <1>9

\* What a quarantine takes from the layout was beaten by what lies there, or was
\* answered for.
LEMMA QuarantineKept ==
  ASSUME KeptInv, NEW p \in Bundles, Quarantine(p)
  PROVE  KeptInv'
<1> DEFINE moves(f) == /\ f \in Losers(p) /\ library[f].at = p.records[f].at
                       /\ library'[f].at.base = <<"quarantine", f>>
                       /\ library'[f].at.tail[1] = p.records[f].dest.base
<1>1. /\ catalog' = catalog /\ command' = command /\ finds' = finds /\ touched' = touched
      /\ plan' = plan /\ saved' = saved /\ command.pc = "idle"
      /\ outdated' = {} => outdated = {} /\ p = plan
      /\ NobodyRemoved' => NobodyRemoved
      /\ \A f \in Videos : library'[f].at = library[f].at \/ moves(f)
  BY QuarantineMoves
<1>2. ASSUME NEW f \in Losers(p)
      PROVE  /\ f \in DOMAIN p.records /\ Claims(p.records[f])
             /\ \E g \in Videos : /\ library'[g].at.base = p.records[f].dest.base
                                  /\ IsManaged(library'[g].at)
  <2>1. f \in DOMAIN p.records /\ Claims(p.records[f]) /\ WinnerOf(p, f) # {}
    BY QuarantineMoves
  <2>2. \A g \in WinnerOf(p, f) :
          /\ g \in Videos /\ p.records[g].dest.base = p.records[f].dest.base
          /\ IsManaged(p.records[g].dest) /\ library'[g].at = p.records[g].dest
    BY QuarantineMoves
  <2> QED
    BY <2>1, <2>2
<1>3. OnceInv'
  BY QuarantineOnce DEF KeptInv
<1>4. ASSUME NEW f \in Videos, moves(f)
      PROVE  \E g \in Videos : /\ library'[g].at.base = library'[f].at.tail[1]
                               /\ library'[f].at.tail[1][1] \in {"season", "extras"}
  BY <1>2, <1>4 DEF IsManaged
<1>5. LastCopyStays'
  <2>1. SUFFICES ASSUME NobodyRemoved, NEW f \in Videos, library'[f].at.base[1] = "quarantine"
                 PROVE  \/ \E g \in Videos : library'[g].at.base = library'[f].at.tail[1]
                        \/ \E d \in catalog.sources : d.at.base = library'[f].at.tail[1]
    BY <1>1 DEF LastCopyStays
  <2>2. CASE moves(f)
    BY <1>4, <2>2
  <2>3. CASE library'[f].at = library[f].at
    <3>1. CASE \E d \in catalog.sources : d.at.base = library[f].at.tail[1]
      BY <2>3, <3>1
    <3>2. ASSUME NEW g \in Videos, library[g].at.base = library[f].at.tail[1]
          PROVE  \/ \E h \in Videos : library'[h].at.base = library[f].at.tail[1]
                 \/ \E d \in catalog.sources : d.at.base = library[f].at.tail[1]
      <4>1. CASE library'[g].at = library[g].at
        BY <3>2, <4>1
      <4>2. CASE moves(g)
        <5>1. g \in DOMAIN p.records /\ Claims(p.records[g])
          BY <1>2, <4>2
        <5>2. IsManaged(p.records[g].at)
          <6>1. library[f].at.tail[1][1] \in {"season", "extras"}
            BY <2>1, <2>3 DEF KeptInv, Remembered
          <6> QED
            BY <3>2, <4>2, <6>1 DEF IsManaged
        <5>3. CASE p.records[g].dest = p.records[g].at
          BY <1>2, <3>2, <4>2, <5>3
        <5>4. CASE \E d \in catalog.sources : d.at = p.records[g].at
          BY <3>2, <4>2, <5>4
        <5> QED
          BY <5>1, <5>2, <5>3, <5>4 DEF KeptInv, Published, Bundled, Kept, Rooted
      <4> QED
        BY <1>1, <4>1, <4>2
    <3> QED
      BY <2>1, <2>3, <3>1, <3>2 DEF KeptInv, LastCopyStays
  <2> QED
    BY <1>1, <2>2, <2>3
<1>6. ASSUME NEW f \in Videos
      PROVE  /\ library'[f].at.base[1] = "quarantine" =>
                  library'[f].at.tail[1][1] \in {"season", "extras"}
             /\ AtHome(f, library'[f].at)
  <2>1. CASE moves(f)
    <3>1. ~IsManaged(library'[f].at)
      BY <2>1, InQuarantine
    <3> QED
      BY <1>4, <2>1, <3>1 DEF AtHome
  <2>2. CASE library'[f].at = library[f].at
    BY <2>2 DEF KeptInv, Remembered
  <2> QED
    BY <1>1, <2>1, <2>2
<1>7. Remembered' /\ \A f \in Videos : AtHome(f, library[f].at)'
  BY <1>1, <1>6 DEF Remembered, AtHome, FoundAt
<1>8. Published'
  <2>1. ASSUME NEW q \in Bundles
        PROVE  Bundled(q)' /\ Justified(q)'
    <3>1. Bundled(q) /\ Justified(q)
      BY DEF KeptInv, Published
    <3> QED
      BY <1>1, <3>1 DEF Bundled, Kept, Rooted, Kin, Somewhere, Justified, HeldAt
  <2>2. Bundles' = Bundles
    BY <1>1 DEF Bundles
  <2>3. Standing'
    <3>1. SUFFICES ASSUME NobodyRemoved, NEW f \in DOMAIN plan.records,
                          IsHeldItem(plan.records[f]), IsManaged(plan.records[f].at),
                          NEW g \in Videos, library[g].at.base = plan.records[f].at.base,
                          library'[g].at # library[g].at
                   PROVE  \/ \E h \in Videos : library'[h].at.base = plan.records[f].at.base
                          \/ \E d \in catalog.sources :
                               d.at.base = plan.records[f].at.base /\ ~HeldAt(d.at)
      BY <1>1 DEF Standing, HeldAt, KeptInv, Published
    <3>2. moves(g)
      BY <1>1, <3>1
    <3>3. IsManaged(p.records[g].at) /\ p.records[g].at.base = plan.records[f].at.base
      BY <3>1, <3>2 DEF IsManaged
    <3>4. g \in DOMAIN p.records /\ Claims(p.records[g])
          /\ \E h \in Videos : library'[h].at.base = p.records[g].dest.base
      BY <1>2, <3>2
    <3>5. Bundled(p) /\ Justified(p)
      BY DEF KeptInv, Published
    <3>6. CASE p.records[g].dest = p.records[g].at
      BY <3>3, <3>4, <3>6
    <3>7. CASE p.records[g].dest # p.records[g].at
      <4>1. PICK d \in catalog.sources : d.at = p.records[g].at
        BY <3>3, <3>4, <3>5, <3>7 DEF Bundled, Kept, Rooted
      <4>2. ~HeldAt(p.records[g].at)
        BY <3>3, <3>4, <3>5, <3>7 DEF Justified, Leaves
      <4> QED
        BY <3>3, <4>1, <4>2
    <3> QED
      BY <3>6, <3>7
  <2>4. Resting'
    <3>1. SUFFICES ASSUME NobodyRemoved', outdated' = {}, NEW f \in DOMAIN plan.records,
                          Rests(plan.records[f])
                   PROVE  library'[f].at = plan.records[f].at
      BY <1>1 DEF Resting
    <3>2. f \in Videos
      BY DEF KeptInv, OnceInv, PlanningInv, PublishedOK, PlanOK, RecordsOK
    <3>3. library'[f].at = library[f].at
      BY <1>1, <3>1, <3>2 DEF Rests, Losers
    <3> QED
      BY <1>1, <3>1, <3>3 DEF KeptInv, Published, Resting
  <2> QED
    BY <2>1, <2>2, <2>3, <2>4 DEF Published
<1>9. touched' \subseteq Files /\ command'.pc = "idle"
  BY <1>1 DEF KeptInv
<1> QED
  BY <1>3, <1>5, <1>7, <1>8, <1>9 DEF KeptInv, Drawing, Answering

\* Another program moves nothing; it takes a file away, or brings one.
LEMMA ChangeMoves ==
  ASSUME KeptInv, LibraryChange
  PROVE  /\ catalog' = catalog /\ command' = command /\ finds' = finds /\ plan' = plan
         /\ saved' = saved /\ outdated' = outdated
         /\ touched' \subseteq Files
         /\ NobodyRemoved' => NobodyRemoved
         /\ \A y \in Files :
              /\ library'[y].at \in {library[y].at, Nowhere, Inbox(y)}
              /\ NobodyRemoved' /\ library[y].at # Nowhere => library'[y].at = library[y].at
         /\ \A f \in Videos :
              /\ library'[f].at.base[1] = "quarantine" => library'[f].at = library[f].at
              /\ IsManaged(library'[f].at) => library'[f].at = library[f].at
<1>1. PICK x \in Files :
        (Appear(x) \/ Vanish(x) \/ Modify(x)) /\ touched' = touched \cup {x}
  BY DEF LibraryChange
<1>2. catalog' = catalog /\ command' = command /\ finds' = finds /\ plan' = plan
      /\ saved' = saved /\ outdated' = outdated
  BY DEF LibraryChange
<1>3. /\ library[x] = [at |-> library[x].at, version |-> library[x].version]
      /\ DOMAIN library = Files /\ Videos \subseteq Files
  BY DEF KeptInv, OnceInv, PlanningInv, LibraryOK, Files
<1>4. \A y \in Files \ {x} : library'[y] = library[y]
  BY <1>1, <1>3 DEF Appear, Vanish, Modify
<1>5. /\ Appear(x) => library'[x].at = Inbox(x) /\ library[x].at = Nowhere /\ x \notin touched
      /\ Vanish(x) => library'[x].at = Nowhere
      /\ Modify(x) => library'[x].at = library[x].at
  <2>1. ASSUME Appear(x)
        PROVE  library'[x].at = Inbox(x)
    <3>1. library'[x] = [library[x] EXCEPT !.at = Inbox(x)]
      BY <1>3, <2>1 DEF Appear
    <3>2. library'[x] = [at |-> Inbox(x), version |-> library[x].version]
      BY <1>3, <3>1
    <3> QED
      BY <3>2
  <2>2. ASSUME Vanish(x)
        PROVE  library'[x].at = Nowhere
    <3>1. library'[x] = [library[x] EXCEPT !.at = Nowhere]
      BY <1>3, <2>2 DEF Vanish
    <3>2. library'[x] = [at |-> Nowhere, version |-> library[x].version]
      BY <1>3, <3>1
    <3> QED
      BY <3>2
  <2>3. ASSUME Modify(x)
        PROVE  library'[x].at = library[x].at
    <3>1. library'[x] = [library[x] EXCEPT !.version = library[x].version + 1]
      BY <1>3, <2>3 DEF Modify
    <3>2. library'[x] = [at |-> library[x].at, version |-> library[x].version + 1]
      BY <1>3, <3>1
    <3> QED
      BY <3>2
  <2> QED
    BY <2>1, <2>2, <2>3 DEF Appear
<1>6. \A y \in Files : library'[y].at \in {library[y].at, Nowhere, Inbox(y)}
  BY <1>1, <1>4, <1>5
<1>7. ASSUME NobodyRemoved'
      PROVE  \A y \in Files : library[y].at # Nowhere => library'[y].at = library[y].at
  <2>1. library'[x].at # Nowhere
    BY <1>1, <1>7 DEF NobodyRemoved
  <2> QED
    BY <1>1, <1>4, <1>5, <2>1
<1>8. ASSUME NobodyRemoved'
      PROVE  NobodyRemoved
  <2>1. SUFFICES ASSUME NEW y \in touched, library[y].at = Nowhere
                 PROVE  FALSE
    BY DEF NobodyRemoved
  <2>2. library'[y].at # Nowhere
    BY <1>1, <1>8 DEF NobodyRemoved
  <2>3. y \in Files
    BY DEF KeptInv
  <2> QED
    BY <1>1, <1>4, <1>5, <2>1, <2>2, <2>3
<1>9. /\ Nowhere.base[1] \notin {"quarantine", "season", "extras"}
      /\ \A y : Inbox(y).base[1] \notin {"quarantine", "season", "extras"}
  BY DEF Nowhere, Inbox, Path
<1>10. ASSUME NEW f \in Videos
       PROVE  /\ library'[f].at.base[1] = "quarantine" => library'[f].at = library[f].at
              /\ IsManaged(library'[f].at) => library'[f].at = library[f].at
  <2>1. library'[f].at \in {library[f].at, Nowhere, Inbox(f)}
    BY <1>3, <1>6
  <2> QED
    BY <1>9, <2>1 DEF IsManaged
<1>11. touched' \subseteq Files
  BY <1>1 DEF KeptInv
<1> QED
  BY <1>2, <1>6, <1>7, <1>8, <1>10, <1>11

LEMMA ChangeKept ==
  ASSUME KeptInv, LibraryChange
  PROVE  KeptInv'
<1>1. /\ catalog' = catalog /\ command' = command /\ finds' = finds /\ plan' = plan
      /\ saved' = saved /\ outdated' = outdated
      /\ touched' \subseteq Files
      /\ NobodyRemoved' => NobodyRemoved
      /\ \A y \in Files :
           NobodyRemoved' /\ library[y].at # Nowhere => library'[y].at = library[y].at
      /\ \A f \in Videos :
           /\ library'[f].at.base[1] = "quarantine" => library'[f].at = library[f].at
           /\ IsManaged(library'[f].at) => library'[f].at = library[f].at
  BY ChangeMoves
<1>2. OnceInv' /\ Videos \subseteq Files /\ Nowhere.base[1] \notin {"season", "extras"}
  BY ChangeOnce DEF KeptInv, Files, Nowhere, Path
<1>3. LastCopyStays'
  <2>1. SUFFICES ASSUME NobodyRemoved', NEW f \in Videos,
                        library'[f].at.base[1] = "quarantine"
                 PROVE  \/ \E g \in Videos : library'[g].at.base = library'[f].at.tail[1]
                        \/ \E d \in catalog.sources : d.at.base = library'[f].at.tail[1]
    BY <1>1 DEF LastCopyStays
  <2>2. library'[f].at = library[f].at /\ NobodyRemoved
    BY <1>1, <2>1
  <2>3. library[f].at.tail[1][1] \in {"season", "extras"}
    BY <2>1, <2>2 DEF KeptInv, Remembered
  <2>4. ASSUME NEW g \in Videos, library[g].at.base = library[f].at.tail[1]
        PROVE  library'[g].at = library[g].at
    BY <1>1, <1>2, <2>1, <2>3, <2>4
  <2>5. \/ \E g \in Videos : library[g].at.base = library[f].at.tail[1]
        \/ \E d \in catalog.sources : d.at.base = library[f].at.tail[1]
    BY <2>1, <2>2 DEF KeptInv, LastCopyStays
  <2> QED
    BY <2>2, <2>4, <2>5
<1>4. Remembered' /\ \A f \in Videos : AtHome(f, library[f].at)'
  BY <1>1 DEF KeptInv, Remembered, AtHome, FoundAt
<1>5. ASSUME Reading(command.seen)
      PROVE  Reading(command.seen)'
  <2>1. DOMAIN command.seen \subseteq Videos
    BY DEF KeptInv, OnceInv, PlanningInv, CommandOK
  <2>2. ASSUME NEW f \in DOMAIN command.seen, NobodyRemoved'
        PROVE  library'[f].at = command.seen[f].at
    BY <1>1, <1>2, <1>5, <2>1, <2>2 DEF Reading
  <2>3. \A f \in DOMAIN command.seen :
          AtHome(f, command.seen[f].at) /\ command.seen[f].at # Nowhere
    BY <1>5 DEF Reading
  <2> QED
    BY <1>1, <2>2, <2>3 DEF Reading, AtHome, FoundAt
<1>6. Published'
  <2>1. ASSUME NEW q \in Bundles
        PROVE  Bundled(q)' /\ Justified(q)'
    <3>1. Bundled(q) /\ Justified(q)
      BY DEF KeptInv, Published
    <3> QED
      BY <1>1, <3>1 DEF Bundled, Kept, Rooted, Kin, Somewhere, Justified, HeldAt
  <2>2. Bundles' = Bundles
    BY <1>1 DEF Bundles
  <2>3. Standing'
    <3>1. SUFFICES ASSUME NobodyRemoved', NEW f \in DOMAIN plan.records,
                          IsHeldItem(plan.records[f]), IsManaged(plan.records[f].at),
                          NEW g \in Videos, library[g].at.base = plan.records[f].at.base
                   PROVE  library'[g].at.base = plan.records[f].at.base
      BY <1>1 DEF Standing, HeldAt, KeptInv, Published
    <3>2. library[g].at # Nowhere
      BY <1>2, <3>1 DEF IsManaged
    <3> QED
      BY <1>1, <1>2, <3>1, <3>2
  <2>4. Resting'
    <3>1. SUFFICES ASSUME NobodyRemoved', outdated = {}, NEW f \in DOMAIN plan.records,
                          Rests(plan.records[f])
                   PROVE  library'[f].at = plan.records[f].at
      BY <1>1 DEF Resting
    <3>2. f \in Videos /\ plan.records[f].at # Nowhere
      BY DEF KeptInv, OnceInv, PlanningInv, PublishedOK, PlanOK, RecordsOK, Published, Bundles, Bundled
    <3>3. library[f].at = plan.records[f].at
      BY <1>1, <3>1 DEF KeptInv, Published, Resting
    <3> QED
      BY <1>1, <1>2, <3>1, <3>2, <3>3
  <2> QED
    BY <2>1, <2>2, <2>3, <2>4 DEF Published
<1>7. Kept(command.records) /\ Somewhere(command.companions) =>
        Kept(command.records)' /\ Somewhere(command.companions)'
  BY <1>1 DEF Kept, Rooted, Kin, Somewhere
<1>8. Closed(command.records) => Closed(command.records)'
  BY <1>1 DEF Closed
<1> QED
  BY <1>1, <1>2, <1>3, <1>4, <1>5, <1>6, <1>7, <1>8 DEF KeptInv

LEMMA InitKept ==
  ASSUME PlanningInit
  PROVE  KeptInv
<1>1. OnceInv
  BY InitOnce
<1>2. ASSUME NEW f \in Videos
      PROVE  library[f].at.base[1] # "quarantine" /\ ~IsManaged(library[f].at)
  <2>1. library[f].at = Nowhere \/ library[f].at = Inbox(f)
    BY DEF PlanningInit, Files
  <2>2. Nowhere.base[1] # "quarantine" /\ Inbox(f).base[1] # "quarantine"
    BY DEF Nowhere, Inbox, Path
  <2> QED
    BY <2>1, <2>2, PlacesOf
<1>3. LastCopyStays /\ Remembered /\ \A f \in Videos : AtHome(f, library[f].at)
  BY <1>2 DEF LastCopyStays, Remembered, AtHome
<1>4. command.pc = "idle" /\ touched = {}
  BY DEF PlanningInit, Idle
<1>5. plan.records = Empty /\ plan.companions = Empty
  BY DEF PlanningInit, NoPlan
<1>6. Bundles = {plan}
  BY DEF PlanningInit, Bundles
<1>7. Published
  BY <1>5, <1>6, IdleOK DEF Published, Bundled, Justified, Standing, Resting, Kept, Kin, Somewhere
<1> QED
  BY <1>1, <1>3, <1>4, <1>7 DEF KeptInv, Drawing, Answering

LEMMA KeptNext ==
  ASSUME KeptInv, [PlanningNext]_planningVars
  PROVE  KeptInv'
<1>1. CASE UNCHANGED planningVars
  <2>1. OnceInv'
    BY <1>1, OnceNext DEF KeptInv
  <2>2. Draws /\ command' = command
    BY <1>1 DEF planningVars, Draws, Reads
  <2> QED
    BY <2>1, <2>2, CommandKept DEF KeptInv
<1>2. CASE PlanningNext
  BY <1>2, ScanKept, DraftPlanKept, RereadKept, ExtendKept, BindKept, PublishKept, ReviewKept,
     ApplyKept, QuarantineKept, ChangeKept, Zenon DEF PlanningNext
<1> QED
  BY <1>1, <1>2

LEMMA KeptInvariant == PlanningSpec => []KeptInv
<1>1. PlanningInit => KeptInv
  BY InitKept
<1>2. KeptInv /\ [PlanningNext]_planningVars => KeptInv'
  BY KeptNext
<1> QED
  BY <1>1, <1>2, PTL DEF PlanningSpec

\* For every library and every review, a video is in quarantine only while what
\* was kept in its stead is organized: no order of plans, applies, quarantines and
\* rescans, from bundles of earlier plans either, takes the last copy of something
\* out of the library, unless somebody removed a file or a reviewer said that what
\* was kept is something else.
THEOREM TheLastCopyStays == PlanningSpec => []LastCopyStays
<1>1. KeptInv => LastCopyStays
  BY DEF KeptInv
<1> QED
  BY <1>1, KeptInvariant, PTL

-------------------------------------------------------------------------------
(* The reviewed choices hold.  The candidates of a reviewed group fit its key *)
(* (Fitting) and its winner is found, or lies where the candidates would go   *)
(* (Accounted, ExtrasKept), as long as nobody removes a file or reopens what  *)
(* is organized.  So a candidate that was turned down, and is in the group no *)
(* longer, meets one that a decision on duplicates must prefer to it (Fair).  *)

\* The paths that a reviewer answered for one by one.
Singled == catalog.holds \cup {d.at : d \in catalog.sources}

\* What is found for a video makes it a candidate of the decision with this key.
Keyed(f, find, key) ==
  \/ find.as = "episode" /\ key.base = <<"episodes", find.show, find.what>>
  \/ key = Destination(f, find)

\* A video that lies at a path of its own in the inbox, or where it belongs.
LiesAt(f, path) == path = Inbox(f) \/ (IsManaged(path) /\ AtHome(f, path))

\* The records of one decision: all of its candidates have it, and fit its key.
Complete(records) ==
  \A f \in DOMAIN records :
    \A d \in records[f].dup :
      /\ Keyed(f, records[f].find, d.key)
      /\ \A path \in d.candidates : \E g \in DOMAIN records : records[g].at = path
      /\ \A g \in DOMAIN records : records[g].at \in d.candidates => records[g].dup = {d}

Rows(records) ==
  /\ \A f \in DOMAIN records :
       LiesAt(f, records[f].at) /\ Grounded(f, records[f])
  /\ Complete(records)

\* What a record takes its video for: the answer of the reviewer, or the find.
Said(f, r) ==
  Claims(r) =>
    \/ \E d \in catalog.sources : d.at = r.at /\ d.find = r.find
    \/ r.find = FoundAt(f, r.at) /\ \A d \in catalog.sources : d.at # r.at

\* Sources are held where a reviewer holds them.
HeldStay(records) ==
  \A f \in DOMAIN records :
    /\ records[f].status = "held" <=> records[f].at \in catalog.holds
    /\ records[f].status = "held" => records[f].dup = {}

\* Who is preferred by a review, or already in place, is not passed over.
Favoured(r) == r.at \in PreferredPaths \/ r.at = r.dest

Fair(records) ==
  \A f, g \in DOMAIN records :
    f # g /\ Goes(records[f]) /\ Claims(records[g]) /\ Favoured(records[g])
      /\ (SameEpisodes(records[f], records[g]) \/ records[f].dest = records[g].dest)
    => Favoured(records[f])

Known(records) ==
  \A path \in Singled : \E f \in DOMAIN records : records[f].at = path

AllSettled(records) ==
  \A f \in DOMAIN records : records[f].status \notin {"suspicious", "unresolved"}

Undisturbed == NobodyRemoved /\ ~OrganizedReopened

\* What the reviewer turned down stays.
Honoured(records) ==
  \A g \in catalog.groups :
    Undisturbed /\ ~Revised(g) /\ AllSettled(records) =>
      \A f \in DOMAIN records :
        records[f].at \in g.candidates \ g.winner =>
          ~(Goes(records[f]) /\ records[f].dest # records[f].at)

\* Where a file is that a decision found at a path, and that belongs to a base.
Whereabouts(f, path, base) ==
  \/ library[f].at = path
  \/ IsManaged(library[f].at) /\ library[f].at.base = base
  \/ library[f].at.base[1] = "quarantine" /\ library[f].at.tail[1] = base

SeenOrAway(f) ==
  command.pc # "idle" =>
    \/ library[f].at.base[1] = "quarantine"
    \/ f \in DOMAIN command.seen /\ command.seen[f].at = library[f].at

\* The candidates of a group that was reviewed fit its key as long as nobody
\* answers for them one by one, ...
Fitting(g) ==
  \A path \in g.candidates : \A f \in Videos :
    LiesAt(f, path) =>
      \E find : Keyed(f, find, g.key) /\ (path \notin Singled => find = FoundAt(f, path))

\* ... and the winner does not get lost.
Accounted(g) ==
  \A path \in g.winner :
    Undisturbed /\ path \notin Singled =>
      \E f \in Videos :
        /\ LiesAt(f, path) /\ SeenOrAway(f)
        /\ Whereabouts(f, path, Base(FoundAt(f, path)))

Groups ==
  /\ catalog.holds \cap {d.at : d \in catalog.sources} = {}
  /\ \A g \in catalog.groups :
       /\ g.action = "select-winner" => g.winner # {}
       /\ ~OrganizedReopened => Fitting(g)
       /\ Accounted(g)

\* An extra in quarantine lost to one that lies where it would have gone.
ExtrasKept ==
  Undisturbed =>
    \A f \in Videos :
      library[f].at.base[1] = "quarantine" /\ library[f].at.tail[1][1] = "extras" =>
        \E g \in Videos : library[g].at = Path(library[f].at.tail[1], <<ExtensionOf[f]>>)

\* What is in the layout was read.
LayoutSeen ==
  \A f \in Videos : IsManaged(library[f].at) =>
    f \in DOMAIN command.seen /\ command.seen[f].at = library[f].at

Underway ==
  /\ command.pc # "idle" =>
       /\ LayoutSeen
       /\ \A f \in DOMAIN command.seen : LiesAt(f, command.seen[f].at)
       /\ \A path \in catalog.holds : \E f \in DOMAIN command.seen : command.seen[f].at = path
  /\ command.pc \in Drawing => Rows(command.records) /\ HeldStay(command.records)
  /\ command.pc \in {"drafted", "extending"} =>
       \A f \in DOMAIN command.records :
         Claims(command.records[f]) =>
           command.records[f].find = FoundAt(f, command.records[f].at)
  /\ command.pc \in {"extended", "binding", "planned"} =>
       \A f \in DOMAIN command.records : Said(f, command.records[f])
  /\ command.pc \in {"extended", "binding"} => Fair(command.records) /\ Known(command.records)
  /\ command.pc = "planned" => Honoured(command.records)

\* What a bundle has a video for, and where it is, unless it was answered for.
Stands(p) ==
  /\ Rows(p.records)
  /\ \A f \in DOMAIN p.records :
       Claims(p.records[f]) /\ p.records[f].at \notin Singled =>
         /\ p.records[f].find = FoundAt(f, p.records[f].at)
         /\ Undisturbed => Whereabouts(f, p.records[f].at, p.records[f].dest.base)

PlanStands ==
  /\ \A p \in Bundles : Stands(p)
  /\ plan.latest => HeldStay(plan.records)
  /\ plan.latest /\ plan.ready => Honoured(plan.records) /\ AllSettled(plan.records)

ChoicesInv ==
  /\ KeptInv /\ Groups /\ ExtrasKept /\ Underway /\ PlanStands

-------------------------------------------------------------------------------
(* What makes records collide. *)

\* Two finds that fit one key are the same episodes or go to the same place.
LEMMA KeysMeet ==
  ASSUME NEW f, NEW g, NEW find, NEW other, NEW key, Keyed(f, find, key), Keyed(g, other, key),
         Normal(find), Normal(other)
  PROVE  \/ find.as = "episode" /\ find = other
         \/ Destination(f, find) = Destination(g, other)
<1>1. \A h, q : Destination(h, q).base[1] # "episodes"
  BY PlacesOf DEF IsManaged
<1>2. \A show, what : <<"episodes", show, what>>[1] = "episodes"
  OBVIOUS
<1>3. \A show, what, this, those : <<"episodes", show, what>> = <<"episodes", this, those>> =>
        show = this /\ what = those
  OBVIOUS
<1>4. CASE find.as = "episode" /\ key.base = <<"episodes", find.show, find.what>>
  <2>1. other.as = "episode" /\ key.base = <<"episodes", other.show, other.what>>
    BY <1>1, <1>2, <1>4 DEF Keyed
  <2>2. find.show = other.show /\ find.what = other.what
    BY <1>3, <1>4, <2>1
  <2> QED
    BY <1>4, <2>1, <2>2 DEF Normal
<1>5. CASE key = Destination(f, find)
  <2>1. key = Destination(g, other)
    BY <1>1, <1>2, <1>5 DEF Keyed
  <2> QED
    BY <1>5, <2>1
<1> QED
  BY <1>4, <1>5 DEF Keyed

\* Files that would go to one place collide.
LEMMA SamePlaceCollides ==
  ASSUME NEW records, DOMAIN records \subseteq Videos,
         NEW f \in Candidates(records), NEW g \in Candidates(records), f # g,
         Grounded(f, records[f]), Grounded(g, records[g]),
         SameEpisodes(records[f], records[g]) \/ records[f].dest = records[g].dest
  PROVE  /\ CollisionKey(f, records) = CollisionKey(g, records)
         /\ Collision(f, records) = Collision(g, records)
         /\ f \in Collision(f, records) /\ g \in Collision(f, records)
         /\ Cardinality(Collision(f, records)) # 1
<1>1. CASE SameEpisodes(records[f], records[g])
  BY <1>1, RivalsCollide
<1>2. CASE records[f].dest = records[g].dest /\ ~SameEpisodes(records[f], records[g])
  <2>1. /\ Normal(records[f].find) /\ records[f].dest = Destination(f, records[f].find)
        /\ Normal(records[g].find) /\ records[g].dest = Destination(g, records[g].find)
    BY DEF Candidates, Claims, Grounded
  <2>a. /\ records[f].dest.base[1] = "season" <=> records[f].find.as = "episode"
        /\ records[g].dest.base[1] = "season" <=> records[g].find.as = "episode"
    <3>1. \A h, find : Destination(h, find).base[1] = "season" <=> find.as = "episode"
      BY EpisodePlace
    <3> QED
      BY <2>1, <3>1
  <2>2. records[f].find.as # "episode"
    <3>1. SUFFICES ASSUME records[f].find.as = "episode"
                   PROVE  FALSE
      OBVIOUS
    <3>2. records[g].find.as = "episode"
      BY <1>2, <2>a, <3>1
    <3>3. records[f].find = records[g].find
      <4>1. Destination(f, records[f].find).base = Destination(g, records[g].find).base
        BY <1>2, <2>1
      <4> QED
        BY <2>1, <3>1, <3>2, <4>1, SameBase
    <3> QED
      BY <1>2, <3>1, <3>3 DEF SameEpisodes
  <2>3. records[g].find.as # "episode"
    BY <1>2, <2>a, <2>2
  <2>4. ASSUME NEW h \in Candidates(records), records[h].find.as # "episode"
        PROVE  CollisionKey(h, records) = records[h].dest
    <3>1. Rivals(h, records) = {}
      BY <2>4 DEF Rivals
    <3>2. ~(Cardinality(Rivals(h, records)) > 1)
      BY <3>1, FS_EmptySet
    <3> QED
      BY <3>2 DEF CollisionKey
  <2>5. CollisionKey(f, records) = CollisionKey(g, records)
    BY <1>2, <2>2, <2>3, <2>4
  <2>6. f \in Collision(f, records) /\ g \in Collision(f, records)
        /\ Collision(f, records) = Collision(g, records)
    BY <2>5 DEF Collision
  <2>7. IsFiniteSet(Collision(f, records))
    <3>1. Collision(f, records) \subseteq Videos
      BY DEF Collision, Candidates
    <3> QED
      BY <3>1, RulesAssumption, FS_Subset
  <2>8. Cardinality(Collision(f, records)) > 1
    BY <2>6, <2>7, TwoMembers
  <2>9. Cardinality(Collision(f, records)) \in Nat
    BY <2>7, FS_CardinalityType
  <2> QED
    BY <2>5, <2>6, <2>8, <2>9
<1> QED
  BY <1>1, <1>2

\* The winner among those of whom one is preferred is preferred.
LEMMA WinnerPreferred ==
  ASSUME NEW records, NEW group, NEW preferred, NEW f, NEW g \in group,
         f \in Winner(group, Ranks(records, preferred)), g \in DOMAIN records,
         records[g].at \in preferred \/ records[g].at = records[g].dest
  PROVE  records[f].at \in preferred \/ records[f].at = records[f].dest
<1> DEFINE rank == Ranks(records, preferred)
<1>1. DOMAIN rank = {h \in DOMAIN records :
                       records[h].at \in preferred \/ records[h].at = records[h].dest}
  BY DEF Ranks
<1> HIDE DEF rank
<1>2. g \in Preferred(group, rank)
  BY <1>1 DEF Preferred
<1>3. f \in Sole(TopRanked(group, rank))
  BY <1>2 DEF Winner, rank
<1>4. f \in Preferred(group, rank)
  BY <1>3 DEF Sole, TopRanked
<1> QED
  BY <1>1, <1>4 DEF Preferred

-------------------------------------------------------------------------------
(* What the steps of the command do to records. *)

\* Whatever decides on duplicates keeps the place, the find and the hold.
LEMMA DecideClaims ==
  ASSUME NEW records, RecordsOK(records), \A f \in DOMAIN records : records[f].dup = {},
         NEW preferred, NEW f \in DOMAIN records
  PROVE  LET decided == DecideDuplicates(records, preferred) IN
         /\ decided[f].at = records[f].at /\ decided[f].find = records[f].find
         /\ decided[f].dest = records[f].dest
         /\ Claims(decided[f]) => f \in Candidates(records)
         /\ f \in Candidates(records) => Claims(records[f]) /\ records[f].status # "held"
         /\ decided[f].status = "held" <=> records[f].status = "held"
         /\ decided[f].status = "held" => decided[f].dup = {}
<1> DEFINE decided == DecideDuplicates(records, preferred)
           group == Collision(f, records)
           winner == IF \A g \in group : records[g].find = records[f].find
                     THEN Winner(group, Ranks(records, preferred)) ELSE {}
           decision == Decision(CollisionKey(f, records), group, records, winner)
           status == CASE winner = {} -> "suspicious"
                       [] f \in winner -> records[f].status
                       [] OTHER -> "duplicate"
<1>1. /\ decided[f].at = records[f].at /\ decided[f].find = records[f].find
      /\ decided[f].dest = records[f].dest
      /\ f \notin Candidates(records) \/ Cardinality(group) = 1 => decided[f] = records[f]
  BY DecideSays
<1>2. f \in Candidates(records) => records[f].status \in {"matched", "extra"}
  BY DEF Candidates
<1>3. Claims(records[f]) => f \in Candidates(records)
  BY DEF Claims, Candidates
<1>4. CASE f \notin Candidates(records) \/ Cardinality(group) = 1
  <2>1. decided[f] = records[f]
    BY <1>1, <1>4
  <2> QED
    BY <1>1, <1>2, <1>3, <2>1 DEF Claims
<1>5. CASE f \in Candidates(records) /\ Cardinality(group) # 1
  <2>1. decided[f] = [records[f] EXCEPT !.dup = {decision}, !.status = status]
    BY <1>5 DEF DecideDuplicates
  <2>2. IsRecord(records[f])
    BY DEF RecordsOK, RecordOK
  <2>3. status \in {"suspicious", "duplicate", "matched", "extra"}
    BY <1>2, <1>5
  <2> HIDE DEF decided, group, winner, decision, status
  <2>4. decided[f] = [at |-> records[f].at, version |-> records[f].version, status |-> status,
                      find |-> records[f].find, dest |-> records[f].dest, dup |-> {decision}]
    BY <2>1, <2>2 DEF IsRecord
  <2>5. decided[f].status = status
    BY <2>4
  <2>6. decided[f].status # "held" /\ records[f].status # "held" /\ Claims(records[f])
    BY <1>2, <1>5, <2>3, <2>5 DEF Claims
  <2> QED
    BY <1>1, <1>5, <2>6 DEF decided
<1> HIDE DEF decided
<1> QED
  BY <1>4, <1>5

\* Of those that collide, all have the decision, and who is favoured is not
\* passed over for who is not.
LEMMA DecideComplete ==
  ASSUME CatalogOK, NEW records, Undecided(records),
         \A f \in DOMAIN records : LiesAt(f, records[f].at)
  PROVE  Rows(DecideDuplicates(records, PreferredPaths))
         /\ Fair(DecideDuplicates(records, PreferredPaths))
<1> DEFINE decided == DecideDuplicates(records, PreferredPaths)
           group(f) == Collision(f, records)
           winner(f) == IF \A g \in group(f) : records[g].find = records[f].find
                        THEN Winner(group(f), Ranks(records, PreferredPaths)) ELSE {}
           decision(f) == Decision(CollisionKey(f, records), group(f), records, winner(f))
<1>1. RecordsOK(records) /\ DOMAIN records \subseteq Videos
      /\ \A f \in DOMAIN records : records[f].dup = {} /\ Grounded(f, records[f])
  BY DEF Undecided, RecordsOK
<1>2. DOMAIN decided = DOMAIN records
      /\ \A f \in DOMAIN records : Grounded(f, decided[f])
  BY DecideOnce
<1>3. ASSUME NEW f \in DOMAIN records
      PROVE  /\ decided[f].at = records[f].at /\ decided[f].find = records[f].find
             /\ decided[f].dest = records[f].dest
             /\ f \notin Candidates(records) \/ Cardinality(group(f)) = 1 =>
                  decided[f].dup = {}
             /\ f \in Candidates(records) /\ Cardinality(group(f)) # 1 =>
                  decided[f].dup = {decision(f)} /\ (Goes(decided[f]) => f \in winner(f))
  BY <1>1, DecideSays
<1>4. \A f \in DOMAIN records : Claims(decided[f]) => f \in Candidates(records)
  BY <1>1, DecideClaims
<1>5. \A f \in DOMAIN records : /\ decision(f).candidates = {records[g].at : g \in group(f)}
                                /\ decision(f).key = CollisionKey(f, records)
  BY DEF Decision
<1>6. \A f \in Candidates(records) : f \in group(f) /\ f \in DOMAIN records
  BY DEF Collision, Candidates
<1>7. \A f \in DOMAIN records : \A g \in group(f) :
        /\ g \in DOMAIN records /\ g \in Candidates(records)
        /\ CollisionKey(g, records) = CollisionKey(f, records)
  BY DEF Collision, Candidates
<1>8. ASSUME NEW f \in Candidates(records), NEW g \in group(f)
      PROVE  group(g) = group(f) /\ decision(g) = decision(f)
  <2>1. CollisionKey(g, records) = CollisionKey(f, records)
    BY <1>6, <1>7, <1>8
  <2>2. group(g) = group(f)
    BY <2>1 DEF Collision
  <2>3. f \in group(f)
    BY <1>6
  <2>4. winner(g) = winner(f)
    BY <1>8, <2>2, <2>3
  <2> HIDE DEF group, winner
  <2> QED
    BY <2>1, <2>2, <2>4
<1>9. ASSUME NEW f \in Candidates(records)
      PROVE  Keyed(f, records[f].find, CollisionKey(f, records))
  <2>1. f \in DOMAIN records /\ Claims(records[f])
    BY DEF Candidates, Claims
  <2>2. records[f].dest = Destination(f, records[f].find)
    BY <1>1, <2>1 DEF Grounded
  <2>3. CASE Cardinality(Rivals(f, records)) > 1
    <3>1. Rivals(f, records) # {}
      BY <2>3, FS_EmptySet
    <3>2. records[f].find.as = "episode"
      BY <3>1 DEF Rivals
    <3>3. CollisionKey(f, records).base =
            <<"episodes", records[f].find.show, records[f].find.what>>
      BY <2>3 DEF CollisionKey, Path
    <3> QED
      BY <3>2, <3>3 DEF Keyed
  <2>4. CASE ~(Cardinality(Rivals(f, records)) > 1)
    BY <2>2, <2>4 DEF CollisionKey, Keyed
  <2> QED
    BY <2>3, <2>4
<1>10. \A f, g \in DOMAIN records : f # g => records[f].at # records[g].at
  BY DEF Undecided
<1> HIDE DEF decided, group, winner, decision
<1>11. Complete(decided)
  <2>1. SUFFICES ASSUME NEW f \in DOMAIN records, NEW d \in decided[f].dup
                 PROVE  /\ Keyed(f, decided[f].find, d.key)
                        /\ \A path \in d.candidates :
                             \E g \in DOMAIN records : decided[g].at = path
                        /\ \A g \in DOMAIN records :
                             decided[g].at \in d.candidates => decided[g].dup = {d}
    BY <1>2 DEF Complete
  <2>2. f \in Candidates(records) /\ Cardinality(group(f)) # 1 /\ d = decision(f)
    BY <1>3, <2>1
  <2>3. Keyed(f, decided[f].find, d.key)
    BY <1>3, <1>5, <1>9, <2>2
  <2>4. ASSUME NEW path \in d.candidates
        PROVE  \E g \in group(f) : g \in DOMAIN records /\ records[g].at = path
    BY <1>5, <1>7, <2>2, <2>4
  <2>5. ASSUME NEW g \in DOMAIN records, decided[g].at \in d.candidates
        PROVE  decided[g].dup = {d}
    <3>1. g \in group(f)
      BY <1>3, <1>10, <2>4, <2>5
    <3>2. g \in Candidates(records) /\ group(g) = group(f) /\ decision(g) = d
      BY <1>7, <1>8, <2>2, <3>1
    <3> QED
      BY <1>3, <2>2, <3>2
  <2> QED
    BY <1>3, <2>3, <2>4, <2>5
<1>12. Fair(decided)
  <2>1. SUFFICES ASSUME NEW f \in DOMAIN records, NEW g \in DOMAIN records, f # g,
                        Goes(decided[f]), Claims(decided[g]), Favoured(decided[g]),
                        SameEpisodes(decided[f], decided[g])
                          \/ decided[f].dest = decided[g].dest
                 PROVE  Favoured(decided[f])
    BY <1>2 DEF Fair
  <2>2. f \in Candidates(records) /\ g \in Candidates(records)
    BY <1>4, <2>1 DEF Goes, Claims
  <2>3. SameEpisodes(records[f], records[g]) \/ records[f].dest = records[g].dest
    BY <1>3, <2>1 DEF SameEpisodes
  <2>4. g \in group(f) /\ Cardinality(group(f)) # 1
    BY <1>1, <2>1, <2>2, <2>3, SamePlaceCollides DEF group
  <2>5. f \in winner(f)
    BY <1>3, <2>1, <2>2, <2>4
  <2>6. f \in Winner(group(f), Ranks(records, PreferredPaths))
    BY <2>5 DEF winner
  <2>7. records[g].at \in PreferredPaths \/ records[g].at = records[g].dest
    BY <1>3, <2>1 DEF Favoured
  <2>8. records[f].at \in PreferredPaths \/ records[f].at = records[f].dest
    BY <2>4, <2>6, <2>7, WinnerPreferred
  <2> QED
    BY <1>3, <2>8 DEF Favoured
<1>13. \A f \in DOMAIN decided : LiesAt(f, decided[f].at) /\ Grounded(f, decided[f])
  BY <1>2, <1>3
<1> QED
  BY <1>11, <1>12, <1>13 DEF Rows, decided

\* A draft says what was found, and holds what is held.
LEMMA DraftSays ==
  ASSUME finds \in Findings, NEW seen, DOMAIN seen \subseteq Videos,
         NEW found, NEW held, \A f \in DOMAIN seen : found[f] = FoundAt(f, seen[f].at),
         NEW f \in DOMAIN seen
  PROVE  LET r == Draft(seen, found, held)[f] IN
         /\ r.at = seen[f].at /\ r.dup = {}
         /\ Claims(r) => r.find = FoundAt(f, r.at)
         /\ r.status = "held" <=> f \in held
<1> DEFINE r == Draft(seen, found, held)[f]
<1>1. found[f] = FoundAt(f, seen[f].at)
  OBVIOUS
<1>2. ASSUME NEW status, NEW find, NEW dest, r = Record(seen[f], status, find, dest)
      PROVE  r.at = seen[f].at /\ r.dup = {} /\ r.status = status /\ r.find = find
  BY <1>2, RecordShape
<1>3. CASE f \in held
  <2>1. r = Record(seen[f], "held", Unclear("held", ""), Nowhere)
    BY <1>3 DEF Draft
  <2>2. r.at = seen[f].at /\ r.dup = {} /\ r.status = "held"
    BY <1>2, <2>1
  <2> HIDE DEF r
  <2> QED
    BY <1>3, <2>2 DEF Claims, r
<1>4. CASE f \notin held /\ Identified(found[f])
  <2> DEFINE assigned == found[f].as = "episode" =>
                           Assigned(f, ClaimsBeside(f, seen, found, held))
  <2>1. r = Placed(f, seen[f], found[f], assigned)
    BY <1>4 DEF Draft
  <2> HIDE DEF assigned
  <2>2. \E status \in {"suspicious", "unresolved", "extra", "matched"} : \E dest :
          r = Record(seen[f], status, found[f], dest)
    BY <2>1 DEF Placed
  <2>3. PICK status \in {"suspicious", "unresolved", "extra", "matched"} : \E dest :
          r = Record(seen[f], status, found[f], dest)
    BY <2>2
  <2>4. r.at = seen[f].at /\ r.dup = {} /\ r.status = status /\ r.find = found[f]
    BY <1>2, <2>3
  <2> HIDE DEF r
  <2> QED
    BY <1>1, <1>4, <2>4 DEF r
<1>5. CASE f \notin held /\ ~Identified(found[f])
  <2>1. r = Record(seen[f], found[f].as, found[f], Nowhere)
    BY <1>5 DEF Draft
  <2>2. found[f].as \in {"episode", "extra", "suspicious", "unresolved"}
    BY <1>1, FoundKinds
  <2>3. r.at = seen[f].at /\ r.dup = {} /\ r.status = found[f].as /\ r.find = found[f]
    BY <1>2, <2>1
  <2> HIDE DEF r
  <2> QED
    BY <1>1, <1>5, <2>2, <2>3 DEF r
<1> QED
  BY <1>3, <1>4, <1>5

\* After the answers, each record says what was answered or found.
LEMMA AnsweredSays ==
  ASSUME PlanningInv, Drawn(command.seen, command.records), HeldStay(command.records),
         catalog.holds \cap {d.at : d \in catalog.sources} = {},
         NEW f \in DOMAIN command.records, Answerable(f),
         Claims(command.records[f]) =>
           command.records[f].find = FoundAt(f, command.records[f].at)
  PROVE  LET a == Answered(f) IN
         /\ a.at = command.records[f].at /\ a.dup = {} /\ Said(f, a)
         /\ a.status = "held" <=> a.at \in catalog.holds
<1> DEFINE r == command.records[f]
           a == Answered(f)
<1>1. RecordOK(r) /\ r.at = command.seen[f].at
  BY DEF PlanningInv, CommandOK, RecordsOK, Drawn
<1>2. /\ r.status = "held" <=> r.at \in catalog.holds
      /\ r.status = "held" => r.dup = {}
  BY DEF HeldStay
<1>3. Claims(r) => r.find = FoundAt(f, r.at)
  OBVIOUS
<1>4. Decided(f) = {d \in catalog.sources : d.at = r.at}
  BY DEF Decided
<1>5. CASE Decided(f) = {} /\ r.dup = {}
  <2>1. a = r
    BY <1>5 DEF Answered, Cleared
  <2> HIDE DEF a, r
  <2> QED
    BY <1>2, <1>3, <1>4, <1>5, <2>1 DEF Said, a, r
<1>6. CASE Decided(f) = {} /\ r.dup # {}
  <2> DEFINE status == IF r.find.as = "extra" THEN "extra" ELSE "matched"
  <2>1. a = [r EXCEPT !.dup = {}, !.status = status]
    BY <1>6 DEF Answered, Cleared
  <2>2. IsRecord(r) /\ Claims(r)
    BY <1>1, <1>6 DEF RecordOK, Claims
  <2>a. status # "held"
    OBVIOUS
  <2> HIDE DEF r, status, a
  <2>3. a = [at |-> r.at, version |-> r.version, status |-> status, find |-> r.find,
             dest |-> r.dest, dup |-> {}]
    BY <2>1, <2>2 DEF IsRecord
  <2>4. a.at = r.at /\ a.find = r.find /\ a.status = status /\ a.dup = {}
    BY <2>3
  <2>5. Said(f, a)
    BY <1>3, <1>4, <1>6, <2>2, <2>4 DEF Said
  <2>6. r.status # "held"
    BY <1>2, <1>6
  <2> QED
    BY <1>2, <2>a, <2>4, <2>5, <2>6 DEF a, r
<1>7. CASE Decided(f) # {}
  <2>1. PICK d \in Decided(f) : d = CHOOSE e \in Decided(f) : TRUE
    BY <1>7
  <2> DEFINE status == IF d.find.as = "extra" THEN "extra" ELSE "matched"
  <2>2. a = Record(command.seen[f], status, d.find, Destination(f, d.find))
    BY <1>7, <2>1 DEF Answered
  <2>3. d \in catalog.sources /\ d.at = r.at
    BY <1>4
  <2>a. status # "held"
    OBVIOUS
  <2> HIDE DEF r, status, a
  <2>4. a.at = r.at /\ a.find = d.find /\ a.status = status /\ a.dup = {}
    BY <1>1, <2>2, RecordShape
  <2>5. Said(f, a)
    BY <2>3, <2>4 DEF Said
  <2>6. a.at \notin catalog.holds
    BY <2>3, <2>4
  <2> QED
    BY <2>a, <2>4, <2>5, <2>6 DEF a, r
<1> QED
  BY <1>5, <1>6, <1>7

\* A decision on duplicates says nothing else of a record.
LEMMA DecideSaid ==
  ASSUME NEW records, RecordsOK(records), \A f \in DOMAIN records : records[f].dup = {},
         NEW preferred
  PROVE  LET decided == DecideDuplicates(records, preferred) IN
         /\ DOMAIN decided = DOMAIN records
         /\ (\A f \in DOMAIN records : Said(f, records[f])) =>
              \A f \in DOMAIN records : Said(f, decided[f])
         /\ (\A f \in DOMAIN records : Claims(records[f]) =>
               records[f].find = FoundAt(f, records[f].at)) =>
              \A f \in DOMAIN records : Claims(decided[f]) =>
                decided[f].find = FoundAt(f, decided[f].at)
         /\ (\A f \in DOMAIN records :
               records[f].status = "held" <=> records[f].at \in catalog.holds) =>
              HeldStay(decided)
         /\ Known(records) => Known(decided)
<1> DEFINE decided == DecideDuplicates(records, preferred)
<1>1. DOMAIN decided = DOMAIN records
  BY DecideKeeps
<1>2. ASSUME NEW f \in DOMAIN records
      PROVE  /\ decided[f].at = records[f].at /\ decided[f].find = records[f].find
             /\ Claims(decided[f]) => Claims(records[f])
             /\ decided[f].status = "held" <=> records[f].status = "held"
             /\ decided[f].status = "held" => decided[f].dup = {}
  BY DecideClaims
<1> HIDE DEF decided
<1>3. ASSUME \A f \in DOMAIN records : Said(f, records[f]), NEW f \in DOMAIN records
      PROVE  Said(f, decided[f])
  BY <1>2, <1>3 DEF Said
<1>4. ASSUME NEW f \in DOMAIN records, Claims(decided[f]),
             Claims(records[f]) => records[f].find = FoundAt(f, records[f].at)
      PROVE  decided[f].find = FoundAt(f, decided[f].at)
  BY <1>2, <1>4
<1>5. ASSUME \A f \in DOMAIN records :
               records[f].status = "held" <=> records[f].at \in catalog.holds
      PROVE  HeldStay(decided)
  BY <1>1, <1>2, <1>5 DEF HeldStay
<1>6. Known(records) => Known(decided)
  BY <1>1, <1>2 DEF Known
<1> QED
  BY <1>1, <1>3, <1>4, <1>5, <1>6 DEF decided

\* A review of a group changes the decision on all of its members, and nothing
\* else.
LEMMA RuledRows ==
  ASSUME PlanningInv, Disjoint, Kept(command.records), Rows(command.records),
         HeldStay(command.records), \A f \in DOMAIN command.records : Said(f, command.records[f]),
         NEW ruled, DOMAIN ruled = DOMAIN command.records,
         \A f \in DOMAIN command.records :
           \/ \E g \in catalog.groups : f \in Members(g) /\ ruled[f] = Ruled(f, g)
           \/ ruled[f] = command.records[f] /\ \A g \in catalog.groups : f \notin Members(g)
  PROVE  /\ Rows(ruled) /\ HeldStay(ruled) /\ \A f \in DOMAIN ruled : Said(f, ruled[f])
         /\ \A f \in DOMAIN ruled :
              \/ /\ Claims(command.records[f])
                 /\ \E g \in catalog.groups :
                      f \in Members(g) /\ (Goes(ruled[f]) => ruled[f].at \in g.winner)
              \/ ruled[f] = command.records[f] /\ \A g \in catalog.groups : f \notin Members(g)
<1> DEFINE records == command.records
           decision(g) == [key |-> g.key, candidates |-> g.candidates, winner |-> g.winner]
<1>1. DOMAIN ruled = DOMAIN records
  OBVIOUS
<1>2. ASSUME NEW f \in DOMAIN records, NEW h \in catalog.groups, f \in Members(h)
      PROVE  /\ ruled[f].at = records[f].at /\ ruled[f].find = records[f].find
             /\ ruled[f].dest = records[f].dest /\ ruled[f].dup = {decision(h)}
             /\ Claims(records[f]) /\ ruled[f].status # "held"
             /\ Goes(ruled[f]) => ruled[f].at \in h.winner
  <2>1. PICK g \in catalog.groups : f \in Members(g) /\ ruled[f] = Ruled(f, g)
    BY <1>2
  <2>2. g = h
    BY <1>2, <2>1, OneGroup
  <2>3. /\ ruled[f].at = records[f].at /\ ruled[f].find = records[f].find
        /\ ruled[f].dest = records[f].dest
        /\ Goes(ruled[f]) => records[f].at \in h.winner
        /\ ruled[f].dup = {decision(h)} /\ Claims(records[f]) /\ ruled[f].status # "held"
    BY <1>2, <2>1, <2>2, RuledSays
  <2> QED
    BY <2>3
<1>3. ASSUME NEW f \in DOMAIN records, \A g \in catalog.groups : f \notin Members(g)
      PROVE  ruled[f] = records[f]
  BY <1>3
<1>4. ASSUME NEW f \in DOMAIN records
      PROVE  /\ ruled[f].at = records[f].at /\ ruled[f].find = records[f].find
             /\ ruled[f].dest = records[f].dest
             /\ Claims(ruled[f]) => Claims(records[f])
  BY <1>2, <1>3
<1>5. ASSUME NEW f \in DOMAIN records, NEW g \in catalog.groups
      PROVE  f \in Members(g) <=>
               \E d \in records[f].dup : d.key = g.key /\ d.candidates = g.candidates
  BY DEF Members
<1>6. \A g : decision(g).key = g.key /\ decision(g).candidates = g.candidates
  OBVIOUS
<1> HIDE DEF records, decision
<1>7. \A f \in DOMAIN ruled : LiesAt(f, ruled[f].at) /\ Grounded(f, ruled[f])
  BY <1>1, <1>4 DEF Rows, Grounded, records
<1>8. Complete(ruled)
  <2>1. SUFFICES ASSUME NEW f \in DOMAIN records, NEW d \in ruled[f].dup
                 PROVE  /\ Keyed(f, ruled[f].find, d.key)
                        /\ \A path \in d.candidates :
                             \E g \in DOMAIN records : ruled[g].at = path
                        /\ \A g \in DOMAIN records :
                             ruled[g].at \in d.candidates => ruled[g].dup = {d}
    BY <1>1 DEF Complete
  <2>2. Complete(records)
    BY DEF Rows, records
  <2>3. ASSUME NEW h \in catalog.groups, f \in Members(h)
        PROVE  /\ Keyed(f, ruled[f].find, d.key)
               /\ \A path \in d.candidates : \E g \in DOMAIN records : ruled[g].at = path
               /\ \A g \in DOMAIN records : ruled[g].at \in d.candidates => ruled[g].dup = {d}
    <3>1. d = decision(h)
      BY <1>2, <2>1, <2>3
    <3>2. PICK e \in records[f].dup : e.key = h.key /\ e.candidates = h.candidates
      BY <1>5, <2>3
    <3>3. d.key = e.key /\ d.candidates = e.candidates
      BY <1>6, <3>1, <3>2
    <3>4. /\ Keyed(f, records[f].find, e.key)
          /\ \A path \in e.candidates : \E g \in DOMAIN records : records[g].at = path
          /\ \A g \in DOMAIN records : records[g].at \in e.candidates => records[g].dup = {e}
      BY <2>2 DEF Complete
    <3>5. ASSUME NEW g \in DOMAIN records, ruled[g].at \in d.candidates
          PROVE  ruled[g].dup = {d}
      <4>1. records[g].dup = {e}
        BY <1>4, <3>3, <3>4, <3>5
      <4>2. g \in Members(h)
        BY <1>5, <3>2, <4>1
      <4> QED
        BY <1>2, <3>1, <4>2
    <3>6. ASSUME NEW path \in d.candidates
          PROVE  \E g \in DOMAIN records : ruled[g].at = path
      BY <1>4, <3>3, <3>4
    <3> QED
      BY <1>4, <3>3, <3>4, <3>5, <3>6
  <2>4. ASSUME \A h \in catalog.groups : f \notin Members(h)
        PROVE  /\ Keyed(f, ruled[f].find, d.key)
               /\ \A path \in d.candidates : \E g \in DOMAIN records : ruled[g].at = path
               /\ \A g \in DOMAIN records : ruled[g].at \in d.candidates => ruled[g].dup = {d}
    <3>1. ruled[f] = records[f] /\ d \in records[f].dup
      BY <1>3, <2>1, <2>4
    <3>2. /\ Keyed(f, records[f].find, d.key)
          /\ \A path \in d.candidates : \E g \in DOMAIN records : records[g].at = path
          /\ \A g \in DOMAIN records : records[g].at \in d.candidates => records[g].dup = {d}
      BY <2>2, <3>1 DEF Complete
    <3>3. ASSUME NEW g \in DOMAIN records, ruled[g].at \in d.candidates
          PROVE  ruled[g].dup = {d}
      <4>1. records[g].dup = {d}
        BY <1>4, <3>2, <3>3
      <4>2. \A h \in catalog.groups : g \notin Members(h)
        BY <1>5, <2>4, <3>1, <4>1
      <4> QED
        BY <1>3, <4>1, <4>2
    <3>4. ASSUME NEW path \in d.candidates
          PROVE  \E g \in DOMAIN records : ruled[g].at = path
      BY <1>4, <3>2
    <3> QED
      BY <1>4, <3>2, <3>3, <3>4
  <2> QED
    BY <2>3, <2>4
<1>9. HeldStay(ruled)
  <2>1. SUFFICES ASSUME NEW f \in DOMAIN records
                 PROVE  /\ ruled[f].status = "held" <=> ruled[f].at \in catalog.holds
                        /\ ruled[f].status = "held" => ruled[f].dup = {}
    BY <1>1 DEF HeldStay
  <2>2. /\ records[f].status = "held" <=> records[f].at \in catalog.holds
        /\ records[f].status = "held" => records[f].dup = {}
    BY DEF HeldStay, records
  <2>3. ASSUME NEW h \in catalog.groups, f \in Members(h)
        PROVE  ruled[f].status # "held" /\ records[f].status # "held"
    <3>1. records[f].dup # {}
      BY <1>5, <2>3
    <3> QED
      BY <1>2, <2>2, <2>3, <3>1
  <2> QED
    BY <1>2, <1>3, <2>2, <2>3
<1>10. \A f \in DOMAIN ruled : Said(f, ruled[f])
  BY <1>1, <1>4 DEF Said, records
<1>11. ASSUME NEW f \in DOMAIN ruled
       PROVE  \/ /\ Claims(records[f])
                 /\ \E g \in catalog.groups :
                      f \in Members(g) /\ (Goes(ruled[f]) => ruled[f].at \in g.winner)
              \/ ruled[f] = records[f] /\ \A g \in catalog.groups : f \notin Members(g)
  BY <1>1, <1>2, <1>3
<1> QED
  BY <1>7, <1>8, <1>9, <1>10, <1>11 DEF Rows, records

-------------------------------------------------------------------------------
(* Why a candidate that was turned down stays. *)

\* A record keeps the place where another video would go that is taken for
\* something.
Takes(r, w, find) ==
  /\ r.dest.base = Base(find)
  /\ Base(find)[1] = "extras" => r.dest = Path(Base(find), <<ExtensionOf[w]>>)

\* A record collides with a video that is taken for something.
Meets(r, f, find) ==
  \/ r.find.as = "episode" /\ r.find = find
  \/ r.dest = Destination(f, find)

\* What lies where a candidate would go stands in the way of all of them.
LEMMA StandsInWay ==
  ASSUME NEW f, NEW w, NEW v, NEW find, NEW other, NEW key, NEW r,
         Keyed(f, find, key), Keyed(w, other, key), Normal(find), Normal(other),
         Claims(r), Grounded(v, r), Takes(r, w, other)
  PROVE  Meets(r, f, find)
<1> USE DEF Meets
<1>1. Normal(r.find) /\ r.dest = Destination(v, r.find)
  BY DEF Grounded
<1>2. \A h, x : Destination(h, x).base = Base(x) /\ Destination(h, x) = Path(Base(x), <<ExtensionOf[h]>>)
  BY DEF Destination, Path
<1>3. \A h, x : Destination(h, x).base[1] = "season" <=> x.as = "episode"
  BY EpisodePlace
<1>4. r.dest.base = Destination(w, other).base
  BY <1>2 DEF Takes
<1>5. CASE find.as = "episode" /\ find = other
  <2>1. r.find.as = "episode"
    BY <1>1, <1>3, <1>4, <1>5
  <2>2. r.find = find
    BY <1>1, <1>4, <1>5, <2>1, SameBase
  <2> QED
    BY <2>1, <2>2
<1>6. CASE Destination(f, find) = Destination(w, other)
  <2>1. CASE other.as = "episode"
    <3>1. r.find.as = "episode" /\ find.as = "episode"
      BY <1>1, <1>3, <1>4, <1>6, <2>1
    <3>2. Destination(v, r.find).base = Destination(f, find).base
      BY <1>1, <1>4, <1>6
    <3>3. r.find = find
      BY <1>1, <3>1, <3>2, SameBase
    <3> QED
      BY <3>1, <3>3
  <2>2. CASE other.as # "episode"
    <3>1. Base(other)[1] = "extras"
      BY <2>2 DEF Base, ExtraBase
    <3>2. r.dest = Destination(w, other)
      BY <1>2, <3>1 DEF Takes
    <3> QED
      BY <1>6, <3>2
  <2> QED
    BY <2>1, <2>2
<1> QED
  BY <1>5, <1>6, KeysMeet

\* A candidate that is not held is what the group was decided for.
LEMMA ClaimFits ==
  ASSUME NEW g \in catalog.groups, Fitting(g), ~Revised(g), NEW f \in Videos, NEW r,
         LiesAt(f, r.at), r.at \in g.candidates, Said(f, r), Claims(r), r.at \notin catalog.holds
  PROVE  Keyed(f, r.find, g.key)
<1>1. PICK find : Keyed(f, find, g.key) /\ (r.at \notin Singled => find = FoundAt(f, r.at))
  BY DEF Fitting
<1>2. CASE r.find = FoundAt(f, r.at) /\ \A d \in catalog.sources : d.at # r.at
  <2>1. r.at \notin Singled
    BY <1>2 DEF Singled
  <2> QED
    BY <1>1, <1>2, <2>1
<1>3. ASSUME NEW d \in catalog.sources, d.at = r.at, d.find = r.find
      PROVE  Keyed(f, r.find, g.key)
  <2>1. \/ g.key.base = Base(d.find)
        \/ d.find.as = "episode" /\ g.key.base = <<"episodes", d.find.show, d.find.what>>
    BY <1>3 DEF Revised
  <2>2. CASE d.find.as = "episode" /\ g.key.base = <<"episodes", d.find.show, d.find.what>>
    BY <1>3, <2>2 DEF Keyed
  <2>3. CASE g.key.base = Base(d.find)
    <3>1. \A x : Base(x)[1] # "episodes"
      BY DEF Base, EpisodeBase, ExtraBase
    <3>2. \A show, what : <<"episodes", show, what>>[1] = "episodes"
      OBVIOUS
    <3>3. g.key = Destination(f, find)
      BY <1>1, <2>3, <3>1, <3>2 DEF Keyed
    <3>4. \A x : Destination(f, x).base = Base(x) /\ Destination(f, x) = Path(Base(x), <<ExtensionOf[f]>>)
      BY DEF Destination, Path
    <3>5. Base(find) = Base(d.find)
      BY <2>3, <3>3, <3>4
    <3>6. g.key = Destination(f, d.find)
      BY <3>3, <3>4, <3>5
    <3> QED
      BY <1>3, <3>6 DEF Keyed
  <2> QED
    BY <2>1, <2>2, <2>3
<1> QED
  BY <1>2, <1>3 DEF Said

\* A record that is settled and not held claims its place.
LEMMA SettledClaims ==
  ASSUME NEW r, RecordOK(r), r.status \notin {"suspicious", "unresolved", "held"}
  PROVE  Claims(r)
BY DEF RecordOK, Statuses, Claims

\* Who won a group and left its place has somebody in the layout for it.
LEMMA WinnerStands ==
  ASSUME KeptInv, ExtrasKept, Undisturbed, NEW f \in Videos, NEW base,
         \/ IsManaged(library[f].at) /\ library[f].at.base = base
         \/ library[f].at.base[1] = "quarantine" /\ library[f].at.tail[1] = base
  PROVE  \E g \in Videos :
           /\ IsManaged(library[g].at) /\ library[g].at.base = base
           /\ base[1] = "extras" => library[g].at = Path(base, <<ExtensionOf[f]>>)
<1>1. CASE IsManaged(library[f].at) /\ library[f].at.base = base
  <2>1. library[f].at = Destination(f, FoundAt(f, library[f].at))
    BY <1>1 DEF KeptInv, AtHome
  <2>2. library[f].at = Path(base, <<ExtensionOf[f]>>)
    BY <1>1, <2>1 DEF Destination, Path
  <2> QED
    BY <1>1, <2>2
<1>2. CASE library[f].at.base[1] = "quarantine" /\ library[f].at.tail[1] = base
  <2>1. base[1] \in {"season", "extras"}
    BY <1>2 DEF KeptInv, Remembered
  <2>2. CASE base[1] = "extras"
    <3>1. PICK g \in Videos : library[g].at = Path(base, <<ExtensionOf[f]>>)
      BY <1>2, <2>2 DEF ExtrasKept
    <3>2. library[g].at.base = base
      BY <3>1 DEF Path
    <3> QED
      BY <2>1, <3>1, <3>2 DEF IsManaged
  <2>3. CASE base[1] = "season"
    <3>1. \A d \in catalog.sources : d.at.base # base
      BY <2>1 DEF Undisturbed, OrganizedReopened, IsManaged
    <3>2. PICK g \in Videos : library[g].at.base = base
      BY <1>2, <3>1 DEF KeptInv, LastCopyStays, Undisturbed
    <3> QED
      BY <2>1, <2>3, <3>2 DEF IsManaged
  <2> QED
    BY <2>1, <2>2, <2>3
<1> QED
  BY <1>1, <1>2

\* A candidate that was turned down, would move, and is in no group any more,
\* meets the winner or what lies where it would go.
LEMMA TurnedDownStays ==
  ASSUME KeptInv, Groups, ExtrasKept, Underway, command.pc = "binding", Undisturbed,
         NEW g \in catalog.groups, ~Revised(g), g.winner # {}, NEW f \in DOMAIN command.records,
         command.records[f].at \in g.candidates \ g.winner, Goes(command.records[f]),
         command.records[f].dest # command.records[f].at,
         \A k \in DOMAIN command.records :
           command.records[k].at \in g.candidates \/ IsManaged(command.records[k].at) =>
             \/ Claims(command.records[k])
             \/ command.records[k].status \notin {"suspicious", "unresolved"}
  PROVE  FALSE
<1> DEFINE records == command.records
<1>1. /\ PlanningInv /\ Disjoint /\ Drawn(command.seen, records) /\ Kept(records)
      /\ finds \in Findings /\ Fitting(g) /\ Accounted(g)
      /\ Rows(records) /\ HeldStay(records) /\ Fair(records) /\ Known(records) /\ LayoutSeen
      /\ \A k \in DOMAIN records : Said(k, records[k])
  BY DEF KeptInv, OnceInv, PlanningInv, Underway, Drawing, Answering, Groups, Undisturbed
<1>2. /\ \A k \in DOMAIN records : RecordOK(records[k]) /\ k \in Videos
      /\ g.winner \subseteq g.candidates
  BY <1>1 DEF PlanningInv, CommandOK, RecordsOK, CatalogOK
<1>3. ASSUME NEW k \in DOMAIN records
      PROVE  /\ LiesAt(k, records[k].at) /\ Rooted(records[k])
             /\ Claims(records[k]) => /\ Normal(records[k].find)
                                      /\ records[k].dest = Destination(k, records[k].find)
             /\ records[k].status = "held" <=> records[k].at \in catalog.holds
  BY <1>1 DEF Rows, Kept, Grounded, HeldStay
<1>4. ASSUME NEW k \in DOMAIN records, IsManaged(records[k].at), Claims(records[k])
      PROVE  records[k].dest = records[k].at
  BY <1>3, <1>4 DEF Rooted, Undisturbed, OrganizedReopened
<1>5. Claims(records[f]) /\ ~IsManaged(records[f].at)
  BY <1>4 DEF Claims, Goes
<1>6. \A path \in g.candidates : path \in PreferredPaths => path \in g.winner
  BY <1>1 DEF PreferredPaths, PlanningInv, CatalogOK, Disjoint
<1>7. ~Favoured(records[f])
  BY <1>6 DEF Favoured
<1>8. records[f].status # "held"
  BY DEF Goes
<1>9. ASSUME NEW k \in DOMAIN records, records[k].at \in g.candidates, Claims(records[k]),
             records[k].at \notin catalog.holds
      PROVE  Keyed(k, records[k].find, g.key)
  BY <1>1, <1>2, <1>3, <1>9, ClaimFits
<1>10. Keyed(f, records[f].find, g.key)
  BY <1>3, <1>5, <1>8, <1>9
<1>11. ASSUME NEW k \in DOMAIN records, Claims(records[k]), Favoured(records[k]), k # f,
              Meets(records[k], f, records[f].find)
       PROVE  FALSE
  <2>1. SameEpisodes(records[f], records[k]) \/ records[f].dest = records[k].dest
    BY <1>3, <1>5, <1>11 DEF SameEpisodes, Meets
  <2> QED
    BY <1>1, <1>7, <1>11, <2>1 DEF Fair
<1>12. PICK q \in g.winner : TRUE
  OBVIOUS
<1>13. ASSUME NEW k \in DOMAIN records, records[k].at = q
       PROVE  FALSE
  <2>1. q \notin catalog.holds /\ q \in g.candidates
    BY <1>2 DEF Revised
  <2>2. records[k].status # "held"
    BY <1>3, <1>13, <2>1
  <2>3. Claims(records[k])
    BY <1>2, <1>13, <2>1, <2>2, SettledClaims
  <2>4. Keyed(k, records[k].find, g.key)
    BY <1>9, <1>13, <2>1, <2>3
  <2>5. /\ Normal(records[k].find) /\ records[k].dest = Destination(k, records[k].find)
        /\ Normal(records[f].find)
    BY <1>3, <1>5, <2>3
  <2>6. Meets(records[k], f, records[f].find)
    BY <1>10, <2>4, <2>5, KeysMeet DEF Meets
  <2>7. Favoured(records[k]) /\ k # f
    BY <1>13 DEF Favoured, PreferredPaths
  <2> QED
    BY <1>11, <2>3, <2>6, <2>7
<1>14. q \notin Singled
  BY <1>1, <1>13 DEF Known
<1>15. PICK w \in Videos : /\ LiesAt(w, q) /\ SeenOrAway(w)
                           /\ Whereabouts(w, q, Base(FoundAt(w, q)))
  BY <1>1, <1>14 DEF Accounted
<1> DEFINE other == FoundAt(w, q)
<1>16. Keyed(w, other, g.key) /\ Normal(other)
  <2>1. Keyed(w, other, g.key)
    BY <1>1, <1>2, <1>12, <1>14, <1>15 DEF Fitting
  <2> QED
    BY <1>1, <2>1, FoundNormal
<1> HIDE DEF other
<1>17. library[w].at # q
  <2>1. SUFFICES ASSUME library[w].at = q
                 PROVE  FALSE
    OBVIOUS
  <2>2. q.base[1] # "quarantine"
    <3>1. Inbox(w).base[1] = "inbox"
      BY DEF Inbox, Path
    <3> QED
      BY <1>15, <3>1 DEF LiesAt, IsManaged
  <2>3. w \in DOMAIN command.seen /\ command.seen[w].at = q
    BY <1>15, <2>1, <2>2 DEF SeenOrAway
  <2>4. w \in DOMAIN records /\ records[w].at = q
    BY <1>1, <2>3 DEF Drawn
  <2> QED
    BY <1>13, <2>4
<1>18. PICK v \in Videos :
         /\ IsManaged(library[v].at) /\ library[v].at.base = Base(other)
         /\ Base(other)[1] = "extras" => library[v].at = Path(Base(other), <<ExtensionOf[w]>>)
  <2>1. \/ IsManaged(library[w].at) /\ library[w].at.base = Base(other)
        \/ library[w].at.base[1] = "quarantine" /\ library[w].at.tail[1] = Base(other)
    BY <1>15, <1>17 DEF Whereabouts, other
  <2> QED
    BY <2>1, WinnerStands
<1>19. v \in DOMAIN records /\ records[v].at = library[v].at
  <2>1. v \in DOMAIN command.seen /\ command.seen[v].at = library[v].at
    BY <1>1, <1>18 DEF LayoutSeen
  <2> QED
    BY <1>1, <2>1 DEF Drawn
<1>20. Claims(records[v])
  <2>1. records[v].at \notin catalog.holds
    BY <1>18, <1>19 DEF Undisturbed, OrganizedReopened
  <2>2. records[v].status # "held"
    BY <1>3, <1>19, <2>1
  <2>3. RecordOK(records[v]) /\ IsManaged(records[v].at)
    BY <1>2, <1>18, <1>19
  <2>4. CASE records[v].status \notin {"suspicious", "unresolved"}
    BY <2>2, <2>3, <2>4, SettledClaims
  <2> QED
    BY <1>19, <2>3, <2>4
<1>21. records[v].dest = records[v].at
  BY <1>4, <1>18, <1>19, <1>20
<1>22. Meets(records[v], f, records[f].find)
  <2>1. Grounded(v, records[v])
    BY <1>1, <1>19 DEF Rows
  <2>2. Normal(records[f].find)
    BY <1>3, <1>5
  <2>3. Takes(records[v], w, other)
    BY <1>18, <1>19, <1>21 DEF Takes
  <2> QED
    BY <1>10, <1>16, <1>20, <2>1, <2>2, <2>3, StandsInWay
<1>23. Favoured(records[v]) /\ v # f
  BY <1>5, <1>18, <1>19, <1>21 DEF Favoured
<1> QED
  BY <1>11, <1>19, <1>20, <1>22, <1>23

\* What a plan decides under the contract honours its groups.
LEMMA Honours ==
  ASSUME KeptInv, Groups, ExtrasKept, Underway, command.pc = "binding",
         \A g \in catalog.groups : InForce(g),
         NEW ruled, DOMAIN ruled = DOMAIN command.records,
         \A f \in DOMAIN command.records :
           \/ /\ Claims(command.records[f])
              /\ \E g \in catalog.groups :
                   f \in Members(g) /\ (Goes(ruled[f]) => ruled[f].at \in g.winner)
           \/ ruled[f] = command.records[f] /\ \A g \in catalog.groups : f \notin Members(g)
  PROVE  Honoured(ruled)
<1> DEFINE records == command.records
<1>1. SUFFICES ASSUME NEW g \in catalog.groups, Undisturbed, ~Revised(g), AllSettled(ruled),
                      NEW f \in DOMAIN records, ruled[f].at \in g.candidates \ g.winner,
                      Goes(ruled[f]), ruled[f].dest # ruled[f].at
               PROVE  FALSE
  BY DEF Honoured
<1>2. /\ Disjoint /\ Complete(records)
      /\ \A k \in DOMAIN records : RecordOK(records[k])
      /\ \A h \in catalog.groups : h.winner \subseteq h.candidates
  BY DEF KeptInv, OnceInv, PlanningInv, CommandOK, RecordsOK, CatalogOK, Underway, Drawing, Answering, Rows
<1>3. ruled[f] = records[f] /\ f \notin Members(g)
  BY <1>1, <1>2 DEF Disjoint
<1>4. Members(g) = {}
  <2>1. SUFFICES ASSUME NEW m \in Members(g)
                 PROVE  FALSE
    OBVIOUS
  <2>2. PICK d \in records[m].dup : d.key = g.key /\ d.candidates = g.candidates
    BY DEF Members
  <2>3. records[f].dup = {d}
    BY <1>1, <1>2, <1>3, <2>2 DEF Complete, Members
  <2> QED
    BY <1>3, <2>2, <2>3 DEF Members
<1>5. g.winner # {}
  BY <1>4 DEF InForce, Groups
<1>6. ASSUME NEW k \in DOMAIN records
      PROVE  \/ Claims(records[k])
             \/ records[k].status \notin {"suspicious", "unresolved"}
  BY <1>1 DEF AllSettled
<1> QED
  BY <1>1, <1>3, <1>5, <1>6, TurnedDownStays

-------------------------------------------------------------------------------
(* The steps of the command. *)

\* What the reviews and the library mean stays while neither changes.
LEMMA SameMeaning ==
  ASSUME UNCHANGED <<library, finds, touched, catalog>>
  PROVE  /\ Undisturbed' <=> Undisturbed
         /\ OrganizedReopened' <=> OrganizedReopened
         /\ Singled' = Singled
         /\ \A f, path : FoundAt(f, path)' = FoundAt(f, path)
         /\ \A f, path : LiesAt(f, path)' <=> LiesAt(f, path)
         /\ \A f, path, base : Whereabouts(f, path, base)' <=> Whereabouts(f, path, base)
         /\ \A g : Fitting(g)' <=> Fitting(g)
<1>1. /\ library' = library /\ finds' = finds /\ touched' = touched /\ catalog' = catalog
  OBVIOUS
<1>2. OrganizedReopened' <=> OrganizedReopened
  BY <1>1 DEF OrganizedReopened
<1>3. Undisturbed' <=> Undisturbed
  BY <1>1, <1>2 DEF Undisturbed, NobodyRemoved
<1>4. Singled' = Singled
  BY <1>1 DEF Singled
<1>5. \A f, path : FoundAt(f, path)' = FoundAt(f, path)
  BY <1>1 DEF FoundAt
<1>6. \A f, path : LiesAt(f, path)' <=> LiesAt(f, path)
  BY <1>1 DEF LiesAt, AtHome, FoundAt
<1>7. \A f, path, base : Whereabouts(f, path, base)' <=> Whereabouts(f, path, base)
  BY <1>1 DEF Whereabouts
<1>8. \A g : Fitting(g)' <=> Fitting(g)
  BY <1>4, <1>5, <1>6 DEF Fitting
<1> QED
  BY <1>2, <1>3, <1>4, <1>5, <1>6, <1>7, <1>8

\* What a command reads and draws up, while it changes nothing.
LEMMA GroupsStand ==
  ASSUME Groups, ExtrasKept, UNCHANGED <<library, finds, touched, catalog>>,
         \A f \in Videos : \A path, base :
           LiesAt(f, path) /\ SeenOrAway(f) /\ Whereabouts(f, path, base) => SeenOrAway(f)'
  PROVE  Groups' /\ ExtrasKept'
<1>1. /\ library' = library /\ finds' = finds /\ touched' = touched /\ catalog' = catalog
  OBVIOUS
<1>2. /\ Undisturbed' <=> Undisturbed
      /\ OrganizedReopened' <=> OrganizedReopened
      /\ Singled' = Singled
      /\ \A f, path : FoundAt(f, path)' = FoundAt(f, path)
      /\ \A f, path : LiesAt(f, path)' <=> LiesAt(f, path)
      /\ \A f, path, base : Whereabouts(f, path, base)' <=> Whereabouts(f, path, base)
      /\ \A g : Fitting(g)' <=> Fitting(g)
  BY SameMeaning
<1>3. ExtrasKept'
  BY <1>1, <1>2 DEF ExtrasKept
<1>4. ASSUME NEW g \in catalog.groups
      PROVE  Accounted(g)'
  <2>1. SUFFICES ASSUME NEW path \in g.winner, Undisturbed, path \notin Singled
                 PROVE  \E f \in Videos :
                          /\ LiesAt(f, path) /\ SeenOrAway(f)'
                          /\ Whereabouts(f, path, Base(FoundAt(f, path)))
    <3>1. \A f, path : Whereabouts(f, path, Base(FoundAt(f, path)))' <=>
                        Whereabouts(f, path, Base(FoundAt(f, path)))
      BY <1>1, <1>2 DEF Whereabouts
    <3> QED
      BY <1>2, <3>1 DEF Accounted
  <2>2. PICK f \in Videos : /\ LiesAt(f, path) /\ SeenOrAway(f)
                            /\ Whereabouts(f, path, Base(FoundAt(f, path)))
    BY <2>1 DEF Groups, Accounted
  <2> QED
    BY <2>2
<1> QED
  BY <1>1, <1>2, <1>3, <1>4 DEF Groups

\* What a bundle says stands as long as its meaning does.
LEMMA BundleStands ==
  ASSUME NEW p, Stands(p), UNCHANGED <<library, finds, touched, catalog>>
  PROVE  Stands(p)'
<1>1. /\ Undisturbed' <=> Undisturbed
      /\ Singled' = Singled
      /\ library' = library /\ finds' = finds
  BY SameMeaning
<1>2. Rows(p.records)'
  BY <1>1 DEF Stands, Rows, LiesAt, AtHome, FoundAt, Complete, Grounded
<1>3. \A f \in DOMAIN p.records :
        /\ FoundAt(f, p.records[f].at)' = FoundAt(f, p.records[f].at)
        /\ Whereabouts(f, p.records[f].at, p.records[f].dest.base)' <=>
           Whereabouts(f, p.records[f].at, p.records[f].dest.base)
  BY <1>1 DEF FoundAt, Whereabouts
<1> QED
  BY <1>1, <1>2, <1>3 DEF Stands

LEMMA CommandChoices ==
  ASSUME ChoicesInv, KeptInv', Underway', Draws,
         \A f \in Videos : \A path, base :
           LiesAt(f, path) /\ SeenOrAway(f) /\ Whereabouts(f, path, base) => SeenOrAway(f)'
  PROVE  ChoicesInv'
<1>1. UNCHANGED <<library, finds, touched, catalog>> /\ plan' = plan /\ saved' = saved
  BY DEF Draws, Reads
<1>2. Groups' /\ ExtrasKept'
  BY <1>1, GroupsStand DEF ChoicesInv
<1>3. PlanStands'
  <2>1. Undisturbed' <=> Undisturbed
    BY <1>1, SameMeaning
  <2>2. PlanStands
    BY DEF ChoicesInv
  <2>3. HeldStay(plan.records)' <=> HeldStay(plan.records)
    BY <1>1 DEF HeldStay
  <2>4. Honoured(plan.records)' <=> Honoured(plan.records)
    <3>1. catalog' = catalog /\ \A g : Revised(g)' <=> Revised(g)
      BY <1>1 DEF Revised
    <3> QED
      BY <1>1, <2>1, <3>1 DEF Honoured, AllSettled
  <2>5. ASSUME NEW p \in Bundles
        PROVE  Stands(p)'
    BY <1>1, <2>2, BundleStands DEF PlanStands
  <2>6. AllSettled(plan.records)' <=> AllSettled(plan.records)
    BY <1>1 DEF AllSettled
  <2>7. Bundles' = Bundles
    BY <1>1 DEF Bundles
  <2> QED
    BY <1>1, <2>2, <2>3, <2>4, <2>5, <2>6, <2>7 DEF PlanStands
<1> QED
  BY <1>2, <1>3 DEF ChoicesInv

LEMMA StopChoices ==
  ASSUME ChoicesInv, KeptInv', Draws, command' = Idle
  PROVE  ChoicesInv'
<1>1. command'.pc = "idle"
  BY DEF Idle
<1>2. Underway'
  BY <1>1 DEF Underway, Drawing, Answering
<1>3. \A f \in Videos : SeenOrAway(f)'
  BY <1>1 DEF SeenOrAway
<1> QED
  BY <1>2, <1>3, CommandChoices

LEMMA ScanChoices ==
  ASSUME ChoicesInv, Scan
  PROVE  ChoicesInv'
<1> DEFINE seen == Scanned(library)
<1>1. \/ command' = Idle
      \/ /\ command' = [Idle EXCEPT !.pc = "scanned", !.seen = seen]
         /\ catalog.holds \subseteq {seen[f].at : f \in DOMAIN seen}
  BY DEF Scan, GoesOn
<1>2. Draws /\ catalog' = catalog
  BY DEF Scan, Draws, Reads
<1>3. KeptInv' /\ KeptInv
  BY ScanKept DEF ChoicesInv
<1>4. DOMAIN seen = {f \in Videos : library[f].at = Inbox(f) \/ IsManaged(library[f].at)}
      /\ \A f \in DOMAIN seen : seen[f] = library[f]
  BY DEF Scanned
<1> HIDE DEF seen
<1>5. CASE command' = Idle
  BY <1>2, <1>3, <1>5, StopChoices
<1>6. CASE /\ command' = [Idle EXCEPT !.pc = "scanned", !.seen = seen]
           /\ catalog.holds \subseteq {seen[f].at : f \in DOMAIN seen}
  <2>1. command' = [pc |-> "scanned", seen |-> seen, records |-> Empty, companions |-> Empty,
                    again |-> Empty]
    BY <1>6, IdleOK, CommandSees DEF Idle
  <2>2. command'.pc = "scanned" /\ command'.seen = seen /\ command'.pc \notin Drawing
    BY <2>1 DEF Drawing, Answering
  <2>3. library' = library
    BY <1>2 DEF Draws, Reads
  <2>4. LayoutSeen'
    BY <1>4, <2>2, <2>3 DEF LayoutSeen
  <2>5. \A f \in DOMAIN seen : LiesAt(f, seen[f].at)
    BY <1>3, <1>4 DEF LiesAt, KeptInv
  <2>6. Underway'
    <3>1. \A f \in DOMAIN command'.seen : LiesAt(f, command.seen[f].at)'
      BY <1>2, <2>2, <2>5 DEF Draws, Reads, LiesAt, AtHome, FoundAt
    <3> QED
      BY <1>2, <1>6, <2>2, <2>4, <3>1 DEF Underway
  <2>7. ASSUME NEW f \in Videos, NEW path, NEW base, LiesAt(f, path), Whereabouts(f, path, base)
        PROVE  SeenOrAway(f)'
    <3>1. \/ f \in DOMAIN seen
          \/ library[f].at.base[1] = "quarantine"
      BY <1>4, <2>7 DEF LiesAt, Whereabouts
    <3> QED
      BY <1>4, <2>2, <2>3, <3>1 DEF SeenOrAway
  <2> QED
    BY <1>2, <1>3, <2>6, <2>7, CommandChoices
<1> QED
  BY <1>1, <1>5, <1>6

LEMMA RecordsChoices ==
  ASSUME ChoicesInv, KeptInv', Draws, command.pc # "idle",
         NEW pc \in {"drafted", "extended", "planned"}, NEW records, NEW companions,
         DrawsUp(pc, records, companions),
         Rows(records), HeldStay(records),
         pc = "drafted" => \A f \in DOMAIN records :
           Claims(records[f]) => records[f].find = FoundAt(f, records[f].at),
         pc \in {"extended", "planned"} => \A f \in DOMAIN records : Said(f, records[f]),
         pc = "extended" => Fair(records) /\ Known(records),
         pc = "planned" => Honoured(records)
  PROVE  ChoicesInv'
<1>1. IsCommand(command)
  BY DEF ChoicesInv, KeptInv, OnceInv, PlanningInv, CommandOK
<1>3. command'.pc = pc /\ command'.seen = command.seen /\ command'.records = records
  BY <1>1, CommandDraws
<1>4. /\ library' = library /\ finds' = finds /\ touched' = touched /\ catalog' = catalog
  BY DEF Draws, Reads
<1>5. /\ LayoutSeen /\ \A f \in DOMAIN command.seen : LiesAt(f, command.seen[f].at)
      /\ \A path \in catalog.holds : \E f \in DOMAIN command.seen : command.seen[f].at = path
  BY DEF ChoicesInv, Underway
<1>6. LayoutSeen'
  BY <1>3, <1>4, <1>5 DEF LayoutSeen
<1>7. \A f \in DOMAIN command.seen : LiesAt(f, command.seen[f].at)'
  BY <1>3, <1>4, <1>5 DEF LiesAt, AtHome, FoundAt
<1>8. Rows(command.records)'
  BY <1>3, <1>4 DEF Rows, LiesAt, AtHome, FoundAt, Complete, Grounded
<1>9. HeldStay(command.records)'
  BY <1>3, <1>4 DEF HeldStay
<1>10. pc = "drafted" => \A f \in DOMAIN records :
         Claims(records[f]) => records[f].find = FoundAt(f, command.records[f].at)'
  BY <1>3, <1>4 DEF FoundAt
<1>11. pc \in {"extended", "planned"} =>
         \A f \in DOMAIN records : Said(f, command.records[f])'
  BY <1>3, <1>4 DEF Said, FoundAt, Claims
<1>12. pc = "extended" => Fair(command.records)' /\ Known(command.records)'
  BY <1>3, <1>4 DEF Fair, Known, Favoured, PreferredPaths, Singled, Goes, Claims, SameEpisodes
<1>13. pc = "planned" => Honoured(command.records)'
  <2>1. Undisturbed' <=> Undisturbed
    BY <1>4 DEF Undisturbed, NobodyRemoved, OrganizedReopened
  <2>2. \A g : Revised(g)' <=> Revised(g)
    BY <1>4 DEF Revised
  <2> QED
    BY <1>3, <1>4, <2>1, <2>2 DEF Honoured, AllSettled, Goes
<1>14. Underway'
  BY <1>3, <1>4, <1>5, <1>6, <1>7, <1>8, <1>9, <1>10, <1>11, <1>12, <1>13 DEF Underway, Claims
<1>15. ASSUME NEW f \in Videos, SeenOrAway(f)
       PROVE  SeenOrAway(f)'
  BY <1>3, <1>4, <1>15 DEF SeenOrAway
<1> QED
  BY <1>14, <1>15, CommandChoices

\* A draft without a contract has nothing to honour.
LEMMA DraftPlanChoices ==
  ASSUME ChoicesInv, DraftPlan
  PROVE  ChoicesInv'
<1> DEFINE seen == command.seen
           held == {f \in DOMAIN seen : seen[f].at \in catalog.holds}
           found == [f \in DOMAIN seen |-> FoundAt(f, seen[f].at)]
           drafted == Draft(seen, found, held)
           records == DecideDuplicates(drafted, PreferredPaths)
           companions == PlanCompanions(DiscoverSidecars(library, seen), records)
           next(pc) == [command EXCEPT !.pc = pc, !.records = records,
                                       !.companions = companions]
<1>1. \E pc \in Drafted : command' = next(pc) \/ command' = Idle
  BY DEF DraftPlan, GoesOn
<1>2. Draws /\ command.pc = "scanned"
  BY DEF DraftPlan
<1>3. /\ PlanningInv /\ KeptInv /\ KeptInv' /\ finds \in Findings /\ CatalogOK
  BY DraftPlanKept DEF ChoicesInv, KeptInv, OnceInv, PlanningInv
<1>4. /\ DOMAIN seen \subseteq Videos /\ SeenAll(seen)
      /\ \A f \in DOMAIN seen : LiesAt(f, seen[f].at)
  BY <1>2 DEF ChoicesInv, KeptInv, OnceInv, PlanningInv, CommandOK, Underway
<1>5. /\ \A f \in held : ReviewedHere(seen[f].at)
      /\ \A f \in DOMAIN seen : f \in held <=> seen[f].at \in catalog.holds
  BY DEF ReviewedHere
<1>6. \A f \in DOMAIN seen : found[f] = FoundAt(f, seen[f].at)
  OBVIOUS
<1>a. \A pc \in Drafted : /\ pc \in {"drafted", "extended", "planned"} /\ pc # "extended"
                          /\ pc = "planned" => catalog = NoCatalog
  BY DEF Drafted, Reviewed
<1> HIDE DEF found, held, seen, companions
<1>7. DOMAIN drafted = DOMAIN seen /\ Undecided(drafted)
      /\ \A f \in DOMAIN seen : drafted[f].at = seen[f].at
  BY <1>3, <1>4, <1>5, <1>6, DraftUndecided
<1>8. \A f \in DOMAIN seen :
        /\ drafted[f].dup = {}
        /\ Claims(drafted[f]) => drafted[f].find = FoundAt(f, drafted[f].at)
        /\ drafted[f].status = "held" <=> drafted[f].at \in catalog.holds
  BY <1>3, <1>4, <1>5, <1>6, <1>7, DraftSays
<1> HIDE DEF drafted
<1>9. Rows(records)
  BY <1>3, <1>4, <1>7, DecideComplete
<1>10. /\ DOMAIN records = DOMAIN drafted /\ HeldStay(records)
       /\ \A f \in DOMAIN records : Claims(records[f]) => records[f].find = FoundAt(f, records[f].at)
  <2>1. RecordsOK(drafted) /\ \A f \in DOMAIN drafted : drafted[f].dup = {}
    BY <1>7, <1>8 DEF Undecided
  <2> QED
    BY <1>7, <1>8, <2>1, DecideSaid
<1> HIDE DEF records
<1>11. ASSUME catalog = NoCatalog
       PROVE  Honoured(records) /\ \A f \in DOMAIN records : Said(f, records[f])
  <2>1. catalog.groups = {} /\ catalog.sources = {}
    BY <1>11 DEF NoCatalog
  <2> QED
    BY <1>10, <2>1 DEF Honoured, Said
<1>12. CASE command' = Idle
  BY <1>2, <1>3, <1>12, StopChoices
<1>13. ASSUME NEW pc \in Drafted, command' = next(pc)
       PROVE  ChoicesInv'
  <2>1. DrawsUp(pc, records, companions)
    BY <1>13 DEF DrawsUp
  <2>2. /\ pc \in {"drafted", "extended", "planned"} /\ pc # "extended"
        /\ pc = "drafted" => \A f \in DOMAIN records :
             Claims(records[f]) => records[f].find = FoundAt(f, records[f].at)
        /\ pc \in {"extended", "planned"} => \A f \in DOMAIN records : Said(f, records[f])
        /\ pc = "extended" => Fair(records) /\ Known(records)
        /\ pc = "planned" => Honoured(records)
    <3>1. /\ pc \in {"drafted", "extended", "planned"} /\ pc # "extended"
          /\ pc = "planned" => catalog = NoCatalog
      BY <1>a
    <3>2. CASE pc = "planned"
      BY <1>11, <3>1, <3>2
    <3>3. CASE pc = "drafted"
      BY <1>10, <3>3
    <3> QED
      BY <3>1, <3>2, <3>3
  <2>3. command.pc # "idle"
    BY <1>2
  <2> HIDE DEF next
  <2> QED
    BY <1>2, <1>3, <1>9, <1>10, <2>1, <2>2, <2>3, RecordsChoices
<1> QED
  BY <1>1, <1>12, <1>13

\* The second and third reading of the videos are for their sidecars.
LEMMA RereadChoices ==
  ASSUME ChoicesInv, Reread
  PROVE  ChoicesInv'
<1>1. IsCommand(command) /\ KeptInv'
  BY RereadKept DEF ChoicesInv, KeptInv, OnceInv, PlanningInv, CommandOK
<1>2. /\ command'.pc = (IF command.pc = "drafted" THEN "extending" ELSE "binding")
      /\ command'.seen = command.seen /\ command'.records = command.records /\ Draws
      /\ command.pc \in {"drafted", "extended"}
  BY <1>1, CommandRereads
<1>3. /\ library' = library /\ finds' = finds /\ touched' = touched /\ catalog' = catalog
  BY <1>2 DEF Draws, Reads
<1>4. /\ LayoutSeen /\ \A f \in DOMAIN command.seen : LiesAt(f, command.seen[f].at)
      /\ \A path \in catalog.holds : \E f \in DOMAIN command.seen : command.seen[f].at = path
      /\ Rows(command.records) /\ HeldStay(command.records)
      /\ command.pc = "drafted" => \A f \in DOMAIN command.records :
           Claims(command.records[f]) =>
             command.records[f].find = FoundAt(f, command.records[f].at)
      /\ command.pc = "extended" =>
           /\ \A f \in DOMAIN command.records : Said(f, command.records[f])
           /\ Fair(command.records) /\ Known(command.records)
  BY <1>2 DEF ChoicesInv, Underway, Drawing, Answering
<1>5. LayoutSeen' /\ \A f \in DOMAIN command.seen : LiesAt(f, command.seen[f].at)'
  BY <1>2, <1>3, <1>4 DEF LayoutSeen, LiesAt, AtHome, FoundAt
<1>6. Rows(command.records)'
  BY <1>2, <1>3, <1>4 DEF Rows, LiesAt, AtHome, FoundAt, Complete, Grounded
<1>7. HeldStay(command.records)'
  BY <1>2, <1>3, <1>4 DEF HeldStay
<1>8. command.pc = "drafted" => \A f \in DOMAIN command.records :
        Claims(command.records[f]) =>
          command.records[f].find = FoundAt(f, command.records[f].at)'
  BY <1>2, <1>3, <1>4 DEF FoundAt
<1>9. command.pc = "extended" =>
        \A f \in DOMAIN command.records : Said(f, command.records[f])'
  BY <1>2, <1>3, <1>4 DEF Said, FoundAt, Claims
<1>10. command.pc = "extended" => Fair(command.records)' /\ Known(command.records)'
  BY <1>2, <1>3, <1>4 DEF Fair, Known, Favoured, PreferredPaths, Singled, Goes, Claims,
                          SameEpisodes
<1>11. Underway'
  BY <1>2, <1>3, <1>4, <1>5, <1>6, <1>7, <1>8, <1>9, <1>10 DEF Underway, Claims
<1>12. ASSUME NEW f \in Videos, SeenOrAway(f)
       PROVE  SeenOrAway(f)'
  BY <1>2, <1>3, <1>12 DEF SeenOrAway
<1> QED
  BY <1>1, <1>2, <1>11, <1>12, CommandChoices

LEMMA ExtendChoices ==
  ASSUME ChoicesInv, Extend
  PROVE  ChoicesInv'
<1> DEFINE sidecars == DiscoverSidecars(library, command.again)
           answered == [f \in DOMAIN command.records |-> Answered(f)]
           records == DecideDuplicates(answered, PreferredPaths)
           companions == PlanCompanions(sidecars, records)
           known == {command.records[f].at : f \in DOMAIN command.records}
<1>1. \/ command' = Idle
      \/ /\ \A f \in DOMAIN command.records : Answerable(f)
         /\ \A d \in catalog.sources : d.at \in known
         /\ command' = [command EXCEPT !.pc = "extended", !.records = records,
                                       !.companions = companions, !.again = Empty]
  BY DEF Extend, GoesOn
<1>2. Draws /\ command.pc = "extending"
  BY DEF Extend
<1>3. PlanningInv /\ KeptInv /\ KeptInv' /\ CatalogOK
  BY ExtendKept DEF ChoicesInv, KeptInv, OnceInv, PlanningInv
<1>4. /\ SeenAll(command.seen) /\ Drawn(command.seen, command.records)
      /\ HeldStay(command.records)
      /\ catalog.holds \cap {d.at : d \in catalog.sources} = {}
      /\ \A f \in DOMAIN command.records :
           Claims(command.records[f]) =>
             command.records[f].find = FoundAt(f, command.records[f].at)
      /\ \A f \in DOMAIN command.seen : LiesAt(f, command.seen[f].at)
      /\ \A path \in catalog.holds : \E f \in DOMAIN command.seen : command.seen[f].at = path
  BY <1>2 DEF ChoicesInv, KeptInv, OnceInv, Underway, Drawing, Answering, Groups
<1>5. CASE command' = Idle
  BY <1>2, <1>3, <1>5, StopChoices
<1>6. CASE /\ \A f \in DOMAIN command.records : Answerable(f)
           /\ \A d \in catalog.sources : d.at \in known
           /\ command' = [command EXCEPT !.pc = "extended", !.records = records,
                                         !.companions = companions, !.again = Empty]
  <2>1. Undecided(answered) /\ \A f \in DOMAIN answered : answered[f].at = command.seen[f].at
    BY <1>3, <1>4, <1>6, AnsweredUndecided
  <2>2. /\ DOMAIN answered = DOMAIN command.records
        /\ DOMAIN command.records = DOMAIN command.seen
        /\ \A f \in DOMAIN command.records : command.records[f].at = command.seen[f].at
    BY <1>4 DEF Drawn
  <2>3. ASSUME NEW f \in DOMAIN command.records
        PROVE  /\ answered[f].dup = {} /\ Said(f, answered[f])
               /\ answered[f].status = "held" <=> answered[f].at \in catalog.holds
    <3>1. Answerable(f)
      BY <1>6
    <3>2. answered[f] = Answered(f)
      OBVIOUS
    <3> HIDE DEF answered
    <3> QED
      BY <1>3, <1>4, <3>1, <3>2, AnsweredSays
  <2>4. \A d \in catalog.sources : \E f \in DOMAIN command.records : command.records[f].at = d.at
    BY <1>6
  <2> HIDE DEF answered, companions, known
  <2>5. Known(answered)
    <3>1. SUFFICES ASSUME NEW path \in Singled
                   PROVE  \E f \in DOMAIN answered : answered[f].at = path
      BY DEF Known
    <3> QED
      BY <1>4, <2>1, <2>2, <2>4 DEF Singled
  <2>6. Rows(records) /\ Fair(records)
    BY <1>3, <1>4, <2>1, <2>2, DecideComplete
  <2>7. /\ DOMAIN records = DOMAIN answered /\ HeldStay(records) /\ Known(records)
        /\ \A f \in DOMAIN records : Said(f, records[f])
    <3>1. RecordsOK(answered) /\ \A f \in DOMAIN answered : answered[f].dup = {}
      BY <2>1 DEF Undecided
    <3> QED
      BY <2>2, <2>3, <2>5, <3>1, DecideSaid
  <2> HIDE DEF records
  <2>8. DrawsUp("extended", records, companions)
    BY <1>6 DEF DrawsUp
  <2> QED
    BY <1>2, <1>3, <2>6, <2>7, <2>8, RecordsChoices
<1> QED
  BY <1>1, <1>5, <1>6

LEMMA BindChoices ==
  ASSUME ChoicesInv, Bind
  PROVE  ChoicesInv'
<1> DEFINE sidecars == DiscoverSidecars(library, command.again)
           ruled == [f \in DOMAIN command.records |->
                       IF \E g \in catalog.groups : f \in Members(g)
                       THEN Ruled(f, CHOOSE g \in catalog.groups : f \in Members(g))
                       ELSE command.records[f]]
           companions == PlanCompanions(sidecars, ruled)
<1>1. \/ command' = Idle
      \/ /\ \A g \in catalog.groups : InForce(g)
         /\ command' = [command EXCEPT !.pc = "planned", !.records = ruled,
                                       !.companions = companions, !.again = Empty]
  BY DEF Bind, GoesOn
<1>2. Draws /\ command.pc = "binding"
  BY DEF Bind
<1>3. PlanningInv /\ KeptInv /\ KeptInv' /\ Disjoint
  BY BindKept DEF ChoicesInv, KeptInv, OnceInv
<1>4. /\ Kept(command.records) /\ Rows(command.records) /\ HeldStay(command.records)
      /\ \A f \in DOMAIN command.records : Said(f, command.records[f])
      /\ Groups /\ ExtrasKept /\ Underway
  BY <1>2 DEF ChoicesInv, KeptInv, Underway, Drawing, Answering
<1>5. DOMAIN ruled = DOMAIN command.records
  OBVIOUS
<1>6. \A f \in DOMAIN command.records :
        \/ \E g \in catalog.groups : f \in Members(g) /\ ruled[f] = Ruled(f, g)
        \/ ruled[f] = command.records[f] /\ \A g \in catalog.groups : f \notin Members(g)
  OBVIOUS
<1> HIDE DEF ruled, companions
<1>7. /\ Rows(ruled) /\ HeldStay(ruled) /\ \A f \in DOMAIN ruled : Said(f, ruled[f])
      /\ \A f \in DOMAIN ruled :
           \/ /\ Claims(command.records[f])
              /\ \E g \in catalog.groups :
                   f \in Members(g) /\ (Goes(ruled[f]) => ruled[f].at \in g.winner)
           \/ ruled[f] = command.records[f] /\ \A g \in catalog.groups : f \notin Members(g)
  BY <1>3, <1>4, <1>5, <1>6, RuledRows
<1>8. CASE command' = Idle
  BY <1>2, <1>3, <1>8, StopChoices
<1>9. CASE /\ \A g \in catalog.groups : InForce(g)
           /\ command' = [command EXCEPT !.pc = "planned", !.records = ruled,
                                         !.companions = companions, !.again = Empty]
  <2>1. Honoured(ruled)
    BY <1>2, <1>3, <1>4, <1>5, <1>7, <1>9, Honours
  <2>2. DrawsUp("planned", ruled, companions)
    BY <1>9 DEF DrawsUp
  <2> QED
    BY <1>2, <1>3, <1>7, <2>1, <2>2, RecordsChoices
<1> QED
  BY <1>1, <1>8, <1>9

LEMMA PublishChoices ==
  ASSUME ChoicesInv, Publish
  PROVE  ChoicesInv'
<1> DEFINE new == [NoPlan EXCEPT !.records = command.records,
                                 !.companions = command.companions, !.latest = TRUE]
           ready == PreflightReady(new, library)
<1>1. /\ plan' = [new EXCEPT !.ready = ready] /\ command' = Idle /\ Reads
      /\ command.pc = "planned" /\ saved' \subseteq saved \cup {Past(plan)}
  BY DEF Publish
<1>2. new = [records |-> command.records, companions |-> command.companions,
             ready |-> FALSE, latest |-> TRUE]
  BY PlanDrawnUp
<1>3. ready => Settled(new)
  BY DEF PreflightReady
<1> HIDE DEF new, ready
<1>4. plan' = [records |-> command.records, companions |-> command.companions,
               ready |-> ready, latest |-> TRUE]
  BY <1>1, <1>2
<1>5. plan'.records = command.records /\ (plan'.ready <=> ready) /\ plan'.latest
  BY <1>4
<1>6. /\ library' = library /\ catalog' = catalog /\ finds' = finds /\ touched' = touched
  BY <1>1 DEF Reads
<1>7. /\ KeptInv /\ KeptInv' /\ Groups /\ ExtrasKept
      /\ Drawn(command.seen, command.records) /\ Reading(command.seen)
      /\ Rows(command.records) /\ HeldStay(command.records) /\ Honoured(command.records)
      /\ \A f \in DOMAIN command.records : Said(f, command.records[f])
  BY <1>1, PublishKept DEF ChoicesInv, KeptInv, OnceInv, Underway, Drawing, Answering
<1>8. command'.pc = "idle"
  BY <1>1 DEF Idle
<1>9. Groups' /\ ExtrasKept'
  <2>1. \A f \in Videos : SeenOrAway(f)'
    BY <1>8 DEF SeenOrAway
  <2> QED
    BY <1>6, <1>7, <2>1, GroupsStand
<1>10. Underway'
  BY <1>8 DEF Underway, Drawing, Answering
<1>11. Undisturbed' <=> Undisturbed
  BY <1>6 DEF Undisturbed, NobodyRemoved, OrganizedReopened
<1>12. Rows(plan.records)'
  BY <1>5, <1>6, <1>7 DEF Rows, LiesAt, AtHome, FoundAt, Complete, Grounded
<1>13. HeldStay(plan.records)'
  BY <1>5, <1>6, <1>7 DEF HeldStay
<1>14. Honoured(plan.records)'
  <2>1. \A g : Revised(g)' <=> Revised(g)
    BY <1>6 DEF Revised
  <2> QED
    BY <1>5, <1>6, <1>7, <1>11, <2>1 DEF Honoured, AllSettled, Goes
<1>15. plan'.ready => AllSettled(plan.records)'
  BY <1>2, <1>3, <1>5 DEF Settled, AllSettled
<1>16. Stands(plan)'
  <2>1. ASSUME NEW f \in DOMAIN command.records, Claims(command.records[f]),
               command.records[f].at \notin Singled
        PROVE  command.records[f].find = FoundAt(f, command.records[f].at)
    BY <1>7, <2>1 DEF Said, Singled
  <2>2. ASSUME NEW f \in DOMAIN command.records, Undisturbed
        PROVE  library[f].at = command.records[f].at
    BY <1>7, <2>2 DEF Undisturbed, Reading, Drawn
  <2>3. /\ Singled' = Singled
        /\ \A f \in DOMAIN command.records :
             /\ FoundAt(f, plan.records[f].at)' = FoundAt(f, command.records[f].at)
             /\ library[f].at = command.records[f].at =>
                  Whereabouts(f, plan.records[f].at, plan.records[f].dest.base)'
    BY <1>5, <1>6 DEF Singled, FoundAt, Whereabouts
  <2> QED
    BY <1>5, <1>11, <1>12, <2>1, <2>2, <2>3 DEF Stands, Claims
<1>17. ASSUME NEW q \in saved'
       PROVE  Stands(q)'
  <2>1. PlanOK(plan)
    BY <1>7 DEF KeptInv, OnceInv, PlanningInv, PublishedOK
  <2>2. PICK p \in Bundles : q.records = p.records
    BY <1>1, <2>1, PastOK DEF Bundles
  <2>3. Stands(p) /\ UNCHANGED <<library, finds, touched, catalog>>
    BY <1>6 DEF ChoicesInv, PlanStands
  <2>4. Stands(p)'
    BY <2>3, BundleStands
  <2> QED
    BY <2>2, <2>4 DEF Stands
<1>18. ASSUME NEW q \in Bundles'
       PROVE  Stands(q)'
  BY <1>16, <1>17, <1>18 DEF Bundles, Stands
<1>19. PlanStands'
  BY <1>5, <1>13, <1>14, <1>15, <1>18 DEF PlanStands
<1> QED
  BY <1>7, <1>9, <1>10, <1>19 DEF ChoicesInv

-------------------------------------------------------------------------------
(* Reviews. *)

\* A group that was reviewed on a decision of the plan.
FromPlan(g) ==
  \E f \in DOMAIN plan.records : \E d \in plan.records[f].dup :
    /\ g.key = d.key /\ g.candidates = d.candidates /\ g.winner \subseteq d.candidates
    /\ g.action = "select-winner" => g.winner # {}

LEMMA ContractedSays ==
  ASSUME CatalogOK, NEW decision, Contracted(decision)
  PROVE  /\ catalog'.sources = catalog.sources /\ catalog'.holds = catalog.holds
         /\ \A g \in catalog'.groups : g \in catalog.groups \/ g = decision
<1> DEFINE others == {g \in catalog.groups :
                        ~(g.key = decision.key /\ g.candidates = decision.candidates)}
<1>1. catalog' = [catalog EXCEPT !.groups = others \cup {decision}]
  BY DEF Contracted
<1>2. others \subseteq catalog.groups
  OBVIOUS
<1> HIDE DEF others
<1>3. catalog' = [groups |-> others \cup {decision}, sources |-> catalog.sources,
                  holds |-> catalog.holds]
  BY <1>1 DEF CatalogOK
<1> QED
  BY <1>2, <1>3

LEMMA DuplicateSays ==
  ASSUME CatalogOK, NEW f \in DOMAIN plan.records, AnswerDuplicate(f)
  PROVE  /\ catalog'.sources = catalog.sources /\ catalog'.holds = catalog.holds
         /\ \A g \in catalog'.groups : g \in catalog.groups \/ FromPlan(g)
<1> DEFINE bindings(d) == {PlanBinding(g) : g \in {h \in DOMAIN plan.records :
                                                     d \in plan.records[h].dup}}
           decided(d, action, winner) ==
             [key |-> d.key, candidates |-> d.candidates, action |-> action, winner |-> winner,
              bindings |-> bindings(d)]
<1>1. PICK d \in plan.records[f].dup :
        \/ Contracted(decided(d, "keep-all", {}))
        \/ \E path \in d.candidates : Contracted(decided(d, "select-winner", {path}))
  BY DEF AnswerDuplicate
<1>2. ASSUME NEW action, NEW winner, winner \subseteq d.candidates,
             action = "select-winner" => winner # {}
      PROVE  FromPlan(decided(d, action, winner))
  <2>1. /\ decided(d, action, winner).key = d.key
        /\ decided(d, action, winner).candidates = d.candidates
        /\ decided(d, action, winner).winner = winner
        /\ decided(d, action, winner).action = action
    OBVIOUS
  <2> HIDE DEF decided
  <2> QED
    BY <1>2, <2>1 DEF FromPlan
<1>3. FromPlan(decided(d, "keep-all", {}))
  BY <1>2
<1>4. ASSUME NEW path \in d.candidates
      PROVE  FromPlan(decided(d, "select-winner", {path}))
  <2>1. {path} \subseteq d.candidates /\ {path} # {}
    OBVIOUS
  <2> HIDE DEF decided
  <2> QED
    BY <1>2, <2>1
<1> HIDE DEF decided, bindings
<1>5. PICK decision : Contracted(decision) /\ FromPlan(decision)
  BY <1>1, <1>3, <1>4
<1> QED
  BY <1>5, ContractedSays

LEMMA SourceSays ==
  ASSUME CatalogOK, NEW f, AnswerSource(f),
         catalog.holds \cap {d.at : d \in catalog.sources} = {}
  PROVE  /\ Singled \subseteq Singled' /\ catalog'.groups = catalog.groups
         /\ catalog'.holds \cap {d.at : d \in catalog'.sources} = {}
<1> DEFINE at == plan.records[f].at
           others == {d \in catalog.sources : d.at # at}
           answer(find) == [at |-> at, binding |-> PlanBinding(f), find |-> find]
<1>1. \/ catalog' = [catalog EXCEPT !.sources = others, !.holds = catalog.holds \cup {at}]
      \/ \E find \in Answers :
           catalog' = [catalog EXCEPT !.sources = others \cup {answer(find)},
                                      !.holds = catalog.holds \ {at}]
  BY DEF AnswerSource, CatalogOK
<1>2. /\ \A d \in catalog.sources : d \in others \/ d.at = at
      /\ \A d \in others : d \in catalog.sources /\ d.at # at
      /\ \A find : answer(find).at = at
  OBVIOUS
<1> HIDE DEF others, answer, at
<1>3. \/ catalog' = [groups |-> catalog.groups, sources |-> others,
                     holds |-> catalog.holds \cup {at}]
      \/ \E find \in Answers :
           catalog' = [groups |-> catalog.groups, sources |-> others \cup {answer(find)},
                       holds |-> catalog.holds \ {at}]
  BY <1>1 DEF CatalogOK
<1>4. /\ catalog'.groups = catalog.groups
      /\ \/ catalog'.sources = others /\ catalog'.holds = catalog.holds \cup {at}
         \/ \E find \in Answers : /\ catalog'.sources = others \cup {answer(find)}
                                  /\ catalog'.holds = catalog.holds \ {at}
  BY <1>3
<1>5. ASSUME NEW path \in Singled
      PROVE  path \in catalog'.holds \/ \E d \in catalog'.sources : d.at = path
  <2>1. path \in catalog.holds \/ \E d \in catalog.sources : d.at = path
    BY DEF Singled
  <2> QED
    BY <1>2, <1>4, <2>1
<1>6. ASSUME NEW d \in catalog'.sources
      PROVE  d.at \notin catalog'.holds
  <2>1. CASE d \in others
    <3>1. d.at \notin catalog.holds /\ d.at # at
      BY <1>2, <2>1
    <3> QED
      BY <1>4, <3>1
  <2>2. CASE d \notin others
    BY <1>2, <1>4, <2>2
  <2> QED
    BY <2>1, <2>2
<1> QED
  BY <1>4, <1>5, <1>6 DEF Singled

\* A group on a decision of the plan has candidates that fit it, and its winner is
\* where the plan has it, or has gone since.
LEMMA FromPlanStands ==
  ASSUME KeptInv, PlanStands, command.pc = "idle", NEW g, FromPlan(g)
  PROVE  /\ g.action = "select-winner" => g.winner # {}
         /\ ~OrganizedReopened => Fitting(g)
         /\ Accounted(g)
<1> DEFINE records == plan.records
<1>1. PICK f \in DOMAIN records : \E e \in records[f].dup :
        /\ g.key = e.key /\ g.candidates = e.candidates /\ g.winner \subseteq e.candidates
        /\ g.action = "select-winner" => g.winner # {}
  BY DEF FromPlan
<1>2. PICK d \in records[f].dup :
        /\ g.key = d.key /\ g.candidates = d.candidates /\ g.winner \subseteq d.candidates
        /\ g.action = "select-winner" => g.winner # {}
  BY <1>1
<1>3. /\ finds \in Findings /\ DOMAIN records \subseteq Videos
      /\ Rows(records) /\ Complete(records)
      /\ \A h \in DOMAIN records : Claims(records[h]) /\ records[h].at \notin Singled =>
           /\ records[h].find = FoundAt(h, records[h].at)
           /\ Undisturbed => Whereabouts(h, records[h].at, records[h].dest.base)
  BY DEF KeptInv, OnceInv, PlanningInv, PublishedOK, PlanOK, RecordsOK, PlanStands, Bundles,
         Stands, Rows
<1> HIDE DEF records
<1>4. ASSUME NEW path \in g.candidates
      PROVE  \E h \in DOMAIN records :
               /\ records[h].at = path /\ Keyed(h, records[h].find, g.key) /\ LiesAt(h, path)
               /\ Claims(records[h]) /\ records[h].dest = Destination(h, records[h].find)
  <2>1. PICK h \in DOMAIN records : records[h].at = path
    BY <1>2, <1>3 DEF Complete
  <2>2. records[h].dup = {d}
    BY <1>2, <1>3, <2>1 DEF Complete
  <2>3. Keyed(h, records[h].find, g.key)
    BY <1>2, <1>3, <2>2 DEF Complete
  <2>4. Claims(records[h])
    BY <2>2 DEF Claims
  <2> QED
    BY <1>3, <2>1, <2>3, <2>4 DEF Rows, Grounded
<1>5. ASSUME ~OrganizedReopened, NEW path \in g.candidates, NEW x \in Videos, LiesAt(x, path)
      PROVE  \E find : Keyed(x, find, g.key) /\ (path \notin Singled => find = FoundAt(x, path))
  <2>1. PICK h \in DOMAIN records :
          /\ records[h].at = path /\ Keyed(h, records[h].find, g.key) /\ LiesAt(h, path)
          /\ Claims(records[h])
    BY <1>4, <1>5
  <2>2. \/ records[h].find = FoundAt(h, path)
        \/ path \in Singled
    BY <1>3, <2>1
  <2>3. CASE x = h
    BY <2>1, <2>2, <2>3
  <2>4. CASE x # h
    <3>1. IsManaged(path) /\ AtHome(x, path) /\ AtHome(h, path)
      BY <1>5, <2>1, <2>4, PlacesOf DEF LiesAt
    <3>2. path \notin Singled
      BY <1>5, <3>1 DEF OrganizedReopened, Singled
    <3>3. FoundAt(x, path) = FoundAt(h, path)
      BY <3>1 DEF FoundAt, IsManaged
    <3>4. Destination(x, FoundAt(x, path)) = Destination(h, FoundAt(h, path))
      BY <3>1 DEF AtHome
    <3>5. Keyed(h, FoundAt(h, path), g.key)
      BY <2>1, <2>2, <3>2
    <3>6. Keyed(x, FoundAt(x, path), g.key)
      BY <3>3, <3>4, <3>5 DEF Keyed
    <3> QED
      BY <3>6
  <2> QED
    BY <2>3, <2>4
<1>6. ASSUME Undisturbed, NEW path \in g.winner, path \notin Singled
      PROVE  \E x \in Videos : /\ LiesAt(x, path) /\ SeenOrAway(x)
                               /\ Whereabouts(x, path, Base(FoundAt(x, path)))
  <2>1. PICK h \in DOMAIN records :
          /\ records[h].at = path /\ LiesAt(h, path)
          /\ Claims(records[h]) /\ records[h].dest = Destination(h, records[h].find)
    BY <1>2, <1>4
  <2>2. records[h].find = FoundAt(h, path) /\ Whereabouts(h, path, records[h].dest.base)
    BY <1>3, <1>6, <2>1
  <2>3. records[h].dest.base = Base(FoundAt(h, path))
    BY <2>1, <2>2 DEF Destination, Path
  <2>4. SeenOrAway(h)
    BY DEF SeenOrAway
  <2> QED
    BY <1>3, <2>1, <2>2, <2>3, <2>4
<1>7. ~OrganizedReopened => Fitting(g)
  BY <1>5 DEF Fitting
<1>8. Accounted(g)
  BY <1>6 DEF Accounted
<1> QED
  BY <1>2, <1>7, <1>8

LEMMA ReviewChoices ==
  ASSUME ChoicesInv, Review
  PROVE  ChoicesInv'
<1>1. /\ plan' = Past(plan) /\ library' = library /\ command' = command
      /\ finds' = finds /\ touched' = touched /\ command.pc = "idle" /\ saved' = saved
  BY DEF Review, Past
<1>2. /\ KeptInv /\ KeptInv' /\ CatalogOK /\ Groups /\ ExtrasKept /\ PlanStands
      /\ catalog.holds \cap {d.at : d \in catalog.sources} = {}
  BY ReviewKept DEF ChoicesInv, KeptInv, OnceInv, PlanningInv, Groups
<1>3. plan' = [records |-> plan.records, companions |-> plan.companions, ready |-> plan.ready,
               latest |-> FALSE]
  BY <1>1, <1>2, PastOK DEF KeptInv, OnceInv, PlanningInv, PublishedOK
<1>4. plan'.records = plan.records /\ ~plan'.latest
  BY <1>3
<1>5. PICK x \in DOMAIN plan.records : AnswerDuplicate(x) \/ AnswerSource(x)
  BY DEF Review
<1>6. /\ Singled \subseteq Singled'
      /\ catalog'.holds \cap {d.at : d \in catalog'.sources} = {}
      /\ \A g \in catalog'.groups : g \in catalog.groups \/ FromPlan(g)
  <2>1. CASE AnswerDuplicate(x)
    BY <1>2, <2>1, DuplicateSays DEF Singled
  <2>2. CASE AnswerSource(x)
    BY <1>2, <2>2, SourceSays
  <2> QED
    BY <1>5, <2>1, <2>2
<1>7. /\ \A path : path \in Singled <=>
           path \in catalog.holds \cup {d.at : d \in catalog.sources}
      /\ \A path : path \in Singled' <=>
           path \in catalog'.holds \cup {d.at : d \in catalog'.sources}
  BY DEF Singled
<1>8. OrganizedReopened => OrganizedReopened'
  BY <1>6, <1>7 DEF OrganizedReopened
<1>9. Undisturbed' => Undisturbed
  BY <1>1, <1>8 DEF Undisturbed, NobodyRemoved
<1>10. /\ \A f, path : FoundAt(f, path)' = FoundAt(f, path)
       /\ \A f, path : LiesAt(f, path)' <=> LiesAt(f, path)
       /\ \A f, path : Whereabouts(f, path, Base(FoundAt(f, path)))' <=>
                       Whereabouts(f, path, Base(FoundAt(f, path)))
  BY <1>1 DEF FoundAt, LiesAt, AtHome, Whereabouts
<1>11. ASSUME NEW g \in catalog'.groups
       PROVE  /\ g.action = "select-winner" => g.winner # {}
              /\ ~OrganizedReopened => Fitting(g)
              /\ Accounted(g)
  <2>1. CASE g \in catalog.groups
    BY <1>2, <2>1 DEF Groups
  <2>2. CASE FromPlan(g)
    BY <1>1, <1>2, <2>2, FromPlanStands
  <2> QED
    BY <1>6, <2>1, <2>2
<1>12. ASSUME NEW g, Fitting(g)
       PROVE  Fitting(g)'
  BY <1>6, <1>10, <1>12 DEF Fitting
<1>13. ASSUME NEW g, Accounted(g)
       PROVE  Accounted(g)'
  <2>1. \A f : SeenOrAway(f)'
    BY <1>1 DEF SeenOrAway
  <2> QED
    BY <1>6, <1>9, <1>10, <1>13, <2>1 DEF Accounted
<1>14. Groups'
  BY <1>6, <1>8, <1>11, <1>12, <1>13 DEF Groups
<1>15. ExtrasKept'
  BY <1>1, <1>2, <1>9 DEF ExtrasKept
<1>16. Underway'
  BY <1>1 DEF Underway, Drawing, Answering
<1>17. PlanStands'
  <2>1. ASSUME NEW p \in Bundles
        PROVE  Stands(p)'
    <3>1. Stands(p)
      BY <1>2 DEF PlanStands
    <3>2. Rows(p.records)'
      BY <1>1, <3>1 DEF Stands, Rows, LiesAt, AtHome, FoundAt, Complete, Grounded
    <3>3. \A f \in DOMAIN p.records :
            /\ FoundAt(f, p.records[f].at)' = FoundAt(f, p.records[f].at)
            /\ Whereabouts(f, p.records[f].at, p.records[f].dest.base)' <=>
               Whereabouts(f, p.records[f].at, p.records[f].dest.base)
      BY <1>1 DEF FoundAt, Whereabouts
    <3> QED
      BY <1>6, <1>9, <3>1, <3>2, <3>3 DEF Stands
  <2>2. ASSUME NEW q \in Bundles'
        PROVE  Stands(q)'
    <3>1. PICK p \in Bundles : q.records = p.records
      BY <1>1, <1>4 DEF Bundles
    <3>2. Stands(p)'
      BY <2>1
    <3> QED
      BY <3>1, <3>2 DEF Stands
  <2> QED
    BY <1>4, <2>2 DEF PlanStands
<1> QED
  BY <1>2, <1>14, <1>15, <1>16, <1>17 DEF ChoicesInv

-------------------------------------------------------------------------------
(* What reviews mean in a library that changes. *)

\* A video that stays, comes, or is taken where a bundle says.
Carried(p, f) ==
  \/ library'[f].at = library[f].at \/ library[f].at = Nowhere
  \/ /\ f \in DOMAIN p.records /\ Claims(p.records[f])
     /\ library[f].at = p.records[f].at
     /\ \/ library'[f].at = p.records[f].dest
        \/ /\ library'[f].at.base[1] = "quarantine"
           /\ library'[f].at.tail[1] = p.records[f].dest.base

\* Its whereabouts are still known.
LEMMA CarriedStaysKnown ==
  ASSUME KeptInv, PlanStands, ~OrganizedReopened, NEW p \in Bundles, NEW f \in Videos,
         NEW path, NEW base, Carried(p, f), path # Nowhere, Whereabouts(f, path, base),
         f \in DOMAIN p.records /\ Claims(p.records[f]) /\ p.records[f].at = path =>
           p.records[f].dest.base = base
  PROVE  Whereabouts(f, path, base)'
<1> USE DEF Whereabouts
<1>1. ~IsManaged(Nowhere) /\ Nowhere.base[1] # "quarantine" /\ Inbox(f).base[1] # "quarantine"
  BY PlacesOf DEF Nowhere, Inbox, Path
<1>2. CASE library'[f].at = library[f].at
  BY <1>2
<1>3. CASE library[f].at = Nowhere
  BY <1>1, <1>3
<1>4. CASE /\ f \in DOMAIN p.records /\ Claims(p.records[f])
           /\ library[f].at = p.records[f].at
           /\ \/ library'[f].at = p.records[f].dest
              \/ /\ library'[f].at.base[1] = "quarantine"
                 /\ library'[f].at.tail[1] = p.records[f].dest.base
  <2>1. LiesAt(f, p.records[f].at) /\ Grounded(f, p.records[f])
    BY <1>4 DEF PlanStands, Stands, Rows
  <2>2. IsManaged(p.records[f].dest)
    BY <1>4, <2>1, PlacesOf DEF Grounded
  <2>3. library[f].at.base[1] # "quarantine"
    BY <1>1, <1>4, <2>1 DEF LiesAt, IsManaged
  <2>4. p.records[f].dest.base = base
    <3>1. CASE IsManaged(library[f].at) /\ library[f].at.base = base
      <4>1. p.records[f].dest = p.records[f].at
        BY <1>4, <3>1 DEF KeptInv, Published, Bundled, Kept, Rooted, OrganizedReopened
      <4> QED
        BY <1>4, <3>1, <4>1
    <3> QED
      BY <1>4, <2>3, <3>1
  <2> QED
    BY <1>4, <2>2, <2>4
<1> QED
  BY <1>2, <1>3, <1>4 DEF Carried

LEMMA LibraryChoices ==
  ASSUME ChoicesInv, KeptInv', ExtrasKept',
         catalog' = catalog, command' = command, finds' = finds, plan' = plan, saved' = saved,
         NEW p \in Bundles,
         NobodyRemoved' => NobodyRemoved /\ \A f \in Videos : Carried(p, f),
         command.pc # "idle" =>
           \A f \in Videos :
             /\ IsManaged(library'[f].at) => library'[f].at = library[f].at
             /\ NobodyRemoved' /\ library[f].at # Nowhere => library'[f].at = library[f].at
  PROVE  ChoicesInv'
<1>1. /\ KeptInv /\ Groups /\ Underway /\ PlanStands
      /\ \A q \in Bundles : DOMAIN q.records \subseteq Videos /\ Bundled(q) /\ Stands(q)
  <2>1. PlanningInv
    BY DEF ChoicesInv, KeptInv, OnceInv
  <2>2. \A q \in Bundles : DOMAIN q.records \subseteq Videos
    BY <2>1, BundleOK DEF PlanOK, RecordsOK
  <2> QED
    BY <2>2 DEF ChoicesInv, KeptInv, Published, PlanStands
<1>2. /\ OrganizedReopened' <=> OrganizedReopened
      /\ Singled' = Singled
      /\ \A f, path : FoundAt(f, path)' = FoundAt(f, path)
      /\ \A f, path : LiesAt(f, path)' <=> LiesAt(f, path)
      /\ \A g : Revised(g)' <=> Revised(g)
  BY DEF OrganizedReopened, Singled, FoundAt, LiesAt, AtHome, Revised
<1>3. /\ Undisturbed' => Undisturbed
      /\ Undisturbed' => NobodyRemoved' /\ ~OrganizedReopened /\ \A f \in Videos : Carried(p, f)
  BY <1>2 DEF Undisturbed
<1>4. ASSUME NEW f \in Videos, NobodyRemoved', SeenOrAway(f)
      PROVE  SeenOrAway(f)'
  <2>1. CASE command.pc = "idle"
    BY <2>1 DEF SeenOrAway
  <2>2. CASE command.pc # "idle"
    <3>1. library[f].at # Nowhere
      <4>1. Nowhere.base[1] # "quarantine"
        BY DEF Nowhere, Path
      <4>2. Reading(command.seen)
        BY <1>1, <2>2 DEF KeptInv
      <4> QED
        BY <1>4, <2>2, <4>1, <4>2 DEF SeenOrAway, Reading
    <3>2. library'[f].at = library[f].at
      BY <1>4, <2>2, <3>1
    <3> QED
      BY <1>4, <3>2 DEF SeenOrAway
  <2> QED
    BY <2>1, <2>2
<1>5. ASSUME NEW g \in catalog.groups
      PROVE  Accounted(g)'
  <2>1. SUFFICES ASSUME NEW path \in g.winner, Undisturbed', path \notin Singled
                 PROVE  \E f \in Videos :
                          /\ LiesAt(f, path)' /\ SeenOrAway(f)'
                          /\ Whereabouts(f, path, Base(FoundAt(f, path)))'
    BY <1>2 DEF Accounted
  <2>2. PICK f \in Videos : /\ LiesAt(f, path) /\ SeenOrAway(f)
                            /\ Whereabouts(f, path, Base(FoundAt(f, path)))
    BY <1>1, <1>3, <2>1 DEF Groups, Accounted
  <2> DEFINE base == Base(FoundAt(f, path))
  <2>3. path # Nowhere
    BY <2>2, PlacesOf DEF LiesAt
  <2>4. ASSUME f \in DOMAIN p.records, Claims(p.records[f]), p.records[f].at = path
        PROVE  p.records[f].dest.base = base
    <3>1. p.records[f].find = FoundAt(f, path) /\ Grounded(f, p.records[f])
      BY <1>1, <1>2, <2>1, <2>4 DEF Stands, Rows
    <3>2. p.records[f].dest = Destination(f, FoundAt(f, path))
      BY <2>4, <3>1 DEF Grounded
    <3> QED
      BY <3>2 DEF Destination, Path
  <2>5. \A at : Whereabouts(f, path, at)' <=>
          \/ library'[f].at = path
          \/ IsManaged(library'[f].at) /\ library'[f].at.base = at
          \/ library'[f].at.base[1] = "quarantine" /\ library'[f].at.tail[1] = at
    BY DEF Whereabouts
  <2> HIDE DEF base
  <2>6. Whereabouts(f, path, base)
    BY <2>2 DEF base
  <2>7. \/ library'[f].at = path
        \/ IsManaged(library'[f].at) /\ library'[f].at.base = base
        \/ library'[f].at.base[1] = "quarantine" /\ library'[f].at.tail[1] = base
    <3>1. PICK at : at = base
      OBVIOUS
    <3>2. Whereabouts(f, path, at)'
      BY <1>1, <1>3, <2>1, <2>3, <2>4, <2>6, <3>1, CarriedStaysKnown
    <3> QED
      BY <2>5, <3>1, <3>2
  <2>8. Whereabouts(f, path, Base(FoundAt(f, path)))'
    BY <1>2, <2>7 DEF Whereabouts, base
  <2> QED
    BY <1>2, <1>3, <1>4, <2>1, <2>2, <2>8
<1>6. Groups'
  BY <1>1, <1>2, <1>5 DEF Groups, Fitting
<1>7. Underway'
  <2>1. CASE command.pc = "idle"
    BY <2>1 DEF Underway, Drawing, Answering
  <2>2. CASE command.pc # "idle"
    <3>1. LayoutSeen'
      BY <1>1, <2>2 DEF Underway, LayoutSeen
    <3>2. \A f \in DOMAIN command'.seen : LiesAt(f, command.seen[f].at)'
      BY <1>1, <2>2 DEF Underway, LiesAt, AtHome, FoundAt
    <3>3. Rows(command.records) => Rows(command.records)'
      BY DEF Rows, LiesAt, AtHome, FoundAt, Complete, Grounded
    <3>4. /\ HeldStay(command.records) => HeldStay(command.records)'
          /\ Fair(command.records) => Fair(command.records)'
          /\ Known(command.records) => Known(command.records)'
      BY <1>2 DEF HeldStay, Fair, Known, Favoured, PreferredPaths
    <3>5. Honoured(command.records) => Honoured(command.records)'
      BY <1>2, <1>3 DEF Honoured, AllSettled, Goes
    <3>6. \A f \in DOMAIN command.records :
            /\ FoundAt(f, command.records[f].at)' = FoundAt(f, command.records[f].at)
            /\ Said(f, command.records[f]) => Said(f, command.records[f])'
      BY DEF Said, FoundAt, Claims
    <3> QED
      BY <1>1, <2>2, <3>1, <3>2, <3>3, <3>4, <3>5, <3>6 DEF Underway, Claims
  <2> QED
    BY <2>1, <2>2
<1>8. ASSUME NEW q \in Bundles, NEW f \in DOMAIN q.records, Claims(q.records[f]),
             q.records[f].at \notin Singled, Undisturbed'
      PROVE  Whereabouts(f, q.records[f].at, q.records[f].dest.base)'
  <2>1. PICK path, base : path = q.records[f].at /\ base = q.records[f].dest.base
    OBVIOUS
  <2>2. f \in Videos /\ Whereabouts(f, path, base) /\ path # Nowhere
    BY <1>1, <1>3, <1>8, <2>1 DEF Stands, Bundled
  <2>3. /\ q.records[f].find = FoundAt(f, path) /\ Grounded(f, q.records[f])
        /\ q.records[f].dest = Destination(f, FoundAt(f, path))
    BY <1>1, <1>8, <2>1 DEF Stands, Rows, Grounded
  <2>4. ASSUME f \in DOMAIN p.records, Claims(p.records[f]), p.records[f].at = path
        PROVE  p.records[f].dest.base = base
    <3>1. p.records[f].find = FoundAt(f, path) /\ Grounded(f, p.records[f])
      BY <1>1, <1>8, <2>1, <2>4 DEF Stands, Rows
    <3>2. p.records[f].dest = Destination(f, FoundAt(f, path))
      BY <2>4, <3>1 DEF Grounded
    <3> QED
      BY <2>1, <2>3, <3>2
  <2>5. Whereabouts(f, path, base)'
    BY <1>1, <1>3, <1>8, <2>2, <2>4, CarriedStaysKnown
  <2> QED
    BY <2>1, <2>5 DEF Whereabouts
<1>9. PlanStands'
  <2>1. ASSUME NEW q \in Bundles
        PROVE  Stands(q)'
    <3>1. Rows(q.records)'
      BY <1>1 DEF Stands, Rows, LiesAt, AtHome, FoundAt, Complete, Grounded
    <3>2. \A f \in DOMAIN q.records :
            FoundAt(f, q.records[f].at)' = FoundAt(f, q.records[f].at)
      BY DEF FoundAt
    <3> QED
      BY <1>1, <1>2, <1>8, <3>1, <3>2 DEF Stands
  <2>2. HeldStay(plan.records) => HeldStay(plan.records)'
    BY DEF HeldStay
  <2>3. Honoured(plan.records) /\ AllSettled(plan.records) =>
          Honoured(plan.records)' /\ AllSettled(plan.records)'
    BY <1>2, <1>3 DEF Honoured, AllSettled, Goes
  <2>4. Bundles' = Bundles
    BY DEF Bundles
  <2> QED
    BY <1>1, <2>1, <2>2, <2>3, <2>4 DEF PlanStands
<1> QED
  BY <1>6, <1>7, <1>9 DEF ChoicesInv

LEMMA ChangeChoices ==
  ASSUME ChoicesInv, LibraryChange
  PROVE  ChoicesInv'
<1>1. KeptInv /\ KeptInv' /\ ExtrasKept
  BY ChangeKept DEF ChoicesInv
<1>2. /\ catalog' = catalog /\ command' = command /\ finds' = finds /\ plan' = plan /\ saved' = saved
      /\ NobodyRemoved' => NobodyRemoved
      /\ \A y \in Files :
           NobodyRemoved' /\ library[y].at # Nowhere => library'[y].at = library[y].at
      /\ \A f \in Videos :
           /\ library'[f].at.base[1] = "quarantine" => library'[f].at = library[f].at
           /\ IsManaged(library'[f].at) => library'[f].at = library[f].at
  BY <1>1, ChangeMoves
<1>3. Videos \subseteq Files
  BY DEF Files
<1>4. ExtrasKept'
  <2>1. SUFFICES ASSUME Undisturbed', NEW f \in Videos, library'[f].at.base[1] = "quarantine",
                        library'[f].at.tail[1][1] = "extras"
                 PROVE  \E g \in Videos :
                          library'[g].at = Path(library'[f].at.tail[1], <<ExtensionOf[f]>>)
    BY DEF ExtrasKept
  <2>2. Undisturbed /\ NobodyRemoved' /\ library'[f].at = library[f].at
    BY <1>2, <2>1 DEF Undisturbed, OrganizedReopened
  <2>3. PICK g \in Videos : library[g].at = Path(library[f].at.tail[1], <<ExtensionOf[f]>>)
    BY <1>1, <2>1, <2>2 DEF ExtrasKept
  <2>4. library[g].at # Nowhere
    <3>1. library[g].at.base[1] = "extras"
      BY <2>1, <2>2, <2>3 DEF Path
    <3> QED
      BY <3>1, PlacesOf DEF IsManaged
  <2> QED
    BY <1>2, <1>3, <2>2, <2>3, <2>4
<1>5. plan \in Bundles /\ (NobodyRemoved' => \A f \in Videos : Carried(plan, f))
  BY <1>2, <1>3 DEF Carried, Bundles
<1> QED
  BY <1>1, <1>2, <1>3, <1>4, <1>5, LibraryChoices

LEMMA ApplyChoices ==
  ASSUME ChoicesInv, NEW p \in Bundles, NEW groups, Apply(p, groups)
  PROVE  ChoicesInv'
<1>1. KeptInv /\ KeptInv' /\ ExtrasKept
  BY ApplyKept DEF ChoicesInv
<1>2. /\ catalog' = catalog /\ command' = command /\ finds' = finds /\ touched' = touched
      /\ command.pc = "idle" /\ plan' = plan /\ saved' = saved
      /\ NobodyRemoved' => NobodyRemoved
      /\ \A f \in Videos :
           \/ library'[f].at = library[f].at
           \/ /\ f \in DOMAIN p.records /\ Claims(p.records[f])
              /\ p.records[f].dest = Destination(f, p.records[f].find)
              /\ p.records[f].dest # p.records[f].at
              /\ library[f].at = p.records[f].at /\ library'[f].at = p.records[f].dest
  BY <1>1, ApplyMoves
<1>3. ExtrasKept'
  <2>1. SUFFICES ASSUME Undisturbed', NEW f \in Videos, library'[f].at.base[1] = "quarantine",
                        library'[f].at.tail[1][1] = "extras"
                 PROVE  \E g \in Videos :
                          library'[g].at = Path(library'[f].at.tail[1], <<ExtensionOf[f]>>)
    BY DEF ExtrasKept
  <2>2. Undisturbed /\ ~OrganizedReopened
    BY <1>2, <2>1 DEF Undisturbed, OrganizedReopened
  <2>3. library'[f].at = library[f].at
    <3>1. \A find : Destination(f, find).base[1] # "quarantine"
      BY PlacesOf DEF IsManaged
    <3> QED
      BY <1>2, <2>1, <3>1
  <2>4. PICK g \in Videos : library[g].at = Path(library[f].at.tail[1], <<ExtensionOf[f]>>)
    BY <1>1, <2>1, <2>2, <2>3 DEF ExtrasKept
  <2>5. IsManaged(library[g].at)
    BY <2>1, <2>3, <2>4 DEF Path, IsManaged
  <2>6. library'[g].at = library[g].at
    BY <1>1, <1>2, <2>2, <2>5 DEF KeptInv, Published, Bundled, Kept, Rooted, OrganizedReopened
  <2> QED
    BY <2>3, <2>4, <2>6
<1>4. \A f \in Videos : Carried(p, f)
  BY <1>2 DEF Carried
<1> QED
  BY <1>1, <1>2, <1>3, <1>4, LibraryChoices

\* An extra loses to one that goes to the very same place.
LEMMA ExtrasLoseToTheSame ==
  ASSUME NEW p, Rows(p.records), NEW f \in DOMAIN p.records, NEW g \in DOMAIN p.records,
         Claims(p.records[f]), Claims(p.records[g]),
         \E d \in p.records[f].dup : p.records[g].at \in d.candidates,
         p.records[f].dest.base[1] = "extras"
  PROVE  p.records[g].dest = p.records[f].dest
<1>1. PICK d \in p.records[f].dup : p.records[g].at \in d.candidates
  OBVIOUS
<1>2. p.records[g].dup = {d}
  BY <1>1 DEF Rows, Complete
<1>3. Keyed(f, p.records[f].find, d.key) /\ Keyed(g, p.records[g].find, d.key)
  BY <1>1, <1>2 DEF Rows, Complete
<1>4. /\ Normal(p.records[f].find) /\ Normal(p.records[g].find)
      /\ p.records[f].dest = Destination(f, p.records[f].find)
      /\ p.records[g].dest = Destination(g, p.records[g].find)
  BY DEF Rows, Grounded
<1>5. p.records[f].find.as # "episode"
  <2>1. Destination(f, p.records[f].find).base[1] = "season" <=>
          p.records[f].find.as = "episode"
    BY EpisodePlace
  <2> QED
    BY <1>4, <2>1
<1> QED
  BY <1>3, <1>4, <1>5, KeysMeet

LEMMA QuarantineChoices ==
  ASSUME ChoicesInv, NEW p \in Bundles, Quarantine(p)
  PROVE  ChoicesInv'
<1> DEFINE moves(f) == /\ f \in Losers(p) /\ library[f].at = p.records[f].at
                       /\ library'[f].at.base = <<"quarantine", f>>
                       /\ library'[f].at.tail[1] = p.records[f].dest.base
<1>1. KeptInv /\ KeptInv' /\ ExtrasKept /\ Rows(p.records)
  BY QuarantineKept DEF ChoicesInv, PlanStands, Stands
<1>2. /\ catalog' = catalog /\ command' = command /\ finds' = finds /\ touched' = touched
      /\ plan' = plan /\ saved' = saved /\ command.pc = "idle"
      /\ NobodyRemoved' => NobodyRemoved
      /\ \A f \in Videos : library'[f].at = library[f].at \/ moves(f)
  BY <1>1, QuarantineMoves
<1>3. ASSUME NEW f \in Losers(p)
      PROVE  /\ f \in DOMAIN p.records /\ Claims(p.records[f])
             /\ p.records[f].dest.base[1] = "extras" =>
                  \E g \in Videos : library'[g].at = p.records[f].dest
  <2>1. f \in DOMAIN p.records /\ Claims(p.records[f]) /\ WinnerOf(p, f) # {}
    BY <1>1, QuarantineMoves
  <2>2. PICK g \in WinnerOf(p, f) : TRUE
    BY <2>1
  <2>3. /\ g \in DOMAIN p.records /\ g \in Videos /\ Claims(p.records[g])
        /\ \E d \in p.records[f].dup : p.records[g].at \in d.candidates
        /\ library'[g].at = p.records[g].dest
    BY <1>1, QuarantineMoves
  <2>4. p.records[f].dest.base[1] = "extras" => p.records[g].dest = p.records[f].dest
    BY <1>1, <2>1, <2>3, ExtrasLoseToTheSame
  <2> QED
    BY <2>1, <2>3, <2>4
<1>4. ExtrasKept'
  <2>1. SUFFICES ASSUME Undisturbed', NEW f \in Videos, library'[f].at.base[1] = "quarantine",
                        library'[f].at.tail[1][1] = "extras"
                 PROVE  \E g \in Videos :
                          library'[g].at = Path(library'[f].at.tail[1], <<ExtensionOf[f]>>)
    BY DEF ExtrasKept
  <2>2. Undisturbed /\ ~OrganizedReopened
    BY <1>2, <2>1 DEF Undisturbed, OrganizedReopened
  <2>3. CASE moves(f)
    <3>1. /\ Claims(p.records[f]) /\ f \in DOMAIN p.records
          /\ p.records[f].dest.base[1] = "extras"
      BY <1>3, <2>1, <2>3
    <3>2. p.records[f].dest = Destination(f, p.records[f].find)
      BY <1>1, <3>1 DEF Rows, Grounded
    <3>3. p.records[f].dest = Path(p.records[f].dest.base, <<ExtensionOf[f]>>)
      BY <3>2 DEF Destination, Path
    <3> QED
      BY <1>3, <2>3, <3>1, <3>3
  <2>4. CASE library'[f].at = library[f].at
    <3>1. PICK g \in Videos : library[g].at = Path(library[f].at.tail[1], <<ExtensionOf[f]>>)
      BY <1>1, <2>1, <2>2, <2>4 DEF ExtrasKept
    <3>2. CASE library'[g].at = library[g].at
      BY <2>4, <3>1, <3>2
    <3>3. CASE moves(g)
      <4>1. IsManaged(library[g].at) /\ library[g].at.base[1] = "extras"
        BY <2>1, <2>4, <3>1 DEF Path, IsManaged
      <4>2. g \in DOMAIN p.records /\ Claims(p.records[g])
        BY <1>3, <3>3
      <4>3. p.records[g].dest = library[g].at
        BY <1>1, <2>2, <3>3, <4>1, <4>2
           DEF KeptInv, Published, Bundled, Kept, Rooted, OrganizedReopened
      <4> QED
        BY <1>3, <2>4, <3>1, <3>3, <4>1, <4>3
    <3> QED
      BY <1>2, <3>2, <3>3
  <2> QED
    BY <1>2, <2>3, <2>4
<1>5. ASSUME NEW f \in Videos
      PROVE  Carried(p, f)
  <2>1. CASE moves(f)
    <3>1. library'[f].at.base[1] = "quarantine"
      BY <2>1
    <3> QED
      BY <1>3, <2>1, <3>1 DEF Carried
  <2> QED
    BY <1>2, <2>1 DEF Carried
<1> HIDE DEF moves
<1> QED
  BY <1>1, <1>2, <1>4, <1>5, LibraryChoices

LEMMA InitChoices ==
  ASSUME PlanningInit
  PROVE  ChoicesInv
<1>1. KeptInv
  BY InitKept
<1>2. /\ catalog.groups = {} /\ catalog.holds = {} /\ command.pc = "idle" /\ ~plan.latest
      /\ plan.records = Empty /\ saved = {}
  BY DEF PlanningInit, NoCatalog, Idle, NoPlan
<1>3. Groups
  BY <1>2 DEF Groups
<1>4. ASSUME NEW f \in Videos
      PROVE  library[f].at.base[1] # "quarantine"
  <2>1. library[f].at = Nowhere \/ library[f].at = Inbox(f)
    BY DEF PlanningInit, Files
  <2> QED
    BY <2>1 DEF Nowhere, Inbox, Path
<1>5. ExtrasKept /\ Underway
  BY <1>2, <1>4 DEF ExtrasKept, Underway, Drawing, Answering
<1>6. PlanStands
  BY <1>2, IdleOK DEF PlanStands, Bundles, Stands, Rows, Complete
<1> QED
  BY <1>1, <1>3, <1>5, <1>6 DEF ChoicesInv

LEMMA ChoicesNext ==
  ASSUME ChoicesInv, [PlanningNext]_planningVars
  PROVE  ChoicesInv'
<1>1. CASE UNCHANGED planningVars
  <2>1. KeptInv'
    BY <1>1, KeptNext DEF ChoicesInv
  <2>2. Draws /\ command' = command
    BY <1>1 DEF planningVars, Draws, Reads
  <2>3. \A f \in Videos : SeenOrAway(f) => SeenOrAway(f)'
    BY <2>2 DEF Draws, Reads, SeenOrAway
  <2>4. Underway'
    <3>1. Underway
      BY DEF ChoicesInv
    <3>2. UNCHANGED <<library, finds, touched, catalog>> /\ command' = command
      BY <2>2 DEF Draws, Reads
    <3>3. Rows(command.records)' <=> Rows(command.records)
      BY <3>2 DEF Rows, LiesAt, AtHome, FoundAt, Complete, Grounded
    <3>4. /\ LayoutSeen' <=> LayoutSeen
          /\ HeldStay(command.records)' <=> HeldStay(command.records)
          /\ Fair(command.records)' <=> Fair(command.records)
          /\ Known(command.records)' <=> Known(command.records)
      BY <3>2 DEF LayoutSeen, HeldStay, Fair, Known, Favoured, PreferredPaths, Singled
    <3>5. Honoured(command.records)' <=> Honoured(command.records)
      <4>1. (Undisturbed' <=> Undisturbed) /\ \A g : Revised(g)' <=> Revised(g)
        BY <3>2 DEF Undisturbed, NobodyRemoved, OrganizedReopened, Revised
      <4> QED
        BY <3>2, <4>1 DEF Honoured, AllSettled, Goes
    <3>6. /\ \A f \in DOMAIN command.seen :
               LiesAt(f, command.seen[f].at)' <=> LiesAt(f, command.seen[f].at)
          /\ \A f \in DOMAIN command.records :
               /\ FoundAt(f, command.records[f].at)' = FoundAt(f, command.records[f].at)
               /\ Said(f, command.records[f])' <=> Said(f, command.records[f])
      BY <3>2 DEF LiesAt, AtHome, FoundAt, Said, Claims
    <3> QED
      BY <3>1, <3>2, <3>3, <3>4, <3>5, <3>6 DEF Underway, Claims
  <2> QED
    BY <2>1, <2>2, <2>3, <2>4, CommandChoices
<1>2. CASE PlanningNext
  BY <1>2, ScanChoices, DraftPlanChoices, RereadChoices, ExtendChoices, BindChoices, PublishChoices,
     ReviewChoices, ApplyChoices, QuarantineChoices, ChangeChoices, Zenon DEF PlanningNext
<1> QED
  BY <1>1, <1>2

LEMMA ChoicesInvariant == PlanningSpec => []ChoicesInv
<1>1. PlanningInit => ChoicesInv
  BY InitChoices
<1>2. ChoicesInv /\ [PlanningNext]_planningVars => ChoicesInv'
  BY ChoicesNext
<1> QED
  BY <1>1, <1>2, PTL DEF PlanningSpec

LEMMA ChoicesInvImplies ==
  ASSUME ChoicesInv
  PROVE  ReviewedChoicesHold
<1>1. SUFFICES ASSUME plan.latest, plan.ready
               PROVE  /\ \A path \in catalog.holds : InPlan(path) \cap Moving(plan) = {}
                      /\ \A g \in catalog.groups :
                           NobodyRemoved /\ ~OrganizedReopened /\ ~Revised(g) =>
                             \A path \in g.candidates \ g.winner :
                               InPlan(path) \cap Moving(plan) = {}
  BY DEF ReviewedChoicesHold
<1>2. /\ HeldStay(plan.records) /\ Honoured(plan.records) /\ AllSettled(plan.records)
      /\ DOMAIN plan.records \subseteq Videos /\ DOMAIN plan.companions \subseteq Sidecars
  BY <1>1 DEF ChoicesInv, PlanStands, KeptInv, OnceInv, PlanningInv, PublishedOK, PlanOK, RecordsOK,
              CompanionsOK
<1>3. ASSUME NEW path, NEW f \in InPlan(path) \cap Moving(plan)
      PROVE  /\ f \in DOMAIN plan.records /\ plan.records[f].at = path
             /\ Goes(plan.records[f]) /\ plan.records[f].dest # plan.records[f].at
  <2>1. f \in DOMAIN plan.records /\ plan.records[f].at = path
    BY DEF InPlan
  <2>2. f \notin DOMAIN plan.companions
    BY <1>2, <2>1, RulesAssumption
  <2> QED
    BY <2>1, <2>2 DEF Moving, Goes
<1>4. ASSUME NEW path \in catalog.holds, NEW f \in InPlan(path) \cap Moving(plan)
      PROVE  FALSE
  BY <1>2, <1>3, <1>4 DEF HeldStay, Goes
<1>5. ASSUME NEW g \in catalog.groups, NobodyRemoved, ~OrganizedReopened, ~Revised(g),
             NEW path \in g.candidates \ g.winner, NEW f \in InPlan(path) \cap Moving(plan)
      PROVE  FALSE
  BY <1>2, <1>3, <1>5 DEF Honoured, Undisturbed
<1> QED
  BY <1>4, <1>5

\* For every library, every review and every order of the commands, a ready plan
\* that was made under the review contract does what the reviewer decided: a
\* source that was held stays, and a candidate that was turned down does not move,
\* also when the chosen one has moved before and when sources have come, changed
\* or been reviewed one by one since.  It rests on ChoicesInv: every candidate of
\* a group fits its key, and the winner is found, or stands in the way.
THEOREM ReviewedChoicesStand == PlanningSpec => []ReviewedChoicesHold
<1>1. ChoicesInv => ReviewedChoicesHold
  BY ChoicesInvImplies
<1> QED
  BY <1>1, ChoicesInvariant, PTL

-------------------------------------------------------------------------------
(* Subtitles stay with their videos.  A pair that nobody else has changed is   *)
(* read as it lies, since only applies and quarantines move it, and not while  *)
(* a command runs; so each reading finds the subtitle with its video, or       *)
(* leaves it open, and each plan has it do what its video does (PairsMatch),   *)
(* however old it is when an executor works from it.                           *)

\* A subtitle and the only video it can belong to, both there and nobody else's.
Pair(s, v) ==
  /\ s \in Sidecars \ touched /\ KindOf[s] = "subtitle" /\ library[s].at # Nowhere
  /\ v \in Videos \ touched /\ Beside[s] = {v} /\ library[v].at # Nowhere

\* What a reading says of the videos that nobody else changed is still so.
SeenTruly(seen) ==
  \A f \in Videos \ touched : library[f].at # Nowhere =>
    /\ f \in DOMAIN seen <=> library[f].at = Inbox(f) \/ IsManaged(library[f].at)
    /\ f \in DOMAIN seen => seen[f].at = library[f].at

\* The two paths are beside each other.
OnePlace(s, at, v, path) ==
  \/ at = Inbox(s) /\ path = Inbox(v)
  \/ IsManaged(at) /\ at.base = path.base

\* A companion does what its video does, unless the plan leaves it open.
Matches(s, v, records, companions) ==
  /\ v \in DOMAIN records =>
       /\ s \in DOMAIN companions /\ OnePlace(s, companions[s].at, v, records[v].at)
       /\ companions[s].status # "unresolved" =>
            /\ companions[s].video = {v}
            /\ companions[s].status = "associated" <=> Goes(records[v])
            /\ companions[s].status = "duplicate" <=> records[v].status = "duplicate"
            /\ Goes(records[v]) => companions[s].dest.base = records[v].dest.base
  /\ v \notin DOMAIN records /\ s \in DOMAIN companions =>
       companions[s].status \notin {"associated", "duplicate"}

\* In the layout, a subtitle is named after its video and itself.
Named(s, path) == IsManaged(path) => path = Path(path.base, <<SuffixOf[s], FormatOf[s]>>)

PairsMatch(records, companions) ==
  /\ \A s \in DOMAIN companions :
       Named(s, companions[s].at) /\ Named(s, companions[s].dest)
  /\ \A s \in Sidecars, v \in Videos : Pair(s, v) => Matches(s, v, records, companions)

TogetherInv ==
  /\ ChoicesInv /\ SubtitlesStayWithVideos
  /\ \A s \in Sidecars : Named(s, library[s].at)
  /\ command.pc # "idle" => SeenTruly(command.seen)
  /\ command.pc \in {"extending", "binding"} => SeenTruly(command.again)
  /\ command.pc \in Drawing => PairsMatch(command.records, command.companions)
  /\ \A p \in Bundles : PairsMatch(p.records, p.companions) /\ (p.ready => Settled(p))

-------------------------------------------------------------------------------
\* Every reading finds a subtitle with its video, or leaves it open.
LEMMA PairRead ==
  ASSUME NEW s, NEW v, NEW seen, DOMAIN seen \subseteq Videos, Pair(s, v), Together(s, v),
         SeenTruly(seen), KeptInv
  PROVE  LET sidecar == DiscoverSidecars(library, seen)[s] IN
         /\ v \in DOMAIN seen =>
              /\ s \in DOMAIN DiscoverSidecars(library, seen)
              /\ OnePlace(s, sidecar.at, v, library[v].at)
              /\ sidecar.as \in {"associated", "unresolved"}
              /\ sidecar.as = "associated" => sidecar.video = {v}
         /\ v \notin DOMAIN seen /\ s \in DOMAIN DiscoverSidecars(library, seen) =>
              sidecar.as \in {"ignored", "unresolved"}
<1> DEFINE sidecar == DiscoverSidecars(library, seen)[s]
           candidates == CandidatesFor(s, library, seen)
<1>1. DOMAIN DiscoverSidecars(library, seen) = Adjacent(library, seen)
  BY DEF DiscoverSidecars
<1>2. ASSUME s \in Adjacent(library, seen)
      PROVE  /\ sidecar.at = library[s].at
             /\ \/ sidecar.as = "associated" /\ s \in Associated(library, seen)
                   /\ sidecar.video = {VideoOf(s, library, seen)}
                \/ sidecar.as = "unresolved"
                \/ sidecar.as = "ignored" /\ s \in Ignored(library, seen)
  <2>1. sidecar =
          [as |-> IF s \in Associated(library, seen) THEN "associated"
                  ELSE IF s \in Ignored(library, seen) THEN "ignored" ELSE "unresolved",
           video |-> IF s \in Associated(library, seen) THEN {VideoOf(s, library, seen)} ELSE {},
           at |-> library[s].at, version |-> library[s].version]
    BY <1>2 DEF DiscoverSidecars
  <2> HIDE DEF sidecar
  <2> QED
    BY <2>1
<1>3. s \notin Ignored(library, seen)
  BY DEF Pair, Ignored
<1>4. s \in Associated(library, seen) => Cardinality(candidates) = 1
  BY DEF Associated, Subtitles
<1>5. IsFiniteSet(candidates)
  <2>1. candidates \subseteq Videos
    BY DEF CandidatesFor
  <2> QED
    BY <2>1, RulesAssumption, FS_Subset
<1>6. /\ ~IsManaged(Inbox(s)) /\ ~IsManaged(Inbox(v))
      /\ Inbox(s).base[1] # "quarantine" /\ Inbox(v).base[1] # "quarantine"
      /\ \A path : IsManaged(path) => path.base[1] # "quarantine"
  BY PlacesOf DEF Inbox, Path, IsManaged
<1>7. CASE v \in DOMAIN seen
  <2>1. /\ seen[v].at = library[v].at
        /\ library[v].at = Inbox(v) \/ IsManaged(library[v].at)
    BY <1>7 DEF SeenTruly, Pair
  <2>2. \/ library[s].at = Inbox(s) /\ library[v].at = Inbox(v)
        \/ /\ IsManaged(library[s].at) /\ IsManaged(library[v].at)
           /\ library[s].at.base = library[v].at.base
    BY <1>6, <2>1 DEF Together, IsManaged
  <2>3. s \in Adjacent(library, seen)
    <3>1. s \in Sidecars /\ library[s].at # Nowhere /\ v \in Beside[s]
      BY DEF Pair
    <3>2. CASE library[s].at = Inbox(s) /\ library[v].at = Inbox(v)
      <4>1. seen[v].at = Inbox(v) /\ \E w \in Beside[s] : FolderOf[v] = FolderOf[w]
        BY <2>1, <3>1, <3>2
      <4> QED
        BY <1>7, <3>1, <3>2, <4>1 DEF Adjacent
    <3>3. CASE /\ IsManaged(library[s].at) /\ IsManaged(library[v].at)
               /\ library[s].at.base = library[v].at.base
      <4>1. library[s].at # Inbox(s)
        BY <1>6, <3>3
      <4>2. IsManaged(seen[v].at) /\ seen[v].at.base[2] = library[s].at.base[2]
        BY <2>1, <3>3
      <4> QED
        BY <1>7, <3>1, <4>1, <4>2 DEF Adjacent
    <3> QED
      BY <2>2, <3>2, <3>3
  <2>4. v \in candidates
    BY <1>7, <2>1, <2>2 DEF CandidatesFor, Pair
  <2>5. ASSUME s \in Associated(library, seen)
        PROVE  VideoOf(s, library, seen) = v
    <3>1. PICK x : candidates = {x}
      BY <1>4, <1>5, <2>5, FS_Singleton
    <3> QED
      BY <2>4, <3>1 DEF VideoOf
  <2>6. OnePlace(s, library[s].at, v, library[v].at)
    BY <2>2 DEF OnePlace
  <2> HIDE DEF sidecar
  <2>7. /\ sidecar.at = library[s].at /\ sidecar.as \in {"associated", "unresolved"}
        /\ sidecar.as = "associated" => sidecar.video = {v}
    BY <1>2, <1>3, <2>3, <2>5
  <2> QED
    BY <1>1, <1>7, <2>3, <2>6, <2>7 DEF sidecar
<1>8. CASE v \notin DOMAIN seen
  <2>1. library[v].at # Inbox(v) /\ ~IsManaged(library[v].at)
    BY <1>8 DEF SeenTruly, Pair
  <2>2. library[s].at.base[1] = "quarantine"
    BY <2>1 DEF Together, IsManaged
  <2>3. candidates = {}
    BY <1>6, <2>2 DEF CandidatesFor
  <2>4. s \notin Associated(library, seen)
    BY <1>4, <2>3, FS_EmptySet
  <2> HIDE DEF sidecar
  <2>5. s \in Adjacent(library, seen) => sidecar.as \in {"ignored", "unresolved"}
    BY <1>2, <2>4
  <2> QED
    BY <1>1, <1>8, <2>5 DEF sidecar
<1> QED
  BY <1>7, <1>8

\* What is planned for a companion.
LEMMA CompanionSays ==
  ASSUME NEW sidecars, NEW records, NEW s \in DOMAIN sidecars
  PROVE  LET c == PlanCompanions(sidecars, records)[s] IN
         /\ c.at = sidecars[s].at /\ c.video = sidecars[s].video
         /\ sidecars[s].as # "associated" => c.status = sidecars[s].as
         /\ Named(s, c.dest)
         /\ \A v : sidecars[s].as = "associated" /\ sidecars[s].video = {v} =>
              \/ /\ Goes(records[v]) /\ c.status = "associated"
                 /\ c.dest.base = records[v].dest.base
              \/ records[v].status = "duplicate" /\ c.status = "duplicate"
              \/ /\ ~Goes(records[v]) /\ records[v].status # "duplicate"
                 /\ c.status \in {"ignored", "unresolved"}
<1> DEFINE c == PlanCompanions(sidecars, records)[s]
           of(status, dest) == [at |-> sidecars[s].at, version |-> sidecars[s].version,
                                status |-> status, video |-> sidecars[s].video, dest |-> dest]
           place(video) == Path(video.dest.base, <<SuffixOf[s], FormatOf[s]>>)
           video == records[CHOOSE v \in sidecars[s].video : TRUE]
<1>1. c = IF sidecars[s].as # "associated" THEN of(sidecars[s].as, Nowhere)
          ELSE CASE video.status \in {"matched", "extra"} -> of("associated", place(video))
                 [] video.status = "duplicate" -> of("duplicate", Nowhere)
                 [] video.status = "held" -> of("ignored", Nowhere)
                 [] OTHER -> of("unresolved", Nowhere)
  BY DEF PlanCompanions, CompanionOf
<1>2. \A status, dest : LET o == of(status, dest) IN
        /\ o.at = sidecars[s].at /\ o.video = sidecars[s].video
        /\ o.status = status /\ o.dest = dest
  OBVIOUS
<1>3. \A v : place(v).base = v.dest.base /\ Named(s, place(v))
  BY DEF Path, Named
<1>a. Named(s, Nowhere)
  BY PlacesOf DEF Named
<1> HIDE DEF c, of, place
<1>4. CASE sidecars[s].as # "associated"
  <2>1. c = of(sidecars[s].as, Nowhere)
    BY <1>1, <1>4
  <2> QED
    BY <1>2, <1>4, <1>a, <2>1 DEF c
<1>5. CASE sidecars[s].as = "associated"
  <2>1. \/ Goes(video) /\ c = of("associated", place(video))
        \/ video.status = "duplicate" /\ c = of("duplicate", Nowhere)
        \/ /\ ~Goes(video) /\ video.status # "duplicate"
           /\ c = of("ignored", Nowhere) \/ c = of("unresolved", Nowhere)
    BY <1>1, <1>5 DEF Goes
  <2>2. ASSUME NEW v, sidecars[s].video = {v}
        PROVE  video = records[v]
    BY <2>2
  <2> HIDE DEF video
  <2>3. /\ c.at = sidecars[s].at /\ c.video = sidecars[s].video /\ Named(s, c.dest)
        /\ \/ Goes(video) /\ c.status = "associated" /\ c.dest.base = video.dest.base
           \/ video.status = "duplicate" /\ c.status = "duplicate"
           \/ /\ ~Goes(video) /\ video.status # "duplicate"
              /\ c.status \in {"ignored", "unresolved"}
    BY <1>2, <1>3, <1>a, <2>1
  <2> QED
    BY <1>5, <2>2, <2>3 DEF c
<1> QED
  BY <1>4, <1>5

\* Companions are named like the sidecars that were read, and their videos.
LEMMA CompanionsNamed ==
  ASSUME \A s \in Sidecars : Named(s, library[s].at), NEW seen, NEW records
  PROVE  LET companions == PlanCompanions(DiscoverSidecars(library, seen), records) IN
         \A s \in DOMAIN companions : Named(s, companions[s].at) /\ Named(s, companions[s].dest)
<1> DEFINE sidecars == DiscoverSidecars(library, seen)
           companions == PlanCompanions(sidecars, records)
<1>1. /\ DOMAIN companions = DOMAIN sidecars /\ DOMAIN sidecars = Adjacent(library, seen)
      /\ \A s \in DOMAIN sidecars : sidecars[s].at = library[s].at
  BY DEF PlanCompanions, DiscoverSidecars
<1>2. Adjacent(library, seen) \subseteq Sidecars
  BY DEF Adjacent
<1>3. \A s \in DOMAIN sidecars :
        companions[s].at = sidecars[s].at /\ Named(s, companions[s].dest)
  BY CompanionSays
<1> HIDE DEF sidecars, companions
<1>4. \A s \in DOMAIN companions : Named(s, companions[s].at) /\ Named(s, companions[s].dest)
  BY <1>1, <1>2, <1>3
<1> QED
  BY <1>4 DEF companions, sidecars

\* A plan has a companion do what its video does.
LEMMA PairPlanned ==
  ASSUME NEW s, NEW v, NEW seen, NEW records, DOMAIN seen \subseteq Videos, Pair(s, v),
         Together(s, v), SeenTruly(seen), KeptInv, v \in DOMAIN records <=> v \in DOMAIN seen,
         v \in DOMAIN records => records[v].at = library[v].at
  PROVE  Matches(s, v, records, PlanCompanions(DiscoverSidecars(library, seen), records))
<1> DEFINE sidecars == DiscoverSidecars(library, seen)
           companions == PlanCompanions(sidecars, records)
<1>1. DOMAIN companions = DOMAIN sidecars
  BY DEF PlanCompanions
<1>2. /\ v \in DOMAIN seen =>
           /\ s \in DOMAIN sidecars /\ OnePlace(s, sidecars[s].at, v, library[v].at)
           /\ sidecars[s].as \in {"associated", "unresolved"}
           /\ sidecars[s].as = "associated" => sidecars[s].video = {v}
      /\ v \notin DOMAIN seen /\ s \in DOMAIN sidecars =>
           sidecars[s].as \in {"ignored", "unresolved"}
  BY PairRead
<1>3. s \in DOMAIN sidecars =>
        /\ companions[s].at = sidecars[s].at /\ companions[s].video = sidecars[s].video
        /\ sidecars[s].as # "associated" => companions[s].status = sidecars[s].as
        /\ sidecars[s].as = "associated" /\ sidecars[s].video = {v} =>
             \/ /\ Goes(records[v]) /\ companions[s].status = "associated"
                /\ companions[s].dest.base = records[v].dest.base
             \/ records[v].status = "duplicate" /\ companions[s].status = "duplicate"
             \/ /\ ~Goes(records[v]) /\ records[v].status # "duplicate"
                /\ companions[s].status \in {"ignored", "unresolved"}
  BY CompanionSays
<1> HIDE DEF sidecars, companions
<1>4. Goes(records[v]) => records[v].status # "duplicate"
  BY DEF Goes
<1>5. Matches(s, v, records, companions)
  BY <1>1, <1>2, <1>3, <1>4 DEF Matches
<1> QED
  BY <1>5 DEF companions, sidecars

-------------------------------------------------------------------------------
(* What moves pairs. *)

\* Two paths beside each other in the layout or the inbox.
LEMMA TogetherAt ==
  ASSUME NEW s, NEW v, Together(s, v), library[v].at = Inbox(v) \/ IsManaged(library[v].at)
  PROVE  OnePlace(s, library[s].at, v, library[v].at)
<1>1. ~IsManaged(Inbox(v)) /\ Inbox(v).base[1] # "quarantine"
  BY PlacesOf DEF Inbox, Path
<1> QED
  BY <1>1 DEF Together, OnePlace, IsManaged

\* An apply takes both, or the one that moves joins the other.
LEMMA ApplyKeepsTogether ==
  ASSUME TogetherInv, NEW p \in Bundles, NEW groups, Apply(p, groups), NEW s, NEW v, Pair(s, v)
  PROVE  Together(s, v)'
<1> DEFINE moved == MembersOf(p, groups)
           c == p.companions[s]
           r == p.records[v]
<1>p. PlanOK(p)
  BY BundleOK DEF TogetherInv, ChoicesInv, KeptInv, OnceInv
<1>1. /\ moved \subseteq Moving(p)
      /\ \A x \in Files : library'[x].at = IF x \in moved THEN Entry(p, x).dest
                                           ELSE library[x].at
      /\ \A x \in moved : library[x].at = Entry(p, x).at
  BY ApplyPlaces DEF TogetherInv, ChoicesInv
<1>2. /\ s \in Sidecars /\ v \in Videos /\ s \in Files /\ v \in Files
      /\ s \notin DOMAIN p.records /\ v \notin DOMAIN p.companions
      /\ Entry(p, s) = c /\ (v \in DOMAIN p.records => Entry(p, v) = r)
  BY <1>p, RulesAssumption DEF Pair, Files, PlanOK, RecordsOK, CompanionsOK, Entry
<1>3. Together(s, v) /\ Matches(s, v, p.records, p.companions)
  BY <1>2 DEF TogetherInv, PairsMatch, Pair, SubtitlesStayWithVideos
<1>4. /\ s \in DOMAIN p.companions => c.status # "unresolved"
      /\ v \in DOMAIN p.records => RecordOK(r)
  BY <1>p DEF Apply, Executes, TogetherInv, Settled, PlanOK, RecordsOK
<1>5. /\ v \in Moving(p) <=> v \in DOMAIN p.records /\ Goes(r) /\ r.dest # r.at
      /\ s \in Moving(p) <=> /\ s \in DOMAIN p.companions /\ c.status = "associated"
                                /\ c.dest # c.at
  BY <1>2 DEF Moving, Goes
<1>6. /\ v \in moved <=> v \in Moving(p) /\ (v \in DOMAIN p.records => v \in groups)
      /\ s \in moved <=> s \in Moving(p) /\ c.video \subseteq groups
  BY <1>2, <1>5 DEF MembersOf, GroupOf
<1>7. /\ ~IsManaged(Inbox(s)) /\ ~IsManaged(Inbox(v))
      /\ \A path, other : path.base = other.base => (IsManaged(path) <=> IsManaged(other))
  BY PlacesOf DEF IsManaged
<1> HIDE DEF moved, c, r
<1>8. ASSUME v \in DOMAIN p.records, Goes(r)
      PROVE  /\ s \in DOMAIN p.companions /\ c.video = {v} /\ c.status = "associated"
             /\ c.dest.base = r.dest.base /\ IsManaged(r.dest) /\ IsManaged(c.dest)
             /\ OnePlace(s, c.at, v, r.at)
  <2>1. /\ s \in DOMAIN p.companions /\ c.video = {v} /\ c.status = "associated"
        /\ c.dest.base = r.dest.base /\ OnePlace(s, c.at, v, r.at)
    BY <1>3, <1>4, <1>8 DEF Matches, c, r
  <2>2. IsManaged(r.dest)
    BY <1>4, <1>8 DEF RecordOK, Goes
  <2> QED
    BY <1>7, <2>1, <2>2
<1>9. CASE v \in moved
  <2>1. /\ v \in DOMAIN p.records /\ Goes(r) /\ v \in groups
        /\ library[v].at = r.at /\ library'[v].at = r.dest
    BY <1>1, <1>2, <1>5, <1>6, <1>9
  <2>2. CASE s \in moved
    <3>1. library'[s].at = c.dest
      BY <1>1, <1>2, <2>2
    <3> QED
      BY <1>8, <2>1, <3>1 DEF Together
  <2>3. CASE s \notin moved
    <3>1. c.dest = c.at /\ library'[s].at = library[s].at
      BY <1>1, <1>2, <1>5, <1>6, <1>8, <2>1, <2>3
    <3>2. r.at.base = c.at.base /\ IsManaged(r.at)
      BY <1>7, <1>8, <2>1, <3>1 DEF OnePlace
    <3>3. OnePlace(s, library[s].at, v, library[v].at)
      BY <1>3, <2>1, <3>2, TogetherAt
    <3>4. IsManaged(library[s].at) /\ library[s].at.base = r.at.base
      BY <1>7, <2>1, <3>2, <3>3 DEF OnePlace
    <3> QED
      BY <1>8, <2>1, <3>1, <3>2, <3>4 DEF Together
  <2> QED
    BY <2>2, <2>3
<1>10. CASE v \notin moved /\ s \in moved
  <2>1. /\ s \in DOMAIN p.companions /\ c.status = "associated" /\ c.video \subseteq groups
        /\ library[s].at = c.at /\ library'[s].at = c.dest /\ library'[v].at = library[v].at
    BY <1>1, <1>2, <1>5, <1>6, <1>10
  <2>2. v \in DOMAIN p.records /\ Goes(r)
    BY <1>3, <2>1 DEF Matches, c, r
  <2>3. r.dest = r.at
    BY <1>5, <1>6, <1>8, <1>10, <2>1, <2>2
  <2>4. IsManaged(c.at) /\ c.at.base = r.at.base
    BY <1>7, <1>8, <2>2, <2>3 DEF OnePlace
  <2>5. library[v].at.base = library[s].at.base
    <3>1. library[s].at # Inbox(s) /\ library[s].at.base[1] # "quarantine"
      BY <1>7, <2>1, <2>4 DEF IsManaged
    <3> QED
      BY <1>3, <3>1 DEF Together
  <2> QED
    BY <1>8, <2>1, <2>2, <2>3, <2>4, <2>5 DEF Together
<1>11. CASE v \notin moved /\ s \notin moved
  <2>1. library'[s].at = library[s].at /\ library'[v].at = library[v].at
    BY <1>1, <1>2, <1>11
  <2> QED
    BY <1>3, <2>1 DEF Together
<1> QED
  BY <1>9, <1>10, <1>11

\* A quarantine takes both or none.
LEMMA QuarantineKeepsTogether ==
  ASSUME TogetherInv, NEW p \in Bundles, Quarantine(p), NEW s, NEW v, Pair(s, v)
  PROVE  Together(s, v)'
<1> DEFINE moved == Taken(p)
           c == p.companions[s]
           r == p.records[v]
<1>1. /\ PlanOK(p) /\ Rows(p.records) /\ AtHome(v, library[v].at) /\ Named(s, library[s].at)
      /\ \A x \in Files : library'[x].at = IF x \in moved THEN QuarantinePath(p, x)
                                           ELSE library[x].at
  BY BundleOK, QuarantinePlaces
     DEF TogetherInv, ChoicesInv, KeptInv, OnceInv, PlanStands, Stands, Pair
<1>2. /\ s \in Sidecars /\ v \in Videos /\ s \in Files /\ v \in Files
      /\ s \notin DOMAIN p.records /\ v \notin DOMAIN p.companions
      /\ s \in DOMAIN p.companions => Named(s, c.at)
  BY <1>1, RulesAssumption DEF Pair, Files, PlanOK, RecordsOK, CompanionsOK, TogetherInv, PairsMatch
<1>3. Together(s, v) /\ Matches(s, v, p.records, p.companions)
  BY <1>2 DEF TogetherInv, PairsMatch, Pair, SubtitlesStayWithVideos
<1>4. s \in DOMAIN p.companions => c.status # "unresolved"
  BY DEF Quarantine, Executes, TogetherInv, Settled
<1>5. /\ v \in moved <=> /\ v \in DOMAIN p.records /\ r.status = "duplicate"
                         /\ library[v].at = r.at
      /\ s \in moved <=> /\ s \in DOMAIN p.companions /\ c.status = "duplicate"
                         /\ library[s].at = c.at
  BY <1>2 DEF Taken, QuarantineMembers, Losers, Entry
<1>6. /\ s \in DOMAIN p.companions /\ c.status = "duplicate" <=>
           v \in DOMAIN p.records /\ r.status = "duplicate"
      /\ v \in DOMAIN p.records => s \in DOMAIN p.companions /\ OnePlace(s, c.at, v, r.at)
  BY <1>3, <1>4 DEF Matches
<1>7. ASSUME v \in DOMAIN p.records, OnePlace(s, c.at, v, r.at), Named(s, c.at)
      PROVE  library[v].at = r.at <=> library[s].at = c.at
  <2>1. /\ \A x : ~IsManaged(Inbox(x)) /\ Inbox(x).base[1] # "quarantine"
        /\ \A path : IsManaged(path) => path.base[1] # "quarantine"
        /\ \A path, other : path.base = other.base => (IsManaged(path) <=> IsManaged(other))
    BY PlacesOf DEF Inbox, Path, IsManaged
  <2>2. LiesAt(v, r.at)
    BY <1>1, <1>7 DEF Rows
  <2>3. CASE c.at = Inbox(s) /\ r.at = Inbox(v)
    BY <1>3, <2>1, <2>3 DEF Together
  <2>4. CASE IsManaged(c.at) /\ c.at.base = r.at.base
    <3>1. IsManaged(r.at) /\ AtHome(v, r.at)
      BY <2>1, <2>2, <2>4 DEF LiesAt
    <3>2. ASSUME IsManaged(library[v].at), library[v].at.base = r.at.base
          PROVE  library[v].at = r.at
      BY <1>1, <3>1, <3>2 DEF AtHome, FoundAt, IsManaged
    <3>3. ASSUME IsManaged(library[s].at), library[s].at.base = c.at.base
          PROVE  library[s].at = c.at
      BY <1>1, <1>7, <2>4, <3>3 DEF Named
    <3> QED
      BY <1>3, <2>1, <2>4, <3>1, <3>2, <3>3 DEF Together
  <2> QED
    BY <1>7, <2>3, <2>4 DEF OnePlace
<1>8. s \in moved <=> v \in moved
  BY <1>2, <1>5, <1>6, <1>7
<1>9. \A x : QuarantinePath(p, x).base[1] = "quarantine"
  BY DEF QuarantinePath, Path
<1> HIDE DEF moved
<1> QED
  BY <1>1, <1>2, <1>3, <1>8, <1>9 DEF Together

-------------------------------------------------------------------------------
(* The steps of the command. *)

LEMMA ScannedTruly ==
  /\ SeenTruly(Scanned(library)) /\ DOMAIN Scanned(library) \subseteq Videos
<1> DEFINE seen == Scanned(library)
<1>1. DOMAIN seen = {f \in Videos : library[f].at = Inbox(f) \/ IsManaged(library[f].at)}
      /\ \A f \in DOMAIN seen : seen[f] = library[f]
  BY DEF Scanned
<1> HIDE DEF seen
<1>2. SeenTruly(seen) /\ DOMAIN seen \subseteq Videos
  BY <1>1 DEF SeenTruly
<1> QED
  BY <1>2 DEF seen

LEMMA CommandTogether ==
  ASSUME TogetherInv, ChoicesInv', Draws,
         command'.pc # "idle" => SeenTruly(command'.seen),
         command'.pc \in {"extending", "binding"} => SeenTruly(command'.again),
         command'.pc \in Drawing => PairsMatch(command'.records, command'.companions)
  PROVE  TogetherInv'
<1>1. library' = library /\ touched' = touched /\ plan' = plan /\ saved' = saved
  BY DEF Draws, Reads
<1>2. SubtitlesStayWithVideos' /\ \A s \in Sidecars : Named(s, library'[s].at)
  BY <1>1 DEF TogetherInv, SubtitlesStayWithVideos, Together
<1>3. \A s, v : Pair(s, v)' <=> Pair(s, v)
  BY <1>1 DEF Pair
<1>4. /\ SeenTruly(command'.seen) => SeenTruly(command.seen)'
      /\ SeenTruly(command'.again) => SeenTruly(command.again)'
  BY <1>1 DEF SeenTruly
<1>5. PairsMatch(command'.records, command'.companions) =>
        PairsMatch(command.records, command.companions)'
  BY <1>3 DEF PairsMatch
<1>6. \A p \in Bundles' : PairsMatch(p.records, p.companions)' /\ (p.ready => Settled(p))
  BY <1>1, <1>3 DEF TogetherInv, PairsMatch, Bundles
<1> QED
  BY <1>2, <1>4, <1>5, <1>6 DEF TogetherInv

LEMMA StopTogether ==
  ASSUME TogetherInv, ChoicesInv', Draws, command' = Idle
  PROVE  TogetherInv'
<1>1. command'.pc = "idle"
  BY DEF Idle
<1>2. command'.pc \notin Drawing
  BY <1>1 DEF Drawing, Answering
<1> QED
  BY <1>1, <1>2, CommandTogether

LEMMA ScanTogether ==
  ASSUME TogetherInv, ChoicesInv', Scan
  PROVE  TogetherInv'
<1> DEFINE seen == Scanned(library)
<1>1. command' = [Idle EXCEPT !.pc = "scanned", !.seen = seen] \/ command' = Idle
  BY DEF Scan, GoesOn
<1>2. Draws
  BY DEF Scan
<1>3. SeenTruly(seen)
  BY ScannedTruly
<1> HIDE DEF seen
<1>4. CASE command' = Idle
  BY <1>2, <1>4, StopTogether
<1>5. CASE command' = [Idle EXCEPT !.pc = "scanned", !.seen = seen]
  <2>1. command' = [pc |-> "scanned", seen |-> seen, records |-> Empty, companions |-> Empty,
                    again |-> Empty]
    BY <1>5, IdleOK, CommandSees
  <2>2. command'.pc = "scanned" /\ command'.seen = seen
    BY <2>1
  <2>3. command'.pc \notin Drawing
    BY <2>2 DEF Drawing, Answering
  <2> QED
    BY <1>2, <1>3, <2>2, <2>3, CommandTogether
<1> QED
  BY <1>1, <1>4, <1>5

\* A step of the command that reads the sidecars and leaves its reading of the videos.
LEMMA RecordsTogether ==
  ASSUME TogetherInv, ChoicesInv', Draws, command.pc # "idle",
         NEW pc \in {"drafted", "extended", "planned"}, NEW records, NEW seen,
         DOMAIN seen \subseteq Videos, SeenTruly(seen),
         DrawsUp(pc, records, PlanCompanions(DiscoverSidecars(library, seen), records))
  PROVE  TogetherInv'
<1> DEFINE companions == PlanCompanions(DiscoverSidecars(library, seen), records)
<1>1. IsCommand(command) /\ KeptInv /\ KeptInv' /\ SeenTruly(command.seen)
  BY DEF TogetherInv, ChoicesInv, KeptInv, OnceInv, PlanningInv, CommandOK
<1>2. /\ command'.pc = pc /\ command'.seen = command.seen /\ command'.records = records
      /\ command'.companions = companions /\ command'.pc \in Drawing
      /\ command'.pc \notin {"extending", "binding"}
  BY <1>1, CommandDraws DEF Drawing, Answering
<1>3. Drawn(command.seen, command.records)'
  BY <1>1, <1>2 DEF KeptInv, OnceInv
<1>4. /\ DOMAIN records = DOMAIN command.seen
      /\ \A f \in DOMAIN records : records[f].at = command.seen[f].at
  BY <1>2, <1>3 DEF Drawn
<1>5. \A s \in DOMAIN companions : Named(s, companions[s].at) /\ Named(s, companions[s].dest)
  BY CompanionsNamed DEF TogetherInv
<1> HIDE DEF companions
<1>6. ASSUME NEW s \in Sidecars, NEW v \in Videos, Pair(s, v)
      PROVE  Matches(s, v, records, companions)
  <2>1. Together(s, v)
    BY <1>6 DEF TogetherInv, SubtitlesStayWithVideos, Pair
  <2>2. /\ v \in DOMAIN records <=> v \in DOMAIN seen
        /\ v \in DOMAIN records => records[v].at = library[v].at
    BY <1>1, <1>4, <1>6 DEF SeenTruly, Pair
  <2> QED
    BY <1>1, <1>6, <2>1, <2>2, PairPlanned DEF companions
<1>7. PairsMatch(records, companions)
  BY <1>5, <1>6 DEF PairsMatch
<1> QED
  BY <1>1, <1>2, <1>7, CommandTogether

LEMMA DraftPlanTogether ==
  ASSUME TogetherInv, ChoicesInv', DraftPlan
  PROVE  TogetherInv'
<1> DEFINE seen == command.seen
           held == {f \in DOMAIN seen : seen[f].at \in catalog.holds}
           drafted == Draft(seen, [f \in DOMAIN seen |-> FoundAt(f, seen[f].at)], held)
           records == DecideDuplicates(drafted, PreferredPaths)
           companions == PlanCompanions(DiscoverSidecars(library, seen), records)
           next(pc) == [command EXCEPT !.pc = pc, !.records = records, !.companions = companions]
<1>1. command' = Idle \/ \E pc \in Drafted : command' = next(pc)
  BY DEF DraftPlan, GoesOn
<1>2. Draws /\ command.pc = "scanned"
  BY DEF DraftPlan
<1>3. SeenTruly(seen) /\ DOMAIN seen \subseteq Videos
  BY <1>2 DEF TogetherInv, ChoicesInv, KeptInv, OnceInv, PlanningInv, CommandOK
<1>4. \A pc \in Drafted : pc \in {"drafted", "extended", "planned"}
  BY DEF Drafted
<1> HIDE DEF records, seen
<1>5. CASE command' = Idle
  BY <1>2, <1>5, StopTogether
<1>6. ASSUME NEW pc \in Drafted, command' = next(pc)
      PROVE  TogetherInv'
  <2>1. DrawsUp(pc, records, companions)
    BY <1>6 DEF DrawsUp
  <2> HIDE DEF next
  <2> QED
    BY <1>2, <1>3, <1>4, <2>1, RecordsTogether
<1> QED
  BY <1>1, <1>5, <1>6

LEMMA RereadTogether ==
  ASSUME TogetherInv, ChoicesInv', Reread
  PROVE  TogetherInv'
<1>1. IsCommand(command) /\ SeenTruly(Scanned(library))
  BY ScannedTruly DEF TogetherInv, ChoicesInv, KeptInv, OnceInv, PlanningInv, CommandOK
<1>2. /\ command'.seen = command.seen /\ command'.records = command.records
      /\ command'.companions = command.companions /\ command'.again = Scanned(library)
      /\ command.pc \in {"drafted", "extended"} /\ Draws
  BY <1>1, CommandRereads
<1>3. SeenTruly(command.seen) /\ PairsMatch(command.records, command.companions)
  BY <1>2 DEF TogetherInv, Drawing, Answering
<1> QED
  BY <1>1, <1>2, <1>3, CommandTogether

LEMMA ExtendTogether ==
  ASSUME TogetherInv, ChoicesInv', Extend
  PROVE  TogetherInv'
<1> DEFINE seen == command.again
           answered == [f \in DOMAIN command.records |-> Answered(f)]
           records == DecideDuplicates(answered, PreferredPaths)
           companions == PlanCompanions(DiscoverSidecars(library, seen), records)
<1>1. \/ command' = Idle
      \/ command' = [command EXCEPT !.pc = "extended", !.records = records,
                                    !.companions = companions, !.again = Empty]
  BY DEF Extend, GoesOn
<1>2. Draws /\ command.pc = "extending"
  BY DEF Extend
<1>3. SeenTruly(seen) /\ DOMAIN seen \subseteq Videos
  BY <1>2 DEF TogetherInv, ChoicesInv, KeptInv, OnceInv, PlanningInv, CommandOK
<1> HIDE DEF records, seen
<1>4. CASE command' = Idle
  BY <1>2, <1>4, StopTogether
<1>5. CASE command' = [command EXCEPT !.pc = "extended", !.records = records,
                                      !.companions = companions, !.again = Empty]
  <2>1. DrawsUp("extended", records, companions)
    BY <1>5 DEF DrawsUp
  <2> QED
    BY <1>2, <1>3, <2>1, RecordsTogether
<1> QED
  BY <1>1, <1>4, <1>5

LEMMA BindTogether ==
  ASSUME TogetherInv, ChoicesInv', Bind
  PROVE  TogetherInv'
<1> DEFINE seen == command.again
           ruled == [f \in DOMAIN command.records |->
                       IF \E g \in catalog.groups : f \in Members(g)
                       THEN Ruled(f, CHOOSE g \in catalog.groups : f \in Members(g))
                       ELSE command.records[f]]
           companions == PlanCompanions(DiscoverSidecars(library, seen), ruled)
<1>1. \/ command' = Idle
      \/ command' = [command EXCEPT !.pc = "planned", !.records = ruled,
                                    !.companions = companions, !.again = Empty]
  BY DEF Bind, GoesOn
<1>2. Draws /\ command.pc = "binding"
  BY DEF Bind
<1>3. SeenTruly(seen) /\ DOMAIN seen \subseteq Videos
  BY <1>2 DEF TogetherInv, ChoicesInv, KeptInv, OnceInv, PlanningInv, CommandOK
<1> HIDE DEF ruled, seen
<1>4. CASE command' = Idle
  BY <1>2, <1>4, StopTogether
<1>5. CASE command' = [command EXCEPT !.pc = "planned", !.records = ruled,
                                      !.companions = companions, !.again = Empty]
  <2>1. DrawsUp("planned", ruled, companions)
    BY <1>5 DEF DrawsUp
  <2> QED
    BY <1>2, <1>3, <2>1, RecordsTogether
<1> QED
  BY <1>1, <1>4, <1>5

LEMMA PublishTogether ==
  ASSUME TogetherInv, ChoicesInv', Publish
  PROVE  TogetherInv'
<1> DEFINE new == [NoPlan EXCEPT !.records = command.records,
                                 !.companions = command.companions, !.latest = TRUE]
           ready == PreflightReady(new, library)
<1>1. /\ plan' = [new EXCEPT !.ready = ready] /\ command' = Idle /\ Reads
      /\ command.pc = "planned" /\ saved' \subseteq saved \cup {Past(plan)}
  BY DEF Publish
<1>2. new = [records |-> command.records, companions |-> command.companions,
             ready |-> FALSE, latest |-> TRUE]
  BY PlanDrawnUp
<1>3. ready => Settled(new)
  BY DEF PreflightReady
<1> HIDE DEF new, ready
<1>4. plan' = [records |-> command.records, companions |-> command.companions,
               ready |-> ready, latest |-> TRUE]
  BY <1>1, <1>2
<1>5. /\ plan'.records = command.records /\ plan'.companions = command.companions
      /\ plan'.ready = ready
  BY <1>4
<1>6. plan'.ready => Settled(plan')
  BY <1>2, <1>3, <1>5 DEF Settled
<1>7. library' = library /\ touched' = touched /\ command'.pc = "idle"
  BY <1>1 DEF Reads, Idle
<1>8. /\ SubtitlesStayWithVideos' /\ \A s, v : Pair(s, v)' <=> Pair(s, v)
      /\ \A s \in Sidecars : Named(s, library'[s].at)
  BY <1>7 DEF TogetherInv, SubtitlesStayWithVideos, Together, Pair
<1>9. \A records, companions : PairsMatch(records, companions) => PairsMatch(records, companions)'
  BY <1>8 DEF PairsMatch
<1>10. PairsMatch(command.records, command.companions)
  BY <1>1 DEF TogetherInv, Drawing, Answering
<1>11. ASSUME NEW q \in saved'
       PROVE  PairsMatch(q.records, q.companions)' /\ (q.ready => Settled(q))
  <2>1. PlanOK(plan)
    BY DEF TogetherInv, ChoicesInv, KeptInv, OnceInv, PlanningInv, PublishedOK
  <2>2. PICK p \in Bundles : /\ q.records = p.records /\ q.companions = p.companions
                             /\ q.ready = p.ready
    BY <1>1, <2>1, PastOK DEF Bundles
  <2> QED
    BY <1>9, <2>2 DEF TogetherInv, Settled
<1>12. \A q \in Bundles' : PairsMatch(q.records, q.companions)' /\ (q.ready => Settled(q))
  BY <1>5, <1>6, <1>9, <1>10, <1>11 DEF Bundles
<1> QED
  BY <1>7, <1>8, <1>12 DEF TogetherInv, Drawing, Answering

-------------------------------------------------------------------------------
(* The other commands. *)

LEMMA ReviewTogether ==
  ASSUME TogetherInv, ChoicesInv', Review
  PROVE  TogetherInv'
<1>1. /\ plan' = Past(plan) /\ library' = library /\ saved' = saved
      /\ command' = command /\ touched' = touched /\ command.pc = "idle"
  BY DEF Review, Past
<1>2. PlanOK(plan)
  BY DEF TogetherInv, ChoicesInv, KeptInv, OnceInv, PlanningInv, PublishedOK
<1>3. /\ plan'.records = plan.records /\ plan'.companions = plan.companions
      /\ plan'.ready = plan.ready
  BY <1>1, <1>2, PastOK
<1>4. /\ SubtitlesStayWithVideos' /\ \A s, v : Pair(s, v)' <=> Pair(s, v)
      /\ \A s \in Sidecars : Named(s, library'[s].at)
  BY <1>1 DEF TogetherInv, SubtitlesStayWithVideos, Together, Pair
<1>5. \A records, companions : PairsMatch(records, companions) => PairsMatch(records, companions)'
  BY <1>4 DEF PairsMatch
<1>6. ASSUME NEW q \in Bundles'
      PROVE  PairsMatch(q.records, q.companions)' /\ (q.ready => Settled(q))
  <2>1. PICK p \in Bundles : /\ q.records = p.records /\ q.companions = p.companions
                             /\ q.ready = p.ready
    BY <1>1, <1>3 DEF Bundles
  <2> QED
    BY <1>5, <2>1 DEF TogetherInv, Settled
<1> QED
  BY <1>1, <1>4, <1>6 DEF TogetherInv, Drawing, Answering

\* What moves nothing but the files of the plan, between commands.
LEMMA MovesTogether ==
  ASSUME TogetherInv, ChoicesInv', command.pc = "idle", UNCHANGED <<command, touched, plan, saved>>,
         \A x \in Files : library'[x].at # Nowhere => library[x].at # Nowhere,
         \A s \in Sidecars : Named(s, library'[s].at),
         \A s, v : Pair(s, v) => Together(s, v)'
  PROVE  TogetherInv'
<1>1. ASSUME NEW s, NEW v, Pair(s, v)'
      PROVE  Pair(s, v)
  BY <1>1 DEF Pair, Files
<1>2. SubtitlesStayWithVideos'
  <2>1. SUFFICES ASSUME NEW s \in Sidecars \ touched', KindOf[s] = "subtitle",
                        library'[s].at # Nowhere, NEW v \in Videos \ touched',
                        Beside[s] = {v}, library'[v].at # Nowhere
                 PROVE  Together(s, v)'
    BY DEF SubtitlesStayWithVideos
  <2>2. Pair(s, v)
    BY <2>1, <1>1 DEF Pair
  <2> QED
    BY <2>2
<1>3. \A p \in Bundles' : PairsMatch(p.records, p.companions)' /\ (p.ready => Settled(p))
  BY <1>1 DEF TogetherInv, PairsMatch, Bundles
<1> QED
  BY <1>2, <1>3 DEF TogetherInv, Drawing, Answering

LEMMA ApplyTogether ==
  ASSUME TogetherInv, ChoicesInv', NEW p \in Bundles, NEW groups, Apply(p, groups)
  PROVE  TogetherInv'
<1>1. UNCHANGED <<command, touched, plan, saved>> /\ command.pc = "idle" /\ KeptInv
  BY DEF Apply, Executes, TogetherInv, ChoicesInv
<1>2. \A x \in Files : library'[x].at # Nowhere => library[x].at # Nowhere
  BY <1>1, ApplyPlaces
<1>3. ASSUME NEW s \in Sidecars
      PROVE  Named(s, library'[s].at)
  <2>1. PlanOK(p) /\ PairsMatch(p.records, p.companions)
    BY BundleOK DEF TogetherInv, ChoicesInv, KeptInv, OnceInv
  <2>2. s \in Files /\ s \notin DOMAIN p.records
    BY <2>1, RulesAssumption DEF PlanOK, RecordsOK, Files
  <2>3. CASE s \in MembersOf(p, groups)
    <3>1. s \in DOMAIN p.companions /\ library'[s].at = p.companions[s].dest
      BY <1>1, <2>2, <2>3, ApplyPlaces DEF MembersOf, Moving, Entry
    <3> QED
      BY <2>1, <3>1 DEF PairsMatch
  <2>4. CASE s \notin MembersOf(p, groups)
    BY <1>1, <2>2, <2>4, ApplyPlaces DEF TogetherInv
  <2> QED
    BY <2>3, <2>4
<1>4. \A s, v : Pair(s, v) => Together(s, v)'
  BY ApplyKeepsTogether
<1> QED
  BY <1>1, <1>2, <1>3, <1>4, MovesTogether

LEMMA QuarantineTogether ==
  ASSUME TogetherInv, ChoicesInv', NEW p \in Bundles, Quarantine(p)
  PROVE  TogetherInv'
<1>1. UNCHANGED <<command, touched, plan, saved>> /\ command.pc = "idle" /\ KeptInv
  BY DEF Quarantine, Executes, TogetherInv, ChoicesInv
<1>2. \A x \in Files : library'[x].at # Nowhere => library[x].at # Nowhere
  BY <1>1, QuarantinePlaces
<1>3. ASSUME NEW s \in Sidecars
      PROVE  Named(s, library'[s].at)
  <2>1. QuarantinePath(p, s).base = <<"quarantine", s>>
    BY DEF QuarantinePath, Path
  <2>2. ~IsManaged(QuarantinePath(p, s))
    BY <2>1, InQuarantine
  <2>3. library'[s].at = library[s].at \/ library'[s].at = QuarantinePath(p, s)
    BY <1>1, QuarantinePlaces DEF Files
  <2> QED
    BY <2>2, <2>3 DEF TogetherInv, Named
<1>4. \A s, v : Pair(s, v) => Together(s, v)'
  BY QuarantineKeepsTogether
<1> QED
  BY <1>1, <1>2, <1>3, <1>4, MovesTogether

\* What nobody else has changed is where it was.
LEMMA ChangeTogether ==
  ASSUME TogetherInv, ChoicesInv', LibraryChange
  PROVE  TogetherInv'
<1>1. PICK x \in Files :
        (Appear(x) \/ Vanish(x) \/ Modify(x)) /\ touched' = touched \cup {x}
  BY DEF LibraryChange
<1>2. command' = command /\ plan' = plan /\ saved' = saved
  BY DEF LibraryChange
<1>3. DOMAIN library = Files
  BY DEF TogetherInv, ChoicesInv, KeptInv, OnceInv, PlanningInv, LibraryOK
<1>4. \A y \in Files \ touched' : library'[y] = library[y] /\ y \notin touched
  BY <1>1, <1>3 DEF Appear, Vanish, Modify
<1>5. ASSUME NEW s, NEW v, Pair(s, v)'
      PROVE  Pair(s, v) /\ library'[s] = library[s] /\ library'[v] = library[v]
  BY <1>4, <1>5 DEF Pair, Files
<1>6. SubtitlesStayWithVideos'
  <2>1. SUFFICES ASSUME NEW s \in Sidecars \ touched', KindOf[s] = "subtitle",
                        library'[s].at # Nowhere, NEW v \in Videos \ touched',
                        Beside[s] = {v}, library'[v].at # Nowhere
                 PROVE  Together(s, v)'
    BY DEF SubtitlesStayWithVideos
  <2>2. Pair(s, v) /\ library'[s] = library[s] /\ library'[v] = library[v]
    BY <1>5, <2>1 DEF Pair
  <2>3. Together(s, v)
    BY <2>2 DEF TogetherInv, SubtitlesStayWithVideos, Pair
  <2> QED
    BY <2>2, <2>3 DEF Together
<1>7. /\ SeenTruly(command.seen) => SeenTruly(command.seen)'
      /\ SeenTruly(command.again) => SeenTruly(command.again)'
  BY <1>2, <1>4 DEF SeenTruly, Files
<1>8. /\ PairsMatch(command.records, command.companions) =>
           PairsMatch(command.records, command.companions)'
      /\ \A p \in Bundles' : PairsMatch(p.records, p.companions)' /\ (p.ready => Settled(p))
  BY <1>2, <1>5 DEF PairsMatch, TogetherInv, Bundles
<1>9. ASSUME NEW s \in Sidecars
      PROVE  Named(s, library'[s].at)
  <2>1. s \in Files
    BY DEF Files
  <2>2. library'[s].at \in {library[s].at, Inbox(s), Nowhere}
    <3>1. library[s] = [at |-> library[s].at, version |-> library[s].version]
      BY <2>1 DEF TogetherInv, ChoicesInv, KeptInv, OnceInv, PlanningInv, LibraryOK
    <3>2. CASE s # x
      BY <1>1, <1>3, <2>1, <3>2 DEF Appear, Vanish, Modify
    <3>3. CASE s = x
      BY <1>1, <1>3, <2>1, <3>1, <3>3 DEF Appear, Vanish, Modify
    <3> QED
      BY <3>2, <3>3
  <2> QED
    BY <2>2, PlacesOf DEF TogetherInv, Named
<1> QED
  BY <1>2, <1>6, <1>7, <1>8, <1>9 DEF TogetherInv

LEMMA InitTogether ==
  ASSUME PlanningInit
  PROVE  TogetherInv
<1>1. ChoicesInv
  BY InitChoices
<1>2. \A f \in Files : library[f].at = Nowhere \/ library[f].at = Inbox(f)
  BY DEF PlanningInit
<1>3. SubtitlesStayWithVideos
  BY <1>2 DEF SubtitlesStayWithVideos, Together, Files
<1>4. \A s \in Sidecars : Named(s, library[s].at)
  BY <1>2, PlacesOf DEF Named, Files
<1>5. command.pc = "idle" /\ ~plan.ready /\ saved = {}
  BY DEF PlanningInit, Idle, NoPlan
<1>6. plan.records = Empty /\ plan.companions = Empty
  BY DEF PlanningInit, NoPlan
<1>7. PairsMatch(plan.records, plan.companions)
  BY <1>6, IdleOK DEF PairsMatch, Matches
<1> QED
  BY <1>1, <1>3, <1>4, <1>5, <1>7 DEF TogetherInv, Bundles, Drawing, Answering

LEMMA TogetherNext ==
  ASSUME TogetherInv, [PlanningNext]_planningVars
  PROVE  TogetherInv'
<1>1. ChoicesInv'
  BY ChoicesNext DEF TogetherInv
<1>2. CASE UNCHANGED planningVars
  <2>1. Draws /\ command' = command
    BY <1>2 DEF planningVars, Draws, Reads
  <2> QED
    BY <1>1, <2>1, CommandTogether DEF TogetherInv
<1>3. CASE PlanningNext
  BY <1>1, <1>3, ScanTogether, DraftPlanTogether, RereadTogether, ExtendTogether, BindTogether,
     PublishTogether, ReviewTogether, ApplyTogether, QuarantineTogether, ChangeTogether, Zenon
     DEF PlanningNext
<1> QED
  BY <1>2, <1>3

LEMMA TogetherInvariant == PlanningSpec => []TogetherInv
<1>1. PlanningInit => TogetherInv
  BY InitTogether
<1>2. TogetherInv /\ [PlanningNext]_planningVars => TogetherInv'
  BY TogetherNext
<1> QED
  BY <1>1, <1>2, PTL DEF PlanningSpec

\* For every library and every review, a subtitle that belongs to one video is where
\* its video is, after every apply, quarantine and rescan, of this plan or one kept
\* from before, however the library was changed between the readings of a command,
\* unless somebody else moved or changed one of the two.
THEOREM SubtitlesGoWithVideos == PlanningSpec => []SubtitlesStayWithVideos
<1>1. TogetherInv => SubtitlesStayWithVideos
  BY DEF TogetherInv
<1> QED
  BY <1>1, TogetherInvariant, PTL
===============================================================================
