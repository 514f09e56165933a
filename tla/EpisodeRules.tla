------------------------------ MODULE EpisodeRules ------------------------------
(***************************************************************************)
(* The rules of episode_assignment_strict.py and segment_counted_titles.py *)
(* and the passes of mixed_episode_assignment.py: which episodes of one    *)
(* catalog the videos of a folder are.  They are pure; the order in which  *)
(* they run, and the requests between them, are EpisodeAssignment.tla.     *)
(*                                                                         *)
(* A source is what the parser says of one video.  What its title says is  *)
(* abstracted to how it relates to the titles of the catalog: the titles   *)
(* it spells out, whether it is the whole of one, the one it is nearly, or *)
(* is up to a leading article, and whether it joins its parts with a dash. *)
(***************************************************************************)
EXTENDS Integers, Sequences, FiniteSets, SequencesExt

CONSTANTS
  MinExactMatches,   \* _MIN_EXACT_MATCHES, and
  MinDisagreements,  \* _MIN_COORDINATE_DISAGREEMENTS of segment_counted_titles.py
  ShowYear           \* the first day of the year of the show

NoSeason == -1  \* 0 is the season of specials
NoNumber == 0
NoDate == 0
NoTitle == "none"
NoSegment == "none"

ASSUME RulesAssumption ==
  /\ ShowYear \in Nat
  /\ MinExactMatches \in Nat \ {0} /\ MinDisagreements \in Nat

\* The names of the modes are the names of the families of numbering they expect
\* (_expected_family); the two absolute modes are one.
Modes == {"aired", "absolute", "special", "date", "segment"}
PartitionableModes == {"aired", "absolute"}

Assigned(eps) == [status |-> "matched", eps |-> eps, why |-> {}, claims |-> {}]
Open(status, why) == [status |-> status, eps |-> <<>>, why |-> why, claims |-> {}]
Suspicious == Open("suspicious", {})
Unresolved == Open("unresolved", {})

Matched(a) == a.status = "matched"
Identities(a) == {a.eps[i].id : i \in DOMAIN a.eps}

Only(set) == CHOOSE x \in set : TRUE
One(set) == \E x \in set : set = {x}
Many(set) == \E x, y \in set : x # y

\* A unique candidate is assigned; several are suspicious; none is left open.
Unique(candidates, none) ==
  IF candidates = {} THEN none
  ELSE IF One(candidates) THEN Assigned(<<Only(candidates)>>) ELSE Suspicious

-------------------------------------------------------------------------------
(* Titles. *)

NoHint == [spells |-> {}, whole |-> FALSE, near |-> NoTitle, article |-> NoTitle, joined |-> FALSE]
HasHint(s) == s.hint # NoHint

Exact(h, title) == h.whole /\ h.spells = {title}
Compatible(h, title) == Exact(h, title) \/ h.near = title

Numbered(C) == {e \in Range(C) : e.number # NoNumber}
Regular(e) == e.season > 0 /\ e.regular

\* A title that says another episode than the coordinate does.
TitleConflict(s, e, C) ==
  LET contained == {x \in Numbered(C) : x.title \in s.hint.spells}
      elsewhere == {x \in Numbered(C) \ {e} : Exact(s.hint, x.title)}
      near == {x \in Numbered(C) \ {e} : x.title = s.hint.near}
  IN /\ ~s.explicit /\ HasHint(s) /\ Len(s.numbers) = 1
     /\ \/ ~Compatible(s.hint, e.title) /\ e \notin contained
        \/ Many({x.title : x \in contained})
     /\ elsewhere # {} \/ contained # {} \/ One(near)

-------------------------------------------------------------------------------
(* The family of numbering a source gives evidence of. *)

HasAired(s) == s.season # NoSeason \/ s.numbers # <<>>
CompleteAired(s) == s.season # NoSeason /\ s.numbers # <<>>
HasAbsolute(s) == s.absolutes # <<>>
HasSpecial(s) == s.special # NoNumber  \* its kind and its number come together
HasDate(s) == s.date # NoDate
HasSegment(s) == s.segment # NoSegment

Families(s) ==
  UNION {IF HasAired(s) THEN {"aired"} ELSE {},
         IF HasAbsolute(s) THEN {"absolute"} ELSE {},
         IF HasSpecial(s) THEN {"special"} ELSE {},
         IF HasDate(s) THEN {"date"} ELSE {}}

Family(s, mode) ==
  IF \/ s.season = 0 /\ s.numbers # <<>> /\ Families(s) = {"aired"} /\ ~HasSegment(s)
     \/ mode = "special" /\ Families(s) = {"date"} /\ ~HasSegment(s)
  THEN "special"
  ELSE IF HasSegment(s) THEN IF Families(s) \subseteq {"aired"} THEN "segment" ELSE "conflict"
  ELSE IF {"aired", "absolute"} \subseteq Families(s)
  THEN IF /\ CompleteAired(s) /\ Families(s) = {"aired", "absolute"}
          /\ mode \in PartitionableModes
       THEN mode ELSE "conflict"
  ELSE IF Families(s) = {} THEN "none"
  ELSE IF One(Families(s)) THEN Only(Families(s)) ELSE "conflict"

FamiliesOf(S, mode) == {Family(s, mode) : s \in S} \ {"none"}

AccessorySpecials(families, mode) ==
  mode \in PartitionableModes /\ families = {mode, "special"}

-------------------------------------------------------------------------------
(* One source, by its numbering. *)

\* The episode at a coordinate, unless the title is that of one other; without
\* an episode there, what the title of a file of one episode says.
AtCoordinate(s, n, C) ==
  LET there == {e \in Numbered(C) : e.season = s.season /\ e.number = n}
      named == {e \in Numbered(C) : Exact(s.hint, e.title)}
      remap == {e \in named : e.season > 0}
  IN IF there # {} THEN IF One(remap) THEN remap ELSE there
     ELSE IF Len(s.numbers) = 1 THEN named ELSE {}

Aired(s, C) ==
  LET at == [i \in DOMAIN s.numbers |-> AtCoordinate(s, s.numbers[i], C)]
  IN IF ~CompleteAired(s) THEN Unresolved
     ELSE IF \/ s.season <= 0 \/ HasSegment(s) \/ HasSpecial(s) \/ HasDate(s)
             \/ ~IsInjective(s.numbers)
     THEN Suspicious
     ELSE IF \E i \in DOMAIN at : at[i] = {} THEN Unresolved
     ELSE IF \E i \in DOMAIN at : Many(at[i]) THEN Suspicious
     ELSE IF TitleConflict(s, Only(at[1]), C) THEN Open("suspicious", {"title-conflict"})
     ELSE Assigned([i \in DOMAIN at |-> Only(at[i])])

Absolute(s, C) ==
  LET regular == SelectSeq(C, LAMBDA e : e.season > 0 /\ e.number # NoNumber)
  IN IF ~HasAbsolute(s) THEN Unresolved
     ELSE IF (HasAired(s) /\ ~CompleteAired(s)) \/ HasSegment(s) \/ HasSpecial(s) \/ HasDate(s)
     THEN Suspicious
     ELSE IF \E i \in DOMAIN s.absolutes : s.absolutes[i] \notin DOMAIN regular THEN Unresolved
     ELSE IF ~IsInjective(s.absolutes) THEN Suspicious
     ELSE Assigned([i \in DOMAIN s.absolutes |-> regular[s.absolutes[i]]])

NonRegular(C) == {e \in Range(C) : ~Regular(e)}

Special(s, C) ==
  LET seasonZero == s.season = 0 /\ Len(s.numbers) = 1 /\ ~HasSpecial(s)
      number == IF seasonZero THEN s.numbers[1] ELSE s.special
      otherNumbering ==
        HasAbsolute(s) \/ HasSegment(s) \/ (HasAired(s) /\ s.season # 0)
      atNumber == {e \in NonRegular(C) : e.number = number}
      ofKind == {e \in atNumber : e.kind}
      told == {e \in NonRegular(C) :
                 Exact(s.hint, e.title) \/ (HasDate(s) /\ e.date = s.date)}
  IN IF otherNumbering THEN Suspicious
     ELSE IF number = NoNumber THEN Unique(told, Unresolved)
     ELSE IF HasDate(s) THEN Suspicious
     ELSE Unique(IF Many(atNumber) /\ ofKind # {} /\ ~seasonZero THEN ofKind ELSE atNumber,
                 Open("unresolved", IF seasonZero THEN {} ELSE {"missing-special"}))

Dated(s, C) ==
  LET on == {e \in Range(C) : e.date = s.date}
  IN IF ~HasDate(s) THEN Unresolved
     ELSE IF Families(s) # {"date"} \/ HasSegment(s) THEN Suspicious
     ELSE IF \E e \in on : e.number = NoNumber THEN Unresolved
     ELSE Unique(on, Unresolved)

SegmentCandidates(s, C) ==
  {e \in Numbered(C) : s.season = NoSeason \/ e.season = s.season}

Segment(s, C) ==
  LET candidates == SegmentCandidates(s, C)
      exact == {e \in candidates : Exact(s.hint, e.title)}
      near == {e \in candidates : s.season # NoSeason /\ e.title = s.hint.near}
  IN IF ~HasSegment(s) \/ ~HasHint(s) THEN Unresolved
     ELSE Unique(IF exact # {} THEN exact ELSE near,
                 Open("unresolved", {"missing-segment-title"}))

ByMode(s, mode, C) ==
  CASE mode = "aired" -> Aired(s, C)     [] mode = "absolute" -> Absolute(s, C)
    [] mode = "special" -> Special(s, C) [] mode = "date" -> Dated(s, C)
    [] mode = "segment" -> Segment(s, C)

-------------------------------------------------------------------------------
(* The sources of a group together. *)

\* _protect_provider_episode_identity: no two sources are one episode.
ProtectIdentity(group) ==
  LET Shared(s) ==
        {id \in Identities(group[s]) :
           \E t \in DOMAIN group \ {s} : id \in Identities(group[t])}
  IN [s \in DOMAIN group |->
        IF Shared(s) = {} THEN group[s]
        ELSE [group[s] EXCEPT !.status = "suspicious", !.eps = <<>>, !.claims = @ \cup Shared(s)]]

\* _protect_segment_identity: two different segments are not one episode.
ProtectSegments(group) ==
  LET Claimants(id) == {s \in DOMAIN group : id \in Identities(group[s])}
      Collapsed(id) == Many({t.segment : t \in Claimants(id)} \ {NoSegment})
  IN [s \in DOMAIN group |->
        IF \E id \in Identities(group[s]) : Collapsed(id)
        THEN [group[s] EXCEPT !.status = "suspicious", !.eps = <<>>] ELSE group[s]]

Protect(group, mode) ==
  IF mode = "segment" THEN ProtectSegments(group) ELSE ProtectIdentity(group)

\* The group of one policy is refused as a whole before any request is made.
GroupRefused(S, mode) ==
  LET families == FamiliesOf(S, mode) IN
  \/ \E s \in S : s.foreign
  \/ "conflict" \in families
  \/ Many(families) /\ ~AccessorySpecials(families, mode)
  \/ families # {} /\ mode \notin families

\* assign_episode_group_with_provider of the strict module.
Strict(S, mode, C, answered) ==
  LET accessory == AccessorySpecials(FamiliesOf(S, mode), mode)
      ModeOf(s) == IF accessory /\ Family(s, mode) = "special" THEN "special" ELSE mode
  IN IF GroupRefused(S, mode) THEN [s \in S |-> Suspicious]
     ELSE IF ~answered \/ C = <<>> THEN [s \in S |-> Unresolved]
     ELSE Protect([s \in S |-> ByMode(s, ModeOf(s), C)], mode)

NeedsPartition(S, mode) ==
  LET families == FamiliesOf(S, mode) IN
  /\ mode \in PartitionableModes /\ mode \in families
  /\ "conflict" \in families \/ (Many(families) /\ ~AccessorySpecials(families, mode))

Part(S, mode, family) == {s \in S : Family(s, mode) = family}
PartMode(family, mode) == IF family \in {"none", "conflict"} THEN mode ELSE family

\* _assign_episode_group_core: each family of a mixed folder on its own, with a
\* request of its own; answered is the set of families whose request was.
Core(S, mode, C, answered) ==
  IF ~NeedsPartition(S, mode) THEN Strict(S, mode, C, mode \in answered)
  ELSE LET Parted(f) == Strict(Part(S, mode, f), PartMode(f, mode), C, f \in answered)
       IN ProtectIdentity([s \in S |-> Parted(Family(s, mode))[s]])

\* Whether that made a request.
Requested(S, mode) ==
  IF NeedsPartition(S, mode)
  THEN \E s \in S : LET f == Family(s, mode)
                    IN ~GroupRefused(Part(S, mode, f), PartMode(f, mode))
  ELSE ~GroupRefused(S, mode)

-------------------------------------------------------------------------------
(* What the path of a source says of its date: specials, and pilots before     *)
(* the premiere.                                                                *)

\* _special_fallback_assignment, for a special whose number is not there.
SpecialFallback(s, a, C) ==
  LET titled == {e \in NonRegular(C) : Exact(s.hint, e.title)}
      dated == {e \in NonRegular(C) : e.date \in s.dates}
      found == titled \cup dated
  IN IF "missing-special" \notin a.why \/ Matched(a) THEN a
     ELSE IF Many(titled) \/ Many(s.dates) \/ Many(found) THEN Suspicious
     ELSE IF found = {} THEN a
     ELSE IF Only(found).number = NoNumber THEN Unresolved
     ELSE Assigned(<<Only(found)>>)

FirstRegularDates(C) == {e.date : e \in {x \in Numbered(C) : Regular(x) /\ x.date # NoDate}}

BeforePremiere(d, C) ==
  IF FirstRegularDates(C) # {} THEN \A first \in FirstRegularDates(C) : d < first
  ELSE d < ShowYear

GuardSignal(s, mode) == Family(s, mode) \in {"aired", "absolute"} /\ s.early /\ s.dates # {}

\* The pre-premiere guard is active for a source.
Guarded(s, mode, C) ==
  /\ mode \in PartitionableModes /\ ~s.explicit /\ GuardSignal(s, mode)
  /\ \E d \in s.dates : BeforePremiere(d, C)

\* _pre_premiere_assignment.
PrePremiere(s, C) ==
  LET on == {e \in NonRegular(C) : e.date \in s.dates}
      titled == {e \in on : Exact(s.hint, e.title)}
      chosen == IF Many(on) /\ One(titled) THEN titled ELSE on
  IN IF Many(s.dates) THEN Suspicious
     ELSE IF One(chosen) /\ Only(chosen).number = NoNumber THEN Unresolved
     ELSE Unique(chosen, Unresolved)

-------------------------------------------------------------------------------
(* Titles that contradict coordinates. *)

Disputed(a) == a.status = "suspicious" /\ "title-conflict" \in a.why
Signalled(a) == a.claims # {} \/ "title-conflict" \in a.why

\* _nonregular_title_quarantine_assignment: the title is that of a special
\* without a number, the coordinate that of a regular episode.
QuarantinedTitle(s, a, C) ==
  LET named == {e \in Range(C) : Exact(s.hint, e.title)}
      there == {e \in Range(C) : /\ e.season = s.season /\ Regular(e)
                                 /\ e.number = s.numbers[1]}
  IN /\ ~s.explicit /\ Signalled(a) /\ HasHint(s)
     /\ s.season # NoSeason /\ Len(s.numbers) = 1
     /\ One(named) /\ ~Regular(Only(named)) /\ Only(named).number = NoNumber
     /\ One(there) /\ Only(there).title # Only(named).title

Coordinate(s) == <<s.season, s.numbers>>
OneCoordinate(s) == s.season # NoSeason /\ Len(s.numbers) = 1

\* _protect_coordinate_title_conflict_peers.
ProtectPeers(group) ==
  LET disputed == {Coordinate(s) : s \in {t \in DOMAIN group : Disputed(group[t]) /\ OneCoordinate(t)}}
  IN [s \in DOMAIN group |->
        IF Matched(group[s]) /\ Coordinate(s) \in disputed
        THEN [group[s] EXCEPT !.status = "suspicious", !.eps = <<>>, !.why = @ \cup {"title-conflict"}]
        ELSE group[s]]

\* _compound_title_candidates: the episodes in a row that a title spells out.
Compound(s, a, C) ==
  LET spelled == {e \in Numbered(C) : e.season = s.season /\ e.title \in s.hint.spells}
      numbers == {e.number : e \in spelled}
  IN IF /\ Disputed(a) /\ OneCoordinate(s) /\ Many(spelled)
        /\ Cardinality({e.title : e \in spelled}) = Cardinality(spelled)
        /\ \A n \in numbers : n + 1 \in numbers \/ \A m \in numbers : m <= n
     THEN SetToSortSeq(spelled, LAMBDA x, y : x.number < y.number) ELSE <<>>

\* _apply_compound_title_remap: three such titles, or titles that join parts,
\* that claim different episodes nobody else has.
RemapCompound(group, C) ==
  LET found == {s \in DOMAIN group : Compound(s, group[s], C) # <<>>}
      proven == IF Cardinality(found) >= 3 THEN found ELSE {s \in found : s.hint.joined}
      New(s) == Assigned(Compound(s, group[s], C))
      disjoint ==
        \A s \in proven : \A t \in DOMAIN group \ {s} :
          Identities(New(s)) \cap Identities(IF t \in proven THEN New(t) ELSE group[t]) = {}
  IN [s \in DOMAIN group |->
        IF disjoint /\ s \in proven THEN [New(s) EXCEPT !.why = group[s].why] ELSE group[s]]

-------------------------------------------------------------------------------
(* Folders whose numbers count segments: repeated exact titles prove it. *)

Countable(s) ==
  /\ s.season > 0 /\ s.numbers # <<>> /\ HasHint(s)
  /\ Families(s) = {"aired"} /\ ~HasSegment(s)

TitledInSeason(s, C) == {e \in Numbered(C) : e.season = s.season /\ e.season > 0 /\ Exact(s.hint, e.title)}
Observed(s, C) == Countable(s) /\ One(TitledInSeason(s, C))

\* analyze_segment_counted_titles: releases of one coordinate and title are one
\* unit of the proof.
SegmentProof(S, C) ==
  LET Unit(s) == <<s.season, s.numbers, s.hint>>
      Units(T) == {Unit(s) : s \in T}
      exact == {s \in S : Observed(s, C)}
      off == {s \in exact : s.numbers # <<Only(TitledInSeason(s, C)).number>>}
      triggered == /\ Cardinality(Units(exact)) >= MinExactMatches
                   /\ Cardinality(Units(off)) >= MinDisagreements
  IN [triggered |-> triggered,
      proven |-> /\ triggered
                 /\ 2 * Cardinality(Units(exact)) >= Cardinality(Units({s \in S : Countable(s)}))
                 /\ \A s, t \in exact : TitledInSeason(s, C) = TitledInSeason(t, C) => Unit(s) = Unit(t)]

\* recover_unique_near_segment_titles: one more title, near one nobody claims.
NearlyTitled(s, C) ==
  {e \in Numbered(C) : e.season = s.season /\ e.title \in {s.hint.near, s.hint.article}}

RecoverNear(S, C) ==
  LET claimed == UNION {TitledInSeason(s, C) : s \in {t \in S : Observed(t, C)}}
      tentative == {s \in S : /\ Countable(s) /\ TitledInSeason(s, C) = {}
                              /\ One(NearlyTitled(s, C)) /\ NearlyTitled(s, C) \cap claimed = {}}
  IN {s \in tentative : \A t \in tentative \ {s} : NearlyTitled(t, C) # NearlyTitled(s, C)}

ByCountedTitle(s, S, C) ==
  IF ~SegmentProof(S, C).proven THEN Suspicious
  ELSE IF ~Countable(s) THEN Unresolved
  ELSE IF s \in RecoverNear(S, C) THEN Assigned(<<Only(NearlyTitled(s, C))>>)
  ELSE Unique(TitledInSeason(s, C), Unresolved)

\* potential_segment_counted: enough videos that no decision speaks for.
MayCount(S, mode) == mode = "aired" /\ Cardinality({s \in S : Countable(s) /\ ~s.explicit}) >= 3

\* _apply_segment_counted_title_remap.  The sources of other families that the
\* mistaken numbers had collided with are assigned again, each with a request:
\* answered are those that get an answer.
RemapCounted(group, mode, C, quarantined, answered) ==
  LET S == DOMAIN group
      Again(s) ==
        IF group[s].claims # {} /\ Family(s, mode) \in Modes
        THEN Strict({s}, Family(s, mode), C, s \in answered)[s] ELSE group[s]
  IN IF ~MayCount(S, mode) \/ ~SegmentProof(S, C).triggered THEN group
     ELSE [s \in S |->
             IF s.explicit \/ s \in quarantined THEN group[s]
             ELSE IF Family(s, mode) # "aired" THEN Again(s)
             ELSE ByCountedTitle(s, S, C)]

-------------------------------------------------------------------------------
(* The passes after the first assignment, and the planner's. *)

\* Whether assign_episode_group_with_provider of the mixed module asks for the
\* catalog again to run its passes.
SpecialSignal(s, a) ==
  ~s.explicit /\ "missing-special" \in a.why /\ (HasHint(s) \/ s.dates # {})

Signals(group, mode) ==
  LET S == DOMAIN group IN
  \/ \E s \in S : SpecialSignal(s, group[s])
  \/ mode \in PartitionableModes /\ \E s \in S : ~s.explicit /\ GuardSignal(s, mode)
  \/ MayCount(S, mode)
  \/ \E s \in S : ~s.explicit /\ HasHint(s) /\ OneCoordinate(s) /\ Signalled(group[s])

\* Sources that a guard takes out of the group do not count in its rerun.
SetAside(group, mode, C, rerun) ==
  LET S == DOMAIN group
      quarantined == {s \in S : QuarantinedTitle(s, group[s], C)}
      guarded == {s \in S : Guarded(s, mode, C)}
      remaining == S \ (guarded \cup quarantined)
      again == Core(remaining, mode, C, rerun)
  IN [s \in S |->
        IF s \in quarantined THEN [group[s] EXCEPT !.status = "unresolved", !.eps = <<>>]
        ELSE IF s \in guarded THEN PrePremiere(s, C)
        ELSE IF remaining = S THEN group[s] ELSE again[s]]

\* The remaining passes, before the guards that follow them: rerun and again are the
\* families, and the videos, that the rerun and the remap get an answer for.
Remapped(group, mode, C, rerun, again) ==
  LET S == DOMAIN group
      quarantined == {s \in S : QuarantinedTitle(s, group[s], C)}
      base == SetAside(group, mode, C, rerun)
      special == [s \in S |-> IF SpecialSignal(s, group[s]) THEN SpecialFallback(s, base[s], C) ELSE base[s]]
  IN RemapCompound(RemapCounted(special, mode, C, quarantined, again), C)

\* Mutant: what the passes have moved is not compared again.
PassesUnguarded(group, mode, C, rerun, again) ==
  ProtectPeers(Remapped(group, mode, C, rerun, again))

\* assign_episode_group_with_provider of the mixed module, with the catalog.
Passes(group, mode, C, rerun, again) ==
  ProtectIdentity(ProtectPeers(Remapped(group, mode, C, rerun, again)))

\* _recover_optional_leading_the.
Articled(s, C) == {e \in SegmentCandidates(s, C) : e.title = s.hint.article}
LacksTitle(s, a) ==
  /\ a.status = "unresolved" /\ "missing-segment-title" \in a.why
  /\ ~s.explicit /\ HasSegment(s) /\ HasHint(s)

RecoverArticle(group, mode, C) ==
  Protect([s \in DOMAIN group |->
             IF LacksTitle(s, group[s]) THEN Unique(Articled(s, C), group[s]) ELSE group[s]],
          mode)

\* One source assigned on its own: answered is "all" of its requests, the "first"
\* of them, or "none".
Alone(s, mode, C, answered) ==
  LET every == Modes \cup {"none"}
      core == Core({s}, mode, C, IF answered = "none" THEN {} ELSE every)
      passed == IF Requested({s}, mode) /\ Signals(core, mode)
                THEN Passes(core, mode, C, every, {s}) ELSE core
  IN IF answered = "all" THEN RecoverArticle(passed, mode, C)[s] ELSE core[s]

\* _recover_equivalent_provider_episode_duplicates: sources that the guard against
\* shared episodes held, if each on its own is exactly the same episodes.
Claimants(group) == {s \in DOMAIN group : group[s].status = "suspicious" /\ group[s].claims # {}}

\* Two of them whose claims share an episode are held together.
HeldTogether(s, t, group) == group[s].claims \cap group[t].claims # {}

\* The smallest set with s that leaves out nobody held together with a member.
Component(s, group) ==
  LET C == Claimants(group)
      Closed(K) == \A x \in K, y \in C : HeldTogether(x, y, group) => y \in K
  IN {t \in C : \A K \in SUBSET C : s \in K /\ Closed(K) => t \in K}

\* Mutant: it is enough that each of them is matched.
AllMatched(component, individual) ==
  Many(component) /\ \A t \in component : Matched(individual[t])

Equivalent(component, individual) ==
  /\ Many(component)
  /\ \A t \in component : /\ Matched(individual[t])
                          /\ Cardinality(Identities(individual[t])) = Len(individual[t].eps)
  /\ One({Identities(individual[t]) : t \in component})

RecoverDuplicates(group, individual) ==
  [s \in DOMAIN group |->
     IF s \in Claimants(group) /\ Equivalent(Component(s, group), individual)
     THEN individual[s] ELSE group[s]]
================================================================================
