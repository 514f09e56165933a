----------------------------- MODULE MatchingProofs -----------------------------
(***************************************************************************)
(* Proofs about Matching and EpisodeAssignment, for every catalog, folder, *)
(* provider and set of failed requests.                                    *)
(*                                                                         *)
(* EpisodesGuarded: after every pass the assignments are Apart, because a  *)
(* guard runs last in each.  In the segment mode two videos may be one     *)
(* episode, so there each of them is one episode at most (Single), which   *)
(* the passes keep only since a video of that mode is never found to have  *)
(* the title of another episode before they run (Undisputed).              *)
(*                                                                         *)
(* ReleasedTogether: a component of the claims is a class of an            *)
(* equivalence, so its members are all decided alike.                      *)
(*                                                                         *)
(* AnswersDecide: the run with failures and the run without are compared   *)
(* step by step (Compared).  A way of deciding takes nobody when a catalog *)
(* that it asks failed; those of the contenders are asked by all, because  *)
(* the contenders of a tie are near enough to be asked for a coordinate.   *)
(***************************************************************************)
EXTENDS Matching, NumberSetLemmas

\* An assignment, and a group of them.
IsAssignment(a) == DOMAIN a = {"status", "eps", "why", "claims"}
Assignments(g) == \A s \in DOMAIN g : IsAssignment(g[s])

\* No two sources of a group are one episode.
Disjoint(g) ==
  \A s, t \in DOMAIN g : s # t => Identities(g[s]) \cap Identities(g[t]) = {}

\* A source is one episode at most.
Single(a) == \A x, y \in Identities(a) : x = y

\* What keeps the sources of a group apart, by the numbering mode; and what sources
\* that are parts of episodes have not been found guilty of.
Apart(m, g) == IF m = "segment" THEN \A s \in DOMAIN g : Single(g[s]) ELSE Disjoint(g)
Undisputed(m, g) == m = "segment" => \A s \in DOMAIN g : "title-conflict" \notin g[s].why

\* An assignment that may be part of a group in a mode.
Fit(m, a) ==
  /\ IsAssignment(a)
  /\ m = "segment" => Single(a) /\ "title-conflict" \notin a.why

-------------------------------------------------------------------------------
(* Small sets. *)

LEMMA OneElement ==
  ASSUME NEW S, One(S)
  PROVE  Only(S) \in S /\ \A x, y \in S : x = y
BY DEF One, Only

-------------------------------------------------------------------------------
(* Single assignments. *)

LEMMA OpenAssignment ==
  ASSUME NEW status, NEW why
  PROVE  /\ IsAssignment(Open(status, why)) /\ Identities(Open(status, why)) = {}
         /\ Open(status, why).why = why /\ Open(status, why).status = status
BY DEF Open, IsAssignment, Identities

LEMMA AssignedAssignment ==
  ASSUME NEW eps
  PROVE  /\ IsAssignment(Assigned(eps)) /\ Assigned(eps).why = {}
         /\ Assigned(eps).status = "matched" /\ Assigned(eps).eps = eps
BY DEF Assigned, IsAssignment

LEMMA OneAssigned ==
  ASSUME NEW e
  PROVE  Single(Assigned(<<e>>)) /\ IsAssignment(Assigned(<<e>>)) /\ Assigned(<<e>>).why = {}
<1>1. DOMAIN <<e>> = {1}
  OBVIOUS
<1>2. Identities(Assigned(<<e>>)) = {e.id}
  BY <1>1, AssignedAssignment DEF Identities
<1> QED
  BY <1>2, AssignedAssignment DEF Single

\* One candidate or none is one episode at most.
LEMMA UniqueAssignment ==
  ASSUME NEW candidates, NEW none, IsAssignment(none), Single(none)
  PROVE  /\ IsAssignment(Unique(candidates, none)) /\ Single(Unique(candidates, none))
         /\ Unique(candidates, none).why \in {{}, none.why}
<1>1. IsAssignment(Suspicious) /\ Single(Suspicious) /\ Suspicious.why = {}
  BY OpenAssignment DEF Suspicious, Single
<1> QED
  BY <1>1, OneAssigned DEF Unique

\* A guard takes the episodes from an assignment, and nothing else that is read.
LEMMA Emptied ==
  ASSUME NEW a, IsAssignment(a), NEW b, DOMAIN b = DOMAIN a, b.eps = <<>>
  PROVE  IsAssignment(b) /\ Identities(b) = {} /\ Single(b)
BY DEF IsAssignment, Identities, Single

LEMMA EmptiedFields ==
  ASSUME NEW a, IsAssignment(a), NEW status
  PROVE  LET b == [a EXCEPT !.status = status, !.eps = <<>>]
         IN IsAssignment(b) /\ Identities(b) = {} /\ Single(b) /\ b.why = a.why
<1> DEFINE b == [a EXCEPT !.status = status, !.eps = <<>>]
<1>1. "status" \in DOMAIN a /\ "eps" \in DOMAIN a /\ "why" \in DOMAIN a
  BY DEF IsAssignment
<1>2. DOMAIN b = DOMAIN a /\ b.eps = <<>> /\ b.why = a.why
  BY <1>1
<1> HIDE DEF b
<1>3. IsAssignment(b) /\ Identities(b) = {} /\ Single(b)
  BY <1>2, Emptied
<1> QED
  BY <1>2, <1>3 DEF b

LEMMA EmptySingle ==
  ASSUME NEW a, Identities(a) = {}
  PROVE  Single(a)
BY DEF Single

LEMMA OpenFits ==
  ASSUME NEW m
  PROVE  /\ Fit(m, Suspicious) /\ Fit(m, Unresolved)
         /\ \A e : Fit(m, Assigned(<<e>>))
<1>1. Fit(m, Suspicious)
  BY OpenAssignment, EmptySingle DEF Suspicious, Fit
<1>2. Fit(m, Unresolved)
  BY OpenAssignment, EmptySingle DEF Unresolved, Fit
<1> QED
  BY <1>1, <1>2, OneAssigned DEF Fit

LEMMA UniqueFits ==
  ASSUME NEW m, NEW candidates, NEW none, Fit(m, none)
  PROVE  Fit(m, Unique(candidates, none))
BY OpenFits DEF Unique

-------------------------------------------------------------------------------
(* The guards against shared episodes. *)

\* _protect_provider_episode_identity keeps the sources apart.
LEMMA IdentityProtected ==
  ASSUME NEW g, Assignments(g)
  PROVE  /\ DOMAIN ProtectIdentity(g) = DOMAIN g
         /\ Assignments(ProtectIdentity(g)) /\ Disjoint(ProtectIdentity(g))
<1> DEFINE Shared(s) ==
             {id \in Identities(g[s]) : \E t \in DOMAIN g \ {s} : id \in Identities(g[t])}
           p == ProtectIdentity(g)
<1>1. DOMAIN p = DOMAIN g
  BY DEF ProtectIdentity
<1>2. ASSUME NEW s \in DOMAIN g
      PROVE  /\ IsAssignment(p[s])
             /\ Identities(p[s]) # {} => p[s] = g[s] /\ Shared(s) = {}
  <2>1. IsAssignment(g[s])
    BY DEF Assignments
  <2>2. CASE Shared(s) = {}
    <3>1. p[s] = g[s]
      BY <2>2 DEF ProtectIdentity
    <3> QED
      BY <2>1, <2>2, <3>1
  <2>3. CASE Shared(s) # {}
    <3>1. p[s] = [g[s] EXCEPT !.status = "suspicious", !.eps = <<>>, !.claims = @ \cup Shared(s)]
      BY <2>3 DEF ProtectIdentity
    <3>2. DOMAIN p[s] = DOMAIN g[s] /\ p[s].eps = <<>>
      BY <2>1, <3>1 DEF IsAssignment
    <3> HIDE DEF p, Shared
    <3>3. IsAssignment(p[s]) /\ Identities(p[s]) = {}
      BY <2>1, <3>2, Emptied
    <3> QED
      BY <3>3
  <2> QED
    BY <2>2, <2>3
<1>3. Assignments(p)
  BY <1>1, <1>2 DEF Assignments
<1>4. ASSUME NEW s \in DOMAIN g, NEW t \in DOMAIN g, s # t,
             NEW id \in Identities(p[s]), id \in Identities(p[t])
      PROVE  FALSE
  <2>1. id \in Identities(g[s]) /\ id \in Identities(g[t]) /\ Shared(s) = {}
    BY <1>2, <1>4
  <2>2. id \in Shared(s)
    BY <1>4, <2>1
  <2> QED
    BY <2>1, <2>2
<1>5. Disjoint(p)
  BY <1>1, <1>4 DEF Disjoint
<1> QED
  BY <1>1, <1>3, <1>5

\* _protect_segment_identity gives nobody another episode.
LEMMA SegmentsProtected ==
  ASSUME NEW g, Assignments(g)
  PROVE  /\ DOMAIN ProtectSegments(g) = DOMAIN g /\ Assignments(ProtectSegments(g))
         /\ \A s \in DOMAIN g : /\ Single(g[s]) => Single(ProtectSegments(g)[s])
                               /\ ProtectSegments(g)[s].why = g[s].why
<1>1. ASSUME NEW s \in DOMAIN g
      PROVE  \/ ProtectSegments(g)[s] = g[s]
             \/ ProtectSegments(g)[s] = [g[s] EXCEPT !.status = "suspicious", !.eps = <<>>]
  BY DEF ProtectSegments
<1>2. ASSUME NEW s \in DOMAIN g
      PROVE  /\ IsAssignment([g[s] EXCEPT !.status = "suspicious", !.eps = <<>>])
             /\ Single([g[s] EXCEPT !.status = "suspicious", !.eps = <<>>])
             /\ [g[s] EXCEPT !.status = "suspicious", !.eps = <<>>].why = g[s].why
  <2>1. IsAssignment(g[s])
    BY DEF Assignments
  <2> QED
    BY <2>1, EmptiedFields
<1>3. DOMAIN ProtectSegments(g) = DOMAIN g
  BY DEF ProtectSegments
<1> QED
  BY <1>1, <1>2, <1>3 DEF Assignments

\* The guard of a mode keeps its group apart.
LEMMA GroupProtected ==
  ASSUME NEW m, NEW g, Assignments(g), m = "segment" => \A s \in DOMAIN g : Single(g[s])
  PROVE  /\ DOMAIN Protect(g, m) = DOMAIN g /\ Assignments(Protect(g, m))
         /\ Apart(m, Protect(g, m))
         /\ Undisputed(m, g) => Undisputed(m, Protect(g, m))
<1>1. CASE m = "segment"
  BY <1>1, SegmentsProtected DEF Protect, Apart, Undisputed
<1>2. CASE m # "segment"
  BY <1>2, IdentityProtected DEF Protect, Apart, Undisputed
<1> QED
  BY <1>1, <1>2

-------------------------------------------------------------------------------
(* The sources of one policy, and of a mixed folder. *)

\* What one source is in a mode may be part of a group in that mode.
LEMMA ByModeFits ==
  ASSUME NEW s, NEW m \in Modes, NEW C
  PROVE  Fit(m, ByMode(s, m, C))
<1>1. IsAssignment(Aired(s, C))
  BY OpenAssignment, AssignedAssignment DEF Aired, Suspicious, Unresolved
<1>2. IsAssignment(Absolute(s, C))
  BY OpenAssignment, AssignedAssignment DEF Absolute, Suspicious, Unresolved
<1>3. IsAssignment(Special(s, C))
  <2>1. \A why : IsAssignment(Open("unresolved", why)) /\ Single(Open("unresolved", why))
    BY OpenAssignment, EmptySingle
  <2> QED
    BY <2>1, OpenAssignment, UniqueAssignment DEF Special, Suspicious, Unresolved
<1>4. IsAssignment(Dated(s, C))
  BY OpenAssignment, EmptySingle, UniqueAssignment DEF Dated, Suspicious, Unresolved
<1>5. Fit("segment", Segment(s, C))
  <2>1. Fit("segment", Open("unresolved", {"missing-segment-title"}))
    BY OpenAssignment, EmptySingle DEF Fit
  <2> QED
    BY <2>1, OpenFits, UniqueFits DEF Segment
<1> QED
  BY <1>1, <1>2, <1>3, <1>4, <1>5 DEF ByMode, Modes, Fit

\* The group of one policy is kept apart.
LEMMA StrictApart ==
  ASSUME NEW S, NEW m \in Modes, NEW C, NEW answered
  PROVE  LET g == Strict(S, m, C, answered)
         IN /\ DOMAIN g = S /\ Assignments(g) /\ Apart(m, g) /\ Undisputed(m, g)
<1> DEFINE g == Strict(S, m, C, answered)
           accessory == AccessorySpecials(FamiliesOf(S, m), m)
           ModeOf(s) == IF accessory /\ Family(s, m) = "special" THEN "special" ELSE m
           assigned == [s \in S |-> ByMode(s, ModeOf(s), C)]
<1>1. g \in {[s \in S |-> Suspicious], [s \in S |-> Unresolved], Protect(assigned, m)}
  BY DEF Strict
<1>2. ASSUME NEW a \in {Suspicious, Unresolved}, g = [s \in S |-> a]
      PROVE  DOMAIN g = S /\ Assignments(g) /\ Apart(m, g) /\ Undisputed(m, g)
  <2>1. Fit("segment", a) /\ Identities(a) = {}
    BY OpenFits, OpenAssignment DEF Suspicious, Unresolved
  <2> HIDE DEF g
  <2> QED
    BY <1>2, <2>1 DEF Fit, Assignments, Apart, Undisputed, Disjoint
<1>3. ASSUME g = Protect(assigned, m)
      PROVE  DOMAIN g = S /\ Assignments(g) /\ Apart(m, g) /\ Undisputed(m, g)
  <2>1. ASSUME NEW s \in S
        PROVE  Fit(m, assigned[s])
    <3>1. ModeOf(s) \in Modes /\ (m = "segment" => ModeOf(s) = m)
      BY DEF AccessorySpecials, PartitionableModes, Modes
    <3> HIDE DEF ModeOf
    <3>2. Fit(ModeOf(s), ByMode(s, ModeOf(s), C))
      BY <3>1, ByModeFits
    <3> QED
      BY <3>1, <3>2 DEF Fit
  <2>2. DOMAIN assigned = S
    OBVIOUS
  <2> HIDE DEF assigned, g
  <2>3. /\ Assignments(assigned)
        /\ m = "segment" => \A s \in S : Single(assigned[s])
        /\ Undisputed(m, assigned)
    BY <2>1, <2>2 DEF Assignments, Fit, Undisputed
  <2> QED
    BY <1>3, <2>2, <2>3, GroupProtected
<1> HIDE DEF g
<1> QED
  BY <1>1, <1>2, <1>3 DEF g

\* A family is that of a mode, or none, or a conflict.
LEMMA FamilyMode ==
  ASSUME NEW s, NEW m \in Modes
  PROVE  Family(s, m) \in Modes \cup {"none", "conflict"}
<1>1. Families(s) \subseteq Modes
  BY DEF Families, Modes
<1>2. One(Families(s)) => Only(Families(s)) \in Modes
  BY <1>1, OneElement
<1> QED
  BY <1>2 DEF Family, Modes

\* The first assignment keeps the sources apart, each family on its own and all
\* families together, whatever is answered.
LEMMA CoreApart ==
  ASSUME NEW S, NEW m \in Modes, NEW C, NEW answered
  PROVE  LET g == Core(S, m, C, answered)
         IN /\ DOMAIN g = S /\ Assignments(g) /\ Apart(m, g) /\ Undisputed(m, g)
<1> DEFINE g == Core(S, m, C, answered)
           Parted(f) == Strict(Part(S, m, f), PartMode(f, m), C, f \in answered)
           parts == [s \in S |-> Parted(Family(s, m))[s]]
<1>1. CASE ~NeedsPartition(S, m)
  <2>1. g = Strict(S, m, C, m \in answered)
    BY <1>1 DEF Core
  <2> QED
    BY <2>1, StrictApart
<1>2. CASE NeedsPartition(S, m)
  <2>1. g = ProtectIdentity(parts) /\ m # "segment"
    BY <1>2 DEF Core, NeedsPartition, PartitionableModes
  <2>2. ASSUME NEW s \in S
        PROVE  IsAssignment(parts[s])
    <3>1. Family(s, m) \in Modes \cup {"none", "conflict"}
      BY FamilyMode
    <3>2. PartMode(Family(s, m), m) \in Modes
      BY <3>1 DEF PartMode
    <3>3. s \in Part(S, m, Family(s, m))
      BY DEF Part
    <3>4. DOMAIN Parted(Family(s, m)) = Part(S, m, Family(s, m)) /\ Assignments(Parted(Family(s, m)))
      BY <3>2, StrictApart
    <3> HIDE DEF Parted
    <3> QED
      BY <3>3, <3>4 DEF Assignments
  <2>3. DOMAIN parts = S
    OBVIOUS
  <2> HIDE DEF parts, g
  <2>4. Assignments(parts)
    BY <2>2, <2>3 DEF Assignments
  <2> QED
    BY <2>1, <2>3, <2>4, IdentityProtected DEF Apart, Undisputed, g
<1> QED
  BY <1>1, <1>2

-------------------------------------------------------------------------------
(* The passes that move sources. *)

LEMMA FallbackFits ==
  ASSUME NEW m, NEW s, NEW a, Fit(m, a), NEW C
  PROVE  Fit(m, SpecialFallback(s, a, C))
BY OpenFits DEF SpecialFallback

\* The guards that take sources out of the group.
LEMMA AsideFits ==
  ASSUME NEW m \in Modes, NEW g, \A s \in DOMAIN g : Fit(m, g[s]), NEW C, NEW rerun,
         NEW s \in DOMAIN g
  PROVE  Fit(m, SetAside(g, m, C, rerun)[s])
<1> DEFINE quarantined == {t \in DOMAIN g : QuarantinedTitle(t, g[t], C)}
           guarded == {t \in DOMAIN g : Guarded(t, m, C)}
           remaining == DOMAIN g \ (guarded \cup quarantined)
           again == Core(remaining, m, C, rerun)
<1>1. SetAside(g, m, C, rerun)[s] =
        IF s \in quarantined THEN [g[s] EXCEPT !.status = "unresolved", !.eps = <<>>]
        ELSE IF s \in guarded THEN PrePremiere(s, C)
        ELSE IF remaining = DOMAIN g THEN g[s] ELSE again[s]
  BY DEF SetAside
<1>2. Fit(m, [g[s] EXCEPT !.status = "unresolved", !.eps = <<>>])
  BY EmptiedFields DEF Fit
<1>3. Fit(m, PrePremiere(s, C))
  BY OpenFits, UniqueFits DEF PrePremiere
<1>4. s \in remaining => Fit(m, again[s])
  <2> HIDE DEF remaining
  <2>1. /\ DOMAIN again = remaining /\ Assignments(again) /\ Apart(m, again)
        /\ Undisputed(m, again)
    BY CoreApart
  <2> HIDE DEF again
  <2> QED
    BY <2>1 DEF Assignments, Apart, Undisputed, Fit
<1> HIDE DEF again
<1> QED
  BY <1>1, <1>2, <1>3, <1>4

\* The remap of folders that count segments, which is of the aired mode.
LEMMA CountedFits ==
  ASSUME NEW m \in Modes, NEW g, \A s \in DOMAIN g : Fit(m, g[s]), NEW C,
         NEW quarantined, NEW answered
  PROVE  LET p == RemapCounted(g, m, C, quarantined, answered)
         IN DOMAIN p = DOMAIN g /\ \A s \in DOMAIN g : Fit(m, p[s])
<1> DEFINE p == RemapCounted(g, m, C, quarantined, answered)
           Again(s) ==
             IF g[s].claims # {} /\ Family(s, m) \in Modes
             THEN Strict({s}, Family(s, m), C, s \in answered)[s] ELSE g[s]
<1>1. CASE p = g
  BY <1>1
<1>2. CASE p # g
  <2>1. m = "aired" /\ DOMAIN p = DOMAIN g
    BY <1>2 DEF RemapCounted, MayCount
  <2>2. ASSUME NEW s \in DOMAIN g
        PROVE  p[s] \in {g[s], Again(s), ByCountedTitle(s, DOMAIN g, C)}
    BY <1>2, <2>1 DEF RemapCounted
  <2>3. ASSUME NEW s \in DOMAIN g
        PROVE  IsAssignment(Again(s))
    <3>1. CASE g[s].claims # {} /\ Family(s, m) \in Modes
      <4>1. /\ DOMAIN Strict({s}, Family(s, m), C, s \in answered) = {s}
            /\ Assignments(Strict({s}, Family(s, m), C, s \in answered))
        BY <3>1, StrictApart
      <4> QED
        BY <3>1, <4>1 DEF Assignments
    <3>2. CASE ~(g[s].claims # {} /\ Family(s, m) \in Modes)
      BY <3>2 DEF Fit
    <3> QED
      BY <3>1, <3>2
  <2>4. ASSUME NEW s
        PROVE  IsAssignment(ByCountedTitle(s, DOMAIN g, C))
    BY OpenFits, UniqueFits DEF ByCountedTitle, Fit
  <2> HIDE DEF p, Again
  <2> QED
    BY <2>1, <2>2, <2>3, <2>4 DEF Fit, p
<1> QED
  BY <1>1, <1>2

LEMMA CompoundDisputed ==
  ASSUME NEW s, NEW a, NEW C, ~Disputed(a)
  PROVE  Compound(s, a, C) = <<>>
BY DEF Compound

\* The remap of compound titles, which needs a title conflict.
LEMMA CompoundFits ==
  ASSUME NEW m, NEW g, \A s \in DOMAIN g : Fit(m, g[s]), NEW C
  PROVE  LET p == RemapCompound(g, C)
         IN DOMAIN p = DOMAIN g /\ \A s \in DOMAIN g : Fit(m, p[s])
<1> DEFINE p == RemapCompound(g, C)
           found == {s \in DOMAIN g : Compound(s, g[s], C) # <<>>}
           New(s) == Assigned(Compound(s, g[s], C))
<1>1. DOMAIN p = DOMAIN g
  BY DEF RemapCompound
<1>2. ASSUME NEW s \in DOMAIN g
      PROVE  p[s] = g[s] \/ (s \in found /\ p[s] = [New(s) EXCEPT !.why = g[s].why])
  BY DEF RemapCompound
<1>3. ASSUME NEW s \in DOMAIN g, m = "segment"
      PROVE  s \notin found
  BY <1>3, CompoundDisputed DEF Disputed, Fit
<1>4. ASSUME NEW s \in DOMAIN g
      PROVE  IsAssignment([New(s) EXCEPT !.why = g[s].why])
  <2>1. IsAssignment(New(s))
    BY AssignedAssignment
  <2> HIDE DEF New
  <2> QED
    BY <2>1 DEF IsAssignment
<1> HIDE DEF p, found, New
<1> QED
  BY <1>1, <1>2, <1>3, <1>4 DEF Fit, p

\* The guard against contradicted coordinates gives nobody another episode.
LEMMA PeersProtected ==
  ASSUME NEW g, Assignments(g)
  PROVE  /\ DOMAIN ProtectPeers(g) = DOMAIN g /\ Assignments(ProtectPeers(g))
         /\ \A s \in DOMAIN g : Single(g[s]) => Single(ProtectPeers(g)[s])
<1>1. DOMAIN ProtectPeers(g) = DOMAIN g
  BY DEF ProtectPeers
<1>2. ASSUME NEW s \in DOMAIN g
      PROVE  /\ IsAssignment(ProtectPeers(g)[s])
             /\ Single(g[s]) => Single(ProtectPeers(g)[s])
  <2> DEFINE p == ProtectPeers(g)
  <2>1. IsAssignment(g[s])
    BY DEF Assignments
  <2>2. p[s] = g[s] \/ (DOMAIN p[s] = DOMAIN g[s] /\ p[s].eps = <<>>)
    BY <2>1 DEF ProtectPeers, IsAssignment
  <2> HIDE DEF p
  <2> QED
    BY <2>1, <2>2, Emptied DEF p
<1> QED
  BY <1>1, <1>2 DEF Assignments

\* Neither does the guard against shared episodes.
LEMMA IdentityKeepsSingle ==
  ASSUME NEW g, Assignments(g)
  PROVE  \A s \in DOMAIN g : Single(g[s]) => Single(ProtectIdentity(g)[s])
<1> SUFFICES ASSUME NEW s \in DOMAIN g, Single(g[s])
             PROVE  Single(ProtectIdentity(g)[s])
  OBVIOUS
<1> DEFINE p == ProtectIdentity(g)
<1>1. IsAssignment(g[s])
  BY DEF Assignments
<1>2. p[s] = g[s] \/ (DOMAIN p[s] = DOMAIN g[s] /\ p[s].eps = <<>>)
  BY <1>1 DEF ProtectIdentity, IsAssignment
<1> HIDE DEF p
<1> QED
  BY <1>1, <1>2, Emptied DEF p

\* Whatever the passes move, and whichever of their requests fail, the sources are
\* kept apart.
LEMMA PassesApart ==
  ASSUME NEW m \in Modes, NEW g, Assignments(g), Apart(m, g), Undisputed(m, g),
         NEW C, NEW rerun, NEW again
  PROVE  LET p == Passes(g, m, C, rerun, again)
         IN DOMAIN p = DOMAIN g /\ Assignments(p) /\ Apart(m, p)
<1> DEFINE S == DOMAIN g
           quarantined == {s \in S : QuarantinedTitle(s, g[s], C)}
           base == SetAside(g, m, C, rerun)
           special == [s \in S |-> IF SpecialSignal(s, g[s]) THEN SpecialFallback(s, base[s], C) ELSE base[s]]
           counted == RemapCounted(special, m, C, quarantined, again)
           compound == RemapCompound(counted, C)
           peers == ProtectPeers(compound)
<1>0. \A s \in S : Fit(m, g[s])
  BY DEF Assignments, Apart, Undisputed, Fit
<1>1. \A s \in S : Fit(m, base[s])
  BY <1>0, AsideFits
<1>2. DOMAIN special = S /\ \A s \in S : Fit(m, special[s])
  <2> HIDE DEF base
  <2> QED
    BY <1>1, FallbackFits
<1>3. DOMAIN counted = S /\ \A s \in S : Fit(m, counted[s])
  <2> HIDE DEF special, quarantined
  <2> QED
    BY <1>2, CountedFits
<1>4. DOMAIN compound = S /\ \A s \in S : Fit(m, compound[s])
  <2> HIDE DEF counted
  <2> QED
    BY <1>3, CompoundFits
<1>5. Passes(g, m, C, rerun, again) = ProtectIdentity(peers)
  BY DEF Passes, Remapped
<1>6. /\ DOMAIN peers = S /\ Assignments(peers)
      /\ m = "segment" => \A s \in S : Single(peers[s])
  <2> HIDE DEF compound
  <2>1. Assignments(compound)
    BY <1>4 DEF Assignments, Fit
  <2> QED
    BY <1>4, <2>1, PeersProtected DEF Fit
<1> HIDE DEF peers
<1>7. /\ DOMAIN ProtectIdentity(peers) = S /\ Assignments(ProtectIdentity(peers))
      /\ Disjoint(ProtectIdentity(peers))
      /\ m = "segment" => \A s \in S : Single(ProtectIdentity(peers)[s])
  BY <1>6, IdentityProtected, IdentityKeepsSingle
<1> QED
  BY <1>5, <1>7 DEF Apart

\* The recovery of leading articles guards its group again.
LEMMA ArticlesApart ==
  ASSUME NEW m, NEW g, Assignments(g), Apart(m, g), NEW C
  PROVE  LET p == RecoverArticle(g, m, C)
         IN DOMAIN p = DOMAIN g /\ Assignments(p) /\ Apart(m, p)
<1> DEFINE found == [s \in DOMAIN g |->
                       IF LacksTitle(s, g[s]) THEN Unique(Articled(s, C), g[s]) ELSE g[s]]
<1>1. RecoverArticle(g, m, C) = Protect(found, m)
  BY DEF RecoverArticle
<1>2. ASSUME NEW s \in DOMAIN g
      PROVE  IsAssignment(found[s]) /\ (Single(g[s]) => Single(found[s]))
  <2>1. Unique(Articled(s, C), g[s]) \in {g[s], Suspicious, Assigned(<<Only(Articled(s, C))>>)}
    BY DEF Unique
  <2>2. IsAssignment(Suspicious) /\ Single(Suspicious)
    BY OpenFits DEF Fit
  <2>3. IsAssignment(g[s])
    BY DEF Assignments
  <2> QED
    BY <2>1, <2>2, <2>3, OneAssigned
<1>3. DOMAIN found = DOMAIN g
  OBVIOUS
<1> HIDE DEF found
<1>4. Assignments(found) /\ (m = "segment" => \A s \in DOMAIN g : Single(found[s]))
  BY <1>2, <1>3 DEF Assignments, Apart
<1> QED
  BY <1>1, <1>3, <1>4, GroupProtected

-------------------------------------------------------------------------------
(* What is shared once the passes are over. *)

\* Sources that are kept apart share an episode only as segments.
LEMMA ApartGuards ==
  ASSUME NEW s \in folder, NEW t \in folder, s # t, Apart(mode, group),
         Identities(group[s]) \cap Identities(group[t]) # {}
  PROVE  mode = "segment" /\ Identities(group[s]) = Identities(group[t])
BY DEF Apart, Disjoint, Single, folder

\* The invariant of the assignment of the videos.
Placed ==
  /\ stage # "done" => Assignments(group) /\ Apart(mode, group)
  /\ stage \in {"core", "passes"} => Undisputed(mode, group)
  /\ stage \in {"core", "passes", "article", "duplicates"} => mode \in Modes

LEMMA PlacedGuards ==
  ASSUME Placed
  PROVE  EpisodesGuarded
BY ApartGuards DEF Placed, EpisodesGuarded

LEMMA UnresolvedPlaced ==
  ASSUME NEW m, NEW g, \A s \in DOMAIN g : g[s] = Unresolved
  PROVE  Assignments(g) /\ Apart(m, g) /\ Undisputed(m, g)
<1>1. IsAssignment(Unresolved) /\ Identities(Unresolved) = {} /\ Unresolved.why = {}
  BY OpenAssignment DEF Unresolved
<1> QED
  BY <1>1 DEF Assignments, Apart, Disjoint, Single, Undisputed

\* Each pass keeps the sources apart.
LEMMA AssignmentStep ==
  ASSUME Placed, Next
  PROVE  Placed'
<1>1. CASE AssignCore
  <2>1. PICK answered \in Answers(Requests(folder)) :
          group' = Core(folder, mode, catalog, answered)
    BY <1>1 DEF AssignCore
  <2>2. mode \in Modes /\ mode' = mode /\ stage' \in {"passes", "article"}
    BY <1>1 DEF AssignCore, Placed
  <2>3. Assignments(group') /\ Apart(mode, group') /\ Undisputed(mode, group')
    BY <2>1, <2>2, CoreApart
  <2> QED
    BY <2>2, <2>3 DEF Placed
<1>2. CASE SkipPasses
  BY <1>2 DEF SkipPasses, Placed
<1>3. CASE RunPasses
  <2>1. PICK rerun \in Answers(Requests(folder)), again \in Answers(folder) :
          group' = Passes(group, mode, catalog, rerun, again)
    BY <1>3 DEF RunPasses
  <2>2. /\ mode \in Modes /\ mode' = mode /\ stage' = "article"
        /\ Assignments(group) /\ Apart(mode, group) /\ Undisputed(mode, group)
    BY <1>3 DEF RunPasses, Placed
  <2>3. Assignments(group') /\ Apart(mode, group')
    BY <2>1, <2>2, PassesApart
  <2> QED
    BY <2>2, <2>3 DEF Placed
<1>4. CASE RecoverArticles
  <2>1. \/ group' = RecoverArticle(group, mode, catalog)
        \/ group' = group
    BY <1>4 DEF RecoverArticles
  <2>2. /\ mode \in Modes /\ mode' = mode /\ stage' = "duplicates"
        /\ Assignments(group) /\ Apart(mode, group)
    BY <1>4 DEF RecoverArticles, Placed
  <2>3. Assignments(group') /\ Apart(mode, group')
    BY <2>1, <2>2, ArticlesApart
  <2> QED
    BY <2>2, <2>3 DEF Placed
<1>5. CASE RecoverEquivalents
  BY <1>5 DEF RecoverEquivalents, Placed
<1> QED
  BY <1>1, <1>2, <1>3, <1>4, <1>5 DEF Next

\* Whatever the passes of the assignment move, and whichever of their requests fail, no
\* two videos are one episode until duplicates are recovered, unless they are segments
\* that are that one episode and nothing else.
THEOREM AssignmentGuardsEpisodes == Spec => []EpisodesGuarded
<1>1. Init => Placed
  <2> SUFFICES ASSUME Init
               PROVE  Placed
    OBVIOUS
  <2>1. PICK S \in SUBSET SourcePool : group = [s \in S |-> Unresolved]
    BY DEF Init
  <2>2. \A s \in DOMAIN group : group[s] = Unresolved
    BY <2>1
  <2>3. mode \in Modes
    BY AssignmentAssumption DEF Init, AssignmentAssumption
  <2> QED
    BY <2>2, <2>3, UnresolvedPlaced DEF Placed
<1>2. Placed /\ [Next]_vars => Placed'
  <2>1. CASE UNCHANGED vars
    BY <2>1 DEF vars, Placed
  <2> QED
    BY <2>1, AssignmentStep
<1>3. Placed => EpisodesGuarded
  BY PlacedGuards
<1> QED
  BY <1>1, <1>2, <1>3, PTL DEF Spec

-------------------------------------------------------------------------------
(* A result that is matched has a numbering. *)

IsResult(r) ==
  /\ DOMAIN r = {"status", "show", "mode", "why", "score"}
  /\ r.status = "matched" => r.mode \in Modes
IsRun(run) == DOMAIN run = {"result", "asked"} /\ IsResult(run.result)

LEMMA UndecidedResult ==
  ASSUME NEW status, status # "matched", NEW why, NEW score
  PROVE  IsResult(Undecided(status, why, score)) /\ Undecided(status, why, score).status = status
BY DEF Undecided, IsResult

LEMMA NumberedResult ==
  ASSUME NEW show, NEW m, NEW score
  PROVE  IsResult(WithNumbering(show, m, score))
<1>1. CASE m \in Modes
  BY <1>1 DEF WithNumbering, Decide, IsResult
<1>2. CASE m \notin Modes
  BY <1>2, UndecidedResult DEF WithNumbering
<1> QED
  BY <1>1, <1>2

LEMMA HeldResult ==
  ASSUME NEW score, NEW counting
  PROVE  IsResult(Held(score, counting)) /\ Held(score, counting).status # "matched"
BY UndecidedResult DEF Held

LEMMA SettledResult ==
  ASSUME NEW w, NEW score, NEW counting, NEW way
  PROVE  IsResult(Settle(w, score, counting, way))
BY HeldResult, NumberedResult DEF Settle

LEMMA EvidenceResult ==
  ASSUME NEW w, NEW name, NEW candidates
  PROVE  IsResult(ByEvidence(w, name, candidates))
<1>1. IsResult(Refused)
  BY UndecidedResult DEF Refused
<1>2. \A title : IsResult(Weighed(w, title))
  BY SettledResult DEF Weighed, WithAliases, ByScores
<1> QED
  BY <1>1, <1>2 DEF ByEvidence

LEMMA CoreResult ==
  ASSUME NEW w
  PROVE  IsResult(CoreResolution(w))
<1>1. IsResult(Refused)
  BY UndecidedResult DEF Refused
<1> QED
  BY <1>1, EvidenceResult, NumberedResult DEF CoreResolution, Resolved

LEMMA UnresolvedRun ==
  ASSUME NEW run, IsRun(run)
  PROVE  /\ IsRun(Unresolve(run)) /\ Unresolve(run).asked = run.asked
         /\ Unresolve(run).result.status = "unresolved"
<1> DEFINE r == [run.result EXCEPT !.status = "unresolved"]
<1>1. DOMAIN r = DOMAIN run.result /\ r.status = "unresolved"
  BY DEF IsRun, IsResult
<1>2. Unresolve(run) = [run EXCEPT !.result = r]
  BY DEF Unresolve
<1> HIDE DEF r
<1>3. /\ DOMAIN Unresolve(run) = DOMAIN run
      /\ Unresolve(run).result = r /\ Unresolve(run).asked = run.asked
  BY <1>2 DEF IsRun
<1> QED
  BY <1>1, <1>3 DEF IsRun, IsResult

LEMMA DecidedRun ==
  ASSUME NEW Q, NEW r, IsResult(r)
  PROVE  IsRun([asked |-> Q, result |-> r])
BY DEF IsRun

LEMMA AgreedResult ==
  ASSUME NEW halves, \A r \in halves : IsResult(r), NEW otherwise, IsResult(otherwise)
  PROVE  IsResult(Agreed(halves, otherwise))
<1> DEFINE matched == {r \in halves : r.status = "matched"}
<1>1. One({r.show : r \in matched}) => matched # {}
  BY DEF One
<1>2. matched # {} => Only(matched) \in halves
  BY DEF Only
<1> QED
  BY <1>1, <1>2 DEF Agreed

\* Each retry ends in a result.
LEMMA RetriesRun ==
  ASSUME NEW w, NEW run, IsRun(run)
  PROVE  /\ IsRun(Parenthetical(w, run)) /\ IsRun(JoinedWords(w, run))
         /\ IsRun(ReleasePrefix(w, run)) /\ IsRun(RootTitle(w, run))
         /\ IsRun(StructuralYear(w, run))
<1>0. IsResult(run.result)
  BY DEF IsRun
<1>1. IsRun(Parenthetical(w, run))
  <2> DEFINE Q == {"title", "first", "second"}
             halves == {ByEvidence(w, name, Hits(w, Q)) : name \in {"first", "second"}}
  <2>1. \A r \in halves : IsResult(r)
    BY EvidenceResult
  <2>2. Parenthetical(w, run) \in
          {run, Unresolve(run), [asked |-> Q, result |-> Agreed(halves, run.result)]}
    BY DEF Parenthetical
  <2> HIDE DEF halves, Q
  <2> QED
    BY <1>0, <2>1, <2>2, UnresolvedRun, AgreedResult, DecidedRun
<1>2. IsRun(JoinedWords(w, run))
  <2> DEFINE Q == run.asked \cup {"joined"}
             r == ByEvidence(w, "title", Hits(w, Q))
  <2>1. JoinedWords(w, run) \in {run, [asked |-> Q, result |-> r]}
    BY DEF JoinedWords
  <2>2. IsResult(r)
    BY EvidenceResult
  <2> HIDE DEF Q, r
  <2> QED
    BY <2>1, <2>2, DecidedRun
<1>3. ASSUME NEW name, NEW least
      PROVE  IsRun(ByOtherName(w, run, name, least))
  <2> DEFINE Q == run.asked \cup {name}
             r == Confirmed(w, ByEvidence(w, name, Hits(w, Q)), least, run.result)
  <2>1. ByOtherName(w, run, name, least) \in {run, Unresolve(run), [asked |-> Q, result |-> r]}
    BY DEF ByOtherName
  <2>2. IsResult(r)
    BY <1>0, EvidenceResult DEF Confirmed
  <2> HIDE DEF Q, r
  <2> QED
    BY <2>1, <2>2, UnresolvedRun, DecidedRun
<1>4. IsRun(ReleasePrefix(w, run)) /\ IsRun(RootTitle(w, run))
  BY <1>3 DEF ReleasePrefix, RootTitle
<1>5. IsRun(StructuralYear(w, run))
  <2>1. ASSUME NEW show, NEW score
        PROVE  IsRun([run EXCEPT !.result = Resolved(w, show, score)])
    <3>1. IsResult(Resolved(w, show, score))
      BY NumberedResult DEF Resolved
    <3> QED
      BY <3>1 DEF IsRun
  <2> QED
    BY <2>1 DEF StructuralYear
<1> QED
  BY <1>1, <1>2, <1>4, <1>5

\* Of each run, what is known of it.
IsRuns == /\ DOMAIN runs = Answering /\ \A a \in Answering : IsRun(runs[a])

LEMMA ResolutionStarts ==
  ASSUME ResolutionInit
  PROVE  IsRuns
<1>1. \A a \in Answering : IsRun(First(Folder(a)))
  BY CoreResult DEF First, IsRun
<1> QED
  BY <1>1 DEF ResolutionInit, IsRuns

LEMMA ResolutionStep ==
  ASSUME IsRuns, ResolutionNext
  PROVE  IsRuns'
<1>1. \A a \in Answering :
        /\ IsRun(Parenthetical(Folder(a), runs[a])) /\ IsRun(JoinedWords(Folder(a), runs[a]))
        /\ IsRun(ReleasePrefix(Folder(a), runs[a])) /\ IsRun(RootTitle(Folder(a), runs[a]))
        /\ IsRun(StructuralYear(Folder(a), runs[a]))
  BY RetriesRun DEF IsRuns
<1>2. DOMAIN runs' = Answering /\ \A a \in Answering : IsRun(runs'[a])
  <2>1. CASE RetryParenthetical
    BY <1>1, <2>1 DEF RetryParenthetical, Retry
  <2>2. CASE RetryJoinedWords
    BY <1>1, <2>2 DEF RetryJoinedWords, Retry
  <2>3. CASE RetryReleasePrefix
    BY <1>1, <2>3 DEF RetryReleasePrefix, Retry
  <2>4. CASE RetryRootTitle
    BY <1>1, <2>4 DEF RetryRootTitle, Retry
  <2>5. CASE RetryStructuralYear
    BY <1>1, <2>5 DEF RetryStructuralYear, Retry
  <2> QED
    BY <2>1, <2>2, <2>3, <2>4, <2>5 DEF ResolutionNext
<1> QED
  BY <1>2 DEF IsRuns

-------------------------------------------------------------------------------
(* From the show to the videos. *)

\* The invariant of the matching: until the show is decided nothing is assigned.
MatchingInvariant ==
  /\ IsRuns /\ Placed
  /\ stage = "show" => \A s \in folder : group[s] = Unresolved
  /\ step # "planned" => stage = "show"

LEMMA MatchingStarts ==
  ASSUME MatchingInit
  PROVE  MatchingInvariant
<1>1. \A s \in DOMAIN group : group[s] = Unresolved
  BY DEF MatchingInit
<1>2. IsRuns
  BY ResolutionStarts DEF MatchingInit
<1>3. stage = "show"
  BY DEF MatchingInit
<1>4. Placed
  BY <1>1, <1>3, UnresolvedPlaced DEF Placed
<1> QED
  BY <1>1, <1>2, <1>3, <1>4 DEF MatchingInvariant, folder

\* Each step from the show to the videos keeps the invariant.
LEMMA MatchingStep ==
  ASSUME MatchingInvariant, [MatchingNext]_matchingVars
  PROVE  MatchingInvariant'
<1>1. CASE ResolveShow
  <2>1. UNCHANGED <<mode, catalog, stage, group>> /\ IsRuns'
    BY <1>1, ResolutionStep DEF ResolveShow, MatchingInvariant, vars
  <2>2. step # "planned"
    BY <1>1 DEF ResolveShow, ResolutionNext, Retry, RetryParenthetical, RetryJoinedWords,
                RetryReleasePrefix, RetryRootTitle, RetryStructuralYear
  <2> QED
    BY <2>1, <2>2 DEF MatchingInvariant, Placed, folder
<1>2. CASE PlanResolved
  <2>1. /\ mode' = runs.actual.result.mode /\ runs.actual.result.status = "matched"
        /\ stage' = "core" /\ step' = "planned" /\ UNCHANGED <<group, runs>>
        /\ step = "resolved"
    BY <1>2 DEF PlanResolved
  <2>2. mode' \in Modes
    BY <2>1 DEF MatchingInvariant, IsRuns, IsRun, IsResult, Answering
  <2>3. Assignments(group) /\ Apart(mode', group) /\ Undisputed(mode', group)
    <3>1. \A s \in DOMAIN group : group[s] = Unresolved
      BY <2>1 DEF MatchingInvariant, folder
    <3> QED
      BY <3>1, UnresolvedPlaced
  <2>4. IsRuns'
    BY <2>1 DEF MatchingInvariant, IsRuns
  <2> QED
    BY <2>1, <2>2, <2>3, <2>4 DEF MatchingInvariant, Placed
<1>3. CASE LeaveUnresolved
  BY <1>3 DEF LeaveUnresolved, MatchingInvariant, Placed, IsRuns
<1>4. CASE AssignEpisodes
  <2>1. Placed'
    BY <1>4, AssignmentStep DEF AssignEpisodes, MatchingInvariant
  <2>2. stage # "show" /\ stage' # "show" /\ UNCHANGED <<step, runs>>
    BY <1>4 DEF AssignEpisodes, resolutionVars, Next, AssignCore, SkipPasses, RunPasses,
                RecoverArticles, RecoverEquivalents
  <2> QED
    BY <2>1, <2>2 DEF MatchingInvariant, IsRuns
<1>5. CASE UNCHANGED matchingVars
  BY <1>5 DEF matchingVars, resolutionVars, vars, MatchingInvariant, Placed, IsRuns, folder
<1> QED
  BY <1>1, <1>2, <1>3, <1>4, <1>5 DEF MatchingNext

\* The same from the name of the folder on: the numbering that the show was resolved with
\* is one that the guards know.
THEOREM MatchingGuardsEpisodes == MatchingSpec => []EpisodesGuarded
<1>1. MatchingInit => MatchingInvariant
  BY MatchingStarts
<1>2. MatchingInvariant /\ [MatchingNext]_matchingVars => MatchingInvariant'
  BY MatchingStep
<1>3. MatchingInvariant => EpisodesGuarded
  BY PlacedGuards DEF MatchingInvariant
<1> QED
  BY <1>1, <1>2, <1>3, PTL DEF MatchingSpec

-------------------------------------------------------------------------------
(* Videos that are held together. *)

\* Whoever is held together with a member is a member.
LEMMA ComponentHeld ==
  ASSUME NEW g, NEW s \in Claimants(g), NEW t \in Component(s, g), NEW u \in Claimants(g),
         HeldTogether(t, u, g)
  PROVE  u \in Component(s, g)
BY DEF Component

LEMMA ComponentSelf ==
  ASSUME NEW g, NEW s \in Claimants(g)
  PROVE  s \in Component(s, g)
BY DEF Component

\* Whoever is in the component of another one has it in its own.
LEMMA ComponentSymmetric ==
  ASSUME NEW g, NEW s \in Claimants(g), NEW t \in Component(s, g)
  PROVE  Component(t, g) = Component(s, g)
<1> DEFINE C == Claimants(g)
           Closed(K) == \A x \in K, y \in C : HeldTogether(x, y, g) => y \in K
<1>1. ASSUME NEW x \in C, NEW y \in C
      PROVE  y \in Component(x, g) <=> \A K \in SUBSET C : x \in K /\ Closed(K) => y \in K
  BY DEF Component
<1>2. \A x, y : HeldTogether(x, y, g) => HeldTogether(y, x, g)
  BY DEF HeldTogether
<1>3. ASSUME NEW K \in SUBSET C, Closed(K)
      PROVE  Closed(C \ K)
  BY <1>2, <1>3
<1>4. s \in C /\ t \in C
  BY DEF Component
<1>5. ASSUME NEW K \in SUBSET C, Closed(K)
      PROVE  s \in K <=> t \in K
  <2> HIDE DEF C, Closed
  <2>1. C \ K \in SUBSET C /\ Closed(C \ K)
    BY <1>3, <1>5
  <2>2. K \in SUBSET C /\ Closed(K)
    BY <1>5
  <2>3. \A L \in SUBSET C : s \in L /\ Closed(L) => t \in L
    BY <1>1, <1>4
  <2> QED
    BY <1>4, <2>1, <2>2, <2>3
<1>6. \A y \in C : y \in Component(t, g) <=> y \in Component(s, g)
  <2> HIDE DEF Closed
  <2> QED
    BY <1>1, <1>4, <1>5
<1>7. Component(t, g) \subseteq C /\ Component(s, g) \subseteq C
  BY DEF Component
<1> QED
  BY <1>6, <1>7

\* Who is held together with nobody else is a component alone.
LEMMA ComponentAlone ==
  ASSUME NEW g, NEW s \in Claimants(g), Many(Component(s, g))
  PROVE  \E t \in Claimants(g) \ {s} : HeldTogether(s, t, g)
<1> SUFFICES ASSUME \A t \in Claimants(g) : HeldTogether(s, t, g) => t = s
             PROVE  Component(s, g) \subseteq {s}
  BY DEF Many
<1>1. {s} \in SUBSET Claimants(g)
  OBVIOUS
<1>2. \A x \in {s}, y \in Claimants(g) : HeldTogether(x, y, g) => y \in {s}
  OBVIOUS
<1> QED
  BY <1>1, <1>2 DEF Component

LEMMA EquivalentIdentities ==
  ASSUME NEW component, NEW individual, Equivalent(component, individual),
         NEW s \in component, NEW t \in component
  PROVE  Matched(individual[t]) /\ Identities(individual[t]) = Identities(individual[s])
<1>1. One({Identities(individual[x]) : x \in component})
  BY DEF Equivalent
<1>2. Matched(individual[t])
  BY DEF Equivalent
<1> QED
  BY <1>1, <1>2, OneElement

\* Whatever the videos are on their own.
LEMMA RecoveredTogether ==
  ASSUME NEW g, NEW individual, NEW s \in Claimants(g),
         Matched(RecoverDuplicates(g, individual)[s])
  PROVE  LET r == RecoverDuplicates(g, individual)
         IN /\ \E t \in Claimants(g) \ {s} : HeldTogether(s, t, g)
            /\ \A t \in Claimants(g) :
                 HeldTogether(s, t, g) => Matched(r[t]) /\ Identities(r[t]) = Identities(r[s])
<1> DEFINE r == RecoverDuplicates(g, individual)
<1>1. ASSUME NEW t \in Claimants(g)
      PROVE  r[t] = IF Equivalent(Component(t, g), individual) THEN individual[t] ELSE g[t]
  BY DEF RecoverDuplicates, Claimants
<1>2. ~Matched(g[s])
  BY DEF Claimants, Matched
<1> HIDE DEF r
<1>3. Equivalent(Component(s, g), individual) /\ r[s] = individual[s]
  BY <1>1, <1>2 DEF r
<1>4. \E t \in Claimants(g) \ {s} : HeldTogether(s, t, g)
  BY <1>3, ComponentAlone DEF Equivalent
<1>5. ASSUME NEW t \in Claimants(g), HeldTogether(s, t, g)
      PROVE  Matched(r[t]) /\ Identities(r[t]) = Identities(r[s])
  <2>1. s \in Component(s, g) /\ t \in Component(s, g)
    BY <1>5, ComponentSelf, ComponentHeld
  <2>2. Component(t, g) = Component(s, g)
    BY <2>1, ComponentSymmetric
  <2>3. r[t] = individual[t]
    BY <1>1, <1>3, <2>2
  <2> QED
    BY <1>3, <2>1, <2>3, EquivalentIdentities
<1> QED
  BY <1>4, <1>5 DEF r

\* Only the recovery of duplicates is taken then.
LEMMA NextReleasesTogether ==
  ASSUME Next, NEW s \in Claimants(group), stage = "duplicates", Matched(group'[s])
  PROVE  /\ \E t \in Claimants(group) \ {s} : HeldTogether(s, t, group)
         /\ \A t \in Claimants(group) :
              HeldTogether(s, t, group) =>
                Matched(group'[t]) /\ Identities(group'[t]) = Identities(group'[s])
<1>1. RecoverEquivalents
  BY DEF Next, AssignCore, SkipPasses, RunPasses, RecoverArticles
<1>2. PICK answered : group' = RecoverDuplicates(group,
                                 [u \in Claimants(group) |-> Alone(u, mode, catalog, answered[u])])
  BY <1>1 DEF RecoverEquivalents
<1> QED
  BY <1>2, RecoveredTogether

\* The recovery of duplicates releases videos with all that they were held together with,
\* as exactly the same episodes, whatever each was answered on its own.
THEOREM AssignmentReleasesTogether == Spec => ReleasedTogether
<1>1. [Next]_vars =>
        [\A s \in Claimants(group) :
           stage = "duplicates" /\ Matched(group'[s]) =>
             /\ \E t \in Claimants(group) \ {s} : HeldTogether(s, t, group)
             /\ \A t \in Claimants(group) :
                  HeldTogether(s, t, group) =>
                    Matched(group'[t]) /\ Identities(group'[t]) = Identities(group'[s])]_vars
  BY NextReleasesTogether
<1> QED
  BY <1>1, PTL DEF Spec, ReleasedTogether

\* The same from the name of the folder on: only the recovery assigns a held video.
THEOREM MatchingReleasesTogether == MatchingSpec => ReleasedTogether
<1>1. MatchingInit => MatchingInvariant
  BY MatchingStarts
<1>2. MatchingInvariant /\ [MatchingNext]_matchingVars => MatchingInvariant'
  BY MatchingStep
<1>3. MatchingInvariant /\ [MatchingNext]_matchingVars =>
        [\A s \in Claimants(group) :
           stage = "duplicates" /\ Matched(group'[s]) =>
             /\ \E t \in Claimants(group) \ {s} : HeldTogether(s, t, group)
             /\ \A t \in Claimants(group) :
                  HeldTogether(s, t, group) =>
                    Matched(group'[t]) /\ Identities(group'[t]) = Identities(group'[s])]_vars
  <2> SUFFICES ASSUME MatchingInvariant, [MatchingNext]_matchingVars,
                      NEW s \in Claimants(group), stage = "duplicates", Matched(group'[s]),
                      ~UNCHANGED vars
               PROVE  /\ \E t \in Claimants(group) \ {s} : HeldTogether(s, t, group)
                      /\ \A t \in Claimants(group) :
                           HeldTogether(s, t, group) =>
                             Matched(group'[t]) /\ Identities(group'[t]) = Identities(group'[s])
    OBVIOUS
  <2>1. Next
    BY DEF MatchingNext, matchingVars, ResolveShow, PlanResolved, LeaveUnresolved, AssignEpisodes,
           MatchingInvariant
  <2> QED
    BY <2>1, NextReleasesTogether
<1> QED
  BY <1>1, <1>2, <1>3, PTL DEF MatchingSpec, ReleasedTogether

-------------------------------------------------------------------------------
(* The folder as it would be, were every request answered. *)

\* The world v is the world w without its failures.
Answered(w, v) ==
  /\ v.sources = w.sources /\ v.names = w.names /\ v.years = w.years /\ v.span = w.span
  /\ v.tags = w.tags /\ v.overrides = w.overrides /\ v.hits = w.hits
  /\ v.tmdb = w.tmdb /\ v.titled = w.titled /\ v.score = w.score
  /\ v.year = w.year /\ v.title = w.title /\ v.alias = w.alias /\ v.catalog = w.catalog
  /\ v.changed = w.changed /\ v.failed = {}

LEMMA IdealAnswered ==
  ASSUME NEW w, IsWorld(w)
  PROVE  Answered(w, [w EXCEPT !.failed = {}])
BY DEF IsWorld, Answered

LEMMA NothingFailing ==
  ASSUME NEW w, NEW v, Answered(w, v), NEW kind, NEW of
  PROVE  ~Failing(v, kind, of)
BY DEF Answered, Failing

LEMMA FailingMore ==
  ASSUME NEW w, NEW kind, NEW S, NEW T, S \subseteq T, Failing(w, kind, S)
  PROVE  Failing(w, kind, T)
BY DEF Failing

\* What is searched for is answered in the one world as in the other.
InFull(w, v) == \A q \in Queries : ~Unanswered(w, {q}) => Found(w, q) = Found(v, q)

LEMMA SameSearches ==
  ASSUME NEW w, NEW v, Answered(w, v), InFull(w, v), NEW Q, Q \subseteq Queries, ~Unanswered(w, Q)
  PROVE  Hits(v, Q) = Hits(w, Q) /\ (Conflicting(v, Q) <=> Conflicting(w, Q))
<1>1. \A q \in Q : Found(v, q) = Found(w, q)
  BY DEF InFull, Unanswered
<1>2. Hits(v, Q) = Hits(w, Q)
  BY <1>1 DEF Hits
<1>3. v.changed = w.changed
  BY DEF Answered
<1>4. Conflicting(v, Q) <=> Conflicting(w, Q)
  BY <1>1, <1>3 DEF Conflicting
<1> QED
  BY <1>2, <1>4

LEMMA SameNames ==
  ASSUME NEW w, NEW v, Answered(w, v), InFull(w, v)
  PROVE  /\ Named(v) <=> Named(w)
         /\ ~Unanswered(w, {"title"}) => Searches(v) = Searches(w)
<1>1. Named(v) <=> Named(w)
  BY DEF Answered, Named
<1>2. ~Unanswered(w, {"title"}) => Found(v, "title") = Found(w, "title")
  BY DEF InFull, Queries
<1> QED
  BY <1>1, <1>2 DEF Answered, Searches

LEMMA AllAnswered ==
  ASSUME NEW w, NEW v, Answered(w, v), NEW Q
  PROVE  ~Unanswered(v, Q)
BY NothingFailing DEF Unanswered

LEMMA SameHint ==
  ASSUME NEW w, NEW v, Answered(w, v)
  PROVE  Hint(v) = Hint(w)
BY DEF Answered, Hint

LEMMA SameYearly ==
  ASSUME NEW w, NEW v, Answered(w, v), NEW show, NEW score
  PROVE  Yearly(v, show, score) = Yearly(w, show, score)
<1>1. Hint(v) = Hint(w) /\ v.year = w.year
  BY SameHint DEF Answered
<1> QED
  BY <1>1 DEF Yearly

LEMMA SameTitleScores ==
  ASSUME NEW w, NEW v, Answered(w, v), NEW name, NEW candidates
  PROVE  ByTitle(v, name, candidates) = ByTitle(w, name, candidates)
<1>1. v.score = w.score
  BY DEF Answered
<1>2. \A c \in candidates : Yearly(v, c, v.score[name][c]) = Yearly(w, c, w.score[name][c])
  BY <1>1, SameYearly
<1> QED
  BY <1>2 DEF ByTitle

LEMMA SameAliasScores ==
  ASSUME NEW w, NEW v, Answered(w, v), NEW score, ~Failing(w, "alias", DOMAIN score)
  PROVE  ByAlias(v, score) = ByAlias(w, score)
<1>1. \A c \in DOMAIN score : ~Failing(w, "alias", {c}) /\ ~Failing(v, "alias", {c})
  BY NothingFailing DEF Failing
<1>2. v.alias = w.alias
  BY DEF Answered
<1>3. \A c \in DOMAIN score : Yearly(v, c, v.alias[c]) = Yearly(w, c, w.alias[c])
  BY <1>2, SameYearly
<1> QED
  BY <1>1, <1>2, <1>3 DEF ByAlias

\* A numbering that is one does not depend on a catalog that failed.
LEMMA SameNumbering ==
  ASSUME NEW w, NEW v, Answered(w, v), NEW show,
         Numbering(w, show) \in Modes \/ ~Failing(w, "catalog", {show})
  PROVE  Numbering(v, show) = Numbering(w, show)
<1>1. /\ v.sources = w.sources /\ v.overrides = w.overrides /\ v.catalog = w.catalog
      /\ ~Failing(v, "catalog", {show})
  BY NothingFailing DEF Answered
<1>2. ASSUME NEW S, NEW C, Infer(S, C, FALSE) \in Modes
      PROVE  Infer(S, C, TRUE) = Infer(S, C, FALSE)
  BY <1>2 DEF Infer, InferFrom, Modes, NoMode
<1>3. CASE ~Failing(w, "catalog", {show})
  BY <1>1, <1>3 DEF Numbering
<1>4. CASE Failing(w, "catalog", {show})
  BY <1>1, <1>2, <1>4 DEF Numbering
<1> QED
  BY <1>3, <1>4

-------------------------------------------------------------------------------
(* The ways of deciding: each takes nobody when one that it asks failed. *)

\* What the ways end in.
LEMMA SoleAnswers ==
  ASSUME NEW w, NEW v, Answered(w, v), NEW asked, NEW fitting
  PROVE  IF Failing(w, "catalog", asked) THEN Sole(w, asked, fitting) = {}
         ELSE Sole(w, asked, fitting) = Sole(v, asked, fitting)
<1>1. ~Failing(v, "catalog", asked)
  BY NothingFailing
<1> QED
  BY <1>1 DEF Sole

LEMMA TieBreakAnswers ==
  ASSUME NEW w, NEW v, Answered(w, v), NEW score, NEW m
  PROVE  IF Failing(w, "catalog", Contenders(score)) THEN TieBroken(w, score, m) = {}
         ELSE TieBroken(w, score, m) = TieBroken(v, score, m)
<1> DEFINE K == Contenders(score)
<1>1. v.sources = w.sources /\ v.catalog = w.catalog
  BY DEF Answered
<1>2. {c \in K : Available(v.sources, m, v.catalog[c])} = {c \in K : Available(w.sources, m, w.catalog[c])}
  BY <1>1
<1> HIDE DEF K
<1> QED
  BY <1>2, SoleAnswers DEF TieBroken, K

LEMMA TitlesAnswer ==
  ASSUME NEW w, NEW v, Answered(w, v), NEW score
  PROVE  IF Failing(w, "catalog", Contenders(score)) THEN TieBrokenByTitles(w, score) = {}
         ELSE TieBrokenByTitles(w, score) = TieBrokenByTitles(v, score)
<1> DEFINE K == Contenders(score)
           T == TitledAt(w.sources)
<1>1. v.sources = w.sources /\ v.catalog = w.catalog
  BY DEF Answered
<1>2. {c \in K : \A x \in T : Says(v.catalog[c], x)} = {c \in K : \A x \in T : Says(w.catalog[c], x)}
  BY <1>1
<1>3. TitledAt(v.sources) = T
  BY <1>1
<1>4. ASSUME NEW x
      PROVE  TieBrokenByTitles(x, score) =
               IF ~Tied(score) \/ Cardinality(TitledAt(x.sources)) < LeastTitles THEN {}
               ELSE Sole(x, K, {c \in K : \A y \in TitledAt(x.sources) : Says(x.catalog[c], y)})
  BY DEF TieBrokenByTitles
<1> HIDE DEF K, T
<1>5. TieBrokenByTitles(v, score) =
        IF ~Tied(score) \/ Cardinality(T) < LeastTitles THEN {}
        ELSE Sole(v, K, {c \in K : \A x \in T : Says(w.catalog[c], x)})
  BY <1>2, <1>3, <1>4
<1>6. TieBrokenByTitles(w, score) =
        IF ~Tied(score) \/ Cardinality(T) < LeastTitles THEN {}
        ELSE Sole(w, K, {c \in K : \A x \in T : Says(w.catalog[c], x)})
  BY <1>4 DEF T
<1> QED
  BY <1>5, <1>6, SoleAnswers DEF K

LEMMA CountingAnswers ==
  ASSUME NEW w, NEW v, Answered(w, v), NEW score,
         ~Tied(score) \/ ~Failing(w, "catalog", Contenders(score))
  PROVE  Counting(w, score) = Counting(v, score)
<1> DEFINE K == Contenders(score)
           Repeats(x, c) == ~Failing(x, "catalog", {c}) /\ SegmentProof(x.sources, x.catalog[c]).triggered
<1>1. v.sources = w.sources /\ v.catalog = w.catalog
  BY DEF Answered
<1>2. CASE ~Tied(score)
  BY <1>2 DEF Counting
<1>3. CASE ~Failing(w, "catalog", Contenders(score))
  <2>1. \A c \in K : ~Failing(w, "catalog", {c}) /\ ~Failing(v, "catalog", {c})
    BY <1>3, NothingFailing DEF Failing
  <2>2. {c \in K : Repeats(v, c)} = {c \in K : Repeats(w, c)}
    BY <1>1, <2>1
  <2> QED
    BY <1>1, <2>2 DEF Counting
<1> QED
  BY <1>2, <1>3

LEMMA CountedAnswers ==
  ASSUME NEW w, NEW v, Answered(w, v), NEW score, NEW counting
  PROVE  IF Failing(w, "catalog", Contenders(score)) THEN CountedWinner(w, score, counting) = {}
         ELSE CountedWinner(w, score, counting) = CountedWinner(v, score, counting)
<1>1. v.sources = w.sources /\ v.catalog = w.catalog
  BY DEF Answered
<1> QED
  BY <1>1, SoleAnswers DEF CountedWinner

\* The candidates that are near enough to be decided by a coordinate.
Near(score) == {c \in DOMAIN score : score[c] >= RescueAt}

LEMMA CoordinateAnswers ==
  ASSUME NEW w, NEW v, Answered(w, v), NEW score
  PROVE  IF Failing(w, "catalog", Near(score)) THEN CoordinateWinner(w, score) = {}
         ELSE CoordinateWinner(w, score) = CoordinateWinner(v, score)
<1> DEFINE K == Near(score)
           T == TitledAt(w.sources)
<1>1. v.sources = w.sources /\ v.catalog = w.catalog
  BY DEF Answered
<1>2. {c \in K : \A x \in T : Says(v.catalog[c], x)} = {c \in K : \A x \in T : Says(w.catalog[c], x)}
  BY <1>1
<1>3. TitledAt(v.sources) = T
  BY <1>1
<1>4. ASSUME NEW x
      PROVE  CoordinateWinner(x, score) =
               IF /\ One(x.sources) /\ TitledAt(x.sources) # {} /\ K # {}
                  /\ Kinds(Only(x.sources)) = {"aired"}
               THEN Sole(x, K, {c \in K : \A y \in TitledAt(x.sources) : Says(x.catalog[c], y)})
               ELSE {}
  BY DEF CoordinateWinner, Near
<1> HIDE DEF K, T
<1>5. CoordinateWinner(v, score) =
        IF /\ One(w.sources) /\ T # {} /\ K # {} /\ Kinds(Only(w.sources)) = {"aired"}
        THEN Sole(v, K, {c \in K : \A x \in T : Says(w.catalog[c], x)}) ELSE {}
  BY <1>1, <1>2, <1>3, <1>4
<1>6. CoordinateWinner(w, score) =
        IF /\ One(w.sources) /\ T # {} /\ K # {} /\ Kinds(Only(w.sources)) = {"aired"}
        THEN Sole(w, K, {c \in K : \A x \in T : Says(w.catalog[c], x)}) ELSE {}
  BY <1>4 DEF T
<1> QED
  BY <1>5, <1>6, SoleAnswers DEF K

LEMMA SegmentsAnswer ==
  ASSUME NEW w, NEW v, Answered(w, v), NEW candidates, NEW hints
  PROVE  IF Failing(w, "catalog", candidates) THEN SegmentWinner(w, candidates, hints) = {}
         ELSE SegmentWinner(w, candidates, hints) = SegmentWinner(v, candidates, hints)
<1>1. v.catalog = w.catalog
  BY DEF Answered
<1> QED
  BY <1>1, SoleAnswers DEF SegmentWinner

LEMMA AiredAnswers ==
  ASSUME NEW w, NEW v, Answered(w, v), NEW score
  PROVE  IF Failing(w, "catalog", DOMAIN score) THEN AiredWinner(w, score) = {}
         ELSE AiredWinner(w, score) = AiredWinner(v, score)
<1> DEFINE K == DOMAIN score
           T == AiredCoordinates(w.sources)
<1>1. v.sources = w.sources /\ v.catalog = w.catalog
  BY DEF Answered
<1>2. {c \in K : \A x \in T : At(x[1], x[2], v.catalog[c]) # {}}
        = {c \in K : \A x \in T : At(x[1], x[2], w.catalog[c]) # {}}
  BY <1>1
<1>3. AiredCoordinates(v.sources) = T /\ SegmentTitles(v.sources) = SegmentTitles(w.sources)
  BY <1>1
<1>4. ASSUME NEW x
      PROVE  AiredWinner(x, score) =
               IF Top(score) < RescueAt THEN {}
               ELSE IF Cardinality(AiredCoordinates(x.sources)) < LeastTitles
               THEN SegmentWinner(x, K, SegmentTitles(x.sources))
               ELSE Sole(x, K, {c \in K : \A y \in AiredCoordinates(x.sources) :
                                           At(y[1], y[2], x.catalog[c]) # {}})
  BY DEF AiredWinner
<1> HIDE DEF K, T
<1>5. AiredWinner(v, score) =
        IF Top(score) < RescueAt THEN {}
        ELSE IF Cardinality(T) < LeastTitles THEN SegmentWinner(v, K, SegmentTitles(w.sources))
        ELSE Sole(v, K, {c \in K : \A x \in T : At(x[1], x[2], w.catalog[c]) # {}})
  BY <1>2, <1>3, <1>4
<1>6. AiredWinner(w, score) =
        IF Top(score) < RescueAt THEN {}
        ELSE IF Cardinality(T) < LeastTitles THEN SegmentWinner(w, K, SegmentTitles(w.sources))
        ELSE Sole(w, K, {c \in K : \A x \in T : At(x[1], x[2], w.catalog[c]) # {}})
  BY <1>4 DEF T
<1> QED
  BY <1>5, <1>6, SoleAnswers, SegmentsAnswer DEF K

LEMMA GroupAnswers ==
  ASSUME NEW w, NEW v, Answered(w, v), NEW score, NEW m
  PROVE  IF Failing(w, "catalog", DOMAIN score) THEN GroupWinner(w, score, m) = {}
         ELSE GroupWinner(w, score, m) = GroupWinner(v, score, m)
<1> DEFINE S(x) == x.sources
           K == DOMAIN score
           outcome(x) == [c \in K |->
                    IF m # "segment" THEN Infer(S(x), x.catalog[c], TRUE)
                    ELSE IF SegmentsTitled(S(x), x.catalog[c]) THEN m ELSE NoMode]
           fitting(x) == {c \in K : outcome(x)[c] = m}
           titled(x) == {<<s.season, s.numbers[1], s.hint>> : s \in {t \in S(x) : OneCoordinate(t) /\ HasHint(t)}}
           clear(x) == IF m = "aired" THEN ClearlyTitled(x, fitting(x), titled(x)) ELSE {}
           open(x) == \/ m = NoMode
                      \/ m = "aired" /\ One(K) /\ Cardinality(Values(S(x), m)) < LeastTitles
                      \/ \E c \in K : outcome(x)[c] = "indeterminate"
           picked(x) == IF clear(x) # {} THEN clear(x) ELSE fitting(x)
<1>1. v.sources = w.sources /\ v.catalog = w.catalog
  BY DEF Answered
<1>2. ASSUME NEW x
      PROVE  GroupWinner(x, score, m) = IF open(x) THEN {} ELSE Sole(x, K, picked(x))
  BY DEF GroupWinner
<1>3. outcome(v) = outcome(w)
  BY <1>1
<1>4. fitting(v) = fitting(w)
  <2> HIDE DEF outcome
  <2> QED
    BY <1>3
<1>5. titled(v) = titled(w)
  BY <1>1
<1>6. clear(v) = clear(w)
  <2> HIDE DEF fitting, titled
  <2>1. ASSUME NEW F, NEW T
        PROVE  ClearlyTitled(v, F, T) = ClearlyTitled(w, F, T)
    BY <1>1 DEF ClearlyTitled
  <2> QED
    BY <1>4, <1>5, <2>1
<1>7. open(v) <=> open(w)
  <2> HIDE DEF outcome
  <2> QED
    BY <1>1, <1>3
<1>8. picked(v) = picked(w)
  <2> HIDE DEF clear, fitting
  <2> QED
    BY <1>4, <1>6
<1> HIDE DEF open, picked, K
<1>9. GroupWinner(v, score, m) = IF open(w) THEN {} ELSE Sole(v, K, picked(w))
  BY <1>2, <1>7, <1>8
<1> QED
  BY <1>2, <1>9, SoleAnswers DEF K

-------------------------------------------------------------------------------
(* The ways in order. *)

IsScore(score) == \A c \in DOMAIN score : score[c] \in 0..100

LEMMA TopScore ==
  ASSUME NEW score, IsScore(score), DOMAIN score # {}
  PROVE  Top(score) \in 0..100
<1>1. Range(score) \in SUBSET (0..100) /\ Range(score) # {}
  BY DEF IsScore, Range
<1> QED
  BY <1>1, Largest DEF Top

\* Of a tie every contender is near enough to be decided by a coordinate.
LEMMA ContendersNear ==
  ASSUME NEW score, IsScore(score), Tied(score)
  PROVE  Contenders(score) \subseteq Near(score) /\ Near(score) \subseteq DOMAIN score
<1> SUFFICES ASSUME NEW c \in Contenders(score)
             PROVE  score[c] >= RescueAt
  BY DEF Contenders, Near
<1>1. c \in DOMAIN score /\ Top(score) - score[c] < Gap /\ Top(score) >= SuspectAt
  BY DEF Contenders, Tied
<1>2. score[c] \in 0..100 /\ Top(score) \in 0..100
  BY <1>1, TopScore DEF IsScore
<1> QED
  BY <1>1, <1>2 DEF Gap, SuspectAt, RescueAt

LEMMA WayFields ==
  ASSUME NEW S
  PROVE  Way(S).found = S /\ NoWay.found = {}
BY DEF Way, NoWay

LEMMA SegmentWaysAnswer ==
  ASSUME NEW w, NEW v, Answered(w, v), NEW score, NEW counting
  PROVE  IF Failing(w, "catalog", Contenders(score))
         THEN SegmentWays(w, score, counting).found = {}
         ELSE SegmentWays(w, score, counting) = SegmentWays(v, score, counting)
BY CountedAnswers, TitlesAnswer, WayFields DEF SegmentWays, OrElse

LEMMA TieBreakWaysAnswer ==
  ASSUME NEW w, NEW v, Answered(w, v), NEW score, NEW m
  PROVE  IF Failing(w, "catalog", Contenders(score))
         THEN TieBreakWays(w, score, m).found = {}
         ELSE TieBreakWays(w, score, m) = TieBreakWays(v, score, m)
BY TieBreakAnswers, TitlesAnswer, WayFields DEF TieBreakWays, OrElse, When

\* A rescue by the catalogs of the near candidates may decide although a catalog of
\* the others failed.
LEMMA AiredWaysAnswer ==
  ASSUME NEW w, NEW v, Answered(w, v), NEW score
  PROVE  /\ Failing(w, "catalog", Near(score)) => AiredWays(w, score).found = {}
         /\ AiredWays(w, score).found # {} => AiredWays(w, score) = AiredWays(v, score)
         /\ ~Failing(w, "catalog", DOMAIN score) => AiredWays(w, score) = AiredWays(v, score)
<1>1. Near(score) \subseteq DOMAIN score
  BY DEF Near
<1>2. Failing(w, "catalog", Near(score)) => Failing(w, "catalog", DOMAIN score)
  BY <1>1, FailingMore
<1> QED
  BY <1>2, CoordinateAnswers, AiredAnswers, WayFields DEF AiredWays, OrElse

LEMMA GroupWaysAnswer ==
  ASSUME NEW w, NEW v, Answered(w, v), NEW score, NEW m
  PROVE  IF Failing(w, "catalog", DOMAIN score) THEN GroupWays(w, score, m).found = {}
         ELSE GroupWays(w, score, m) = GroupWays(v, score, m)
BY GroupAnswers DEF GroupWays

\* Whom the ways find, they would have found with every answer.
LEMMA StructuralAnswers ==
  ASSUME NEW w, NEW v, Answered(w, v), NEW score, IsScore(score), NEW m,
         NEW counting, NEW ideally, NEW tried,
         tried \/ counting # {} \/ ideally # {} => Tied(score),
         ~Tied(score) \/ ~Failing(w, "catalog", Contenders(score)) => counting = ideally
  PROVE  LET x == Structural(w, score, m, counting, tried)
             y == Structural(v, score, m, ideally, tried)
         IN /\ x.found # {} => x = y
            /\ ~Failing(w, "catalog", DOMAIN score) => x = y
<1> DEFINE x == Structural(w, score, m, counting, tried)
           y == Structural(v, score, m, ideally, tried)
           named == Cardinality({s \in w.sources : OneCoordinate(s) /\ HasHint(s)}) >= 2
           first(u) == When(tried, TieBreakWays(u, score, m))
           second(u) == When(m = "aired", AiredWays(u, score))
           third(u) == When(~tried \/ named, GroupWays(u, score, GroupMode(w.sources)))
<1>1. v.sources = w.sources
  BY DEF Answered
<1>2. x = IF counting # {} THEN SegmentWays(w, score, counting)
          ELSE OrElse(OrElse(first(w), second(w)), third(w))
  BY DEF Structural
<1>3. y = IF ideally # {} THEN SegmentWays(v, score, ideally)
          ELSE OrElse(OrElse(first(v), second(v)), third(v))
  BY <1>1 DEF Structural
<1>4. Contenders(score) \subseteq DOMAIN score
  BY DEF Contenders
<1>5. Failing(w, "catalog", DOMAIN score) => third(w).found = {}
  BY GroupWaysAnswer, WayFields DEF When
<1>6. ~Failing(w, "catalog", DOMAIN score) => third(w) = third(v)
  BY GroupWaysAnswer DEF When
<1>7. /\ second(w).found # {} => second(w) = second(v)
      /\ ~Failing(w, "catalog", DOMAIN score) => second(w) = second(v)
      /\ Failing(w, "catalog", Near(score)) => second(w).found = {}
  BY AiredWaysAnswer, WayFields DEF When
<1>8. CASE Tied(score) /\ Failing(w, "catalog", Contenders(score))
  <2>1. Failing(w, "catalog", Near(score)) /\ Failing(w, "catalog", DOMAIN score)
    BY <1>4, <1>8, ContendersNear, FailingMore
  <2>2. first(w).found = {}
    BY <1>8, TieBreakWaysAnswer, WayFields DEF When
  <2>3. SegmentWays(w, score, counting).found = {}
    BY <1>8, SegmentWaysAnswer
  <2> HIDE DEF first, second, third, x, y
  <2>4. x.found = {}
    BY <1>2, <1>5, <1>7, <2>1, <2>2, <2>3 DEF OrElse
  <2> QED
    BY <2>1, <2>4 DEF x, y
<1>9. CASE ~Tied(score) \/ ~Failing(w, "catalog", Contenders(score))
  <2>1. counting = ideally
    BY <1>9
  <2>2. CASE counting # {}
    BY <1>2, <1>3, <1>9, <2>1, <2>2, SegmentWaysAnswer
  <2>3. CASE counting = {}
    <3>1. first(w) = first(v)
      BY <1>9, TieBreakWaysAnswer DEF When
    <3> HIDE DEF first, second, third
    <3>2. /\ x = OrElse(OrElse(first(w), second(w)), third(w))
          /\ y = OrElse(OrElse(first(v), second(v)), third(v))
      BY <1>2, <1>3, <2>1, <2>3
    <3> HIDE DEF x, y
    <3> QED
      BY <1>5, <1>6, <1>7, <3>1, <3>2 DEF OrElse, x, y
  <2> QED
    BY <2>2, <2>3
<1> QED
  BY <1>8, <1>9

-------------------------------------------------------------------------------
(* The resolution by one name. *)

\* All of the requests that failed are searches.
OnlySearches(w) == \A r \in w.failed : r[1] \notin {"alias", "catalog"}

LEMMA SearchesOnly ==
  ASSUME NEW w, OnlySearches(w), NEW kind \in {"alias", "catalog"}, NEW of
  PROVE  ~Failing(w, kind, of)
BY DEF OnlySearches, Failing

\* A way that finds the same show finds it with the same numbering.
LEMMA SettledAnswers ==
  ASSUME NEW w, NEW v, Answered(w, v), NEW score, NEW counting, NEW ideally, NEW x, NEW y,
         x.found # {} => x = y
  PROVE  LET a == Settle(w, score, counting, x)
             d == Settle(v, score, ideally, y)
         IN /\ a.status = "matched" => a = d
            /\ OnlySearches(w) /\ x = y /\ counting = ideally => a = d
<1> DEFINE a == Settle(w, score, counting, x)
           d == Settle(v, score, ideally, y)
           show == Only(x.found)
           m(u) == IF x.mode = NoMode THEN Numbering(u, show) ELSE x.mode
<1>1. ASSUME a.status = "matched"
      PROVE  a = d
  <2>1. x.found # {} /\ x = y
    BY <1>1, HeldResult DEF Settle
  <2>2. a = WithNumbering(show, m(w), score) /\ d = WithNumbering(show, m(v), score)
    BY <2>1 DEF Settle
  <2>3. m(w) \in Modes
    BY <1>1, <2>2, UndecidedResult DEF WithNumbering
  <2>4. m(v) = m(w)
    BY <2>3, SameNumbering
  <2> HIDE DEF a, d, m, show
  <2> QED
    BY <2>2, <2>4
<1>2. ASSUME OnlySearches(w), x = y, counting = ideally
      PROVE  a = d
  <2>1. m(v) = m(w)
    BY <1>2, SearchesOnly, SameNumbering
  <2>2. a = IF x.found = {} THEN Held(score, counting) ELSE WithNumbering(show, m(w), score)
    BY DEF Settle
  <2>3. d = IF x.found = {} THEN Held(score, counting) ELSE WithNumbering(show, m(v), score)
    BY <1>2 DEF Settle
  <2> HIDE DEF a, d, m, show
  <2> QED
    BY <2>1, <2>2, <2>3
<1> QED
  BY <1>1, <1>2

\* What the scores decide when no alias failed, and when one did.
Unblocked(w, score, m, counting) == ByScores(w, score, FALSE, m, counting)
Blocked(w, score, m, counting) == ByScores(w, score, TRUE, m, counting)

\* By equal scores a matched show is the ideal one.
LEMMA ScoresAnswer ==
  ASSUME NEW w, NEW v, Answered(w, v), NEW score, IsScore(score), NEW m,
         NEW counting, NEW ideally,
         counting # {} \/ ideally # {} => Tied(score),
         ~Tied(score) \/ ~Failing(w, "catalog", Contenders(score)) => counting = ideally
  PROVE  LET a == Unblocked(w, score, m, counting)
             d == Unblocked(v, score, m, ideally)
         IN /\ a.status = "matched" => a = d
            /\ OnlySearches(w) => a = d
<1> DEFINE tried == Tied(score) /\ Evident(w.sources, m)
           way(u, c) == IF Decisive(score) THEN Way(Contenders(score))
                        ELSE Structural(u, score, m, c, tried)
           x == way(w, counting)
           y == way(v, ideally)
           a == Unblocked(w, score, m, counting)
           d == Unblocked(v, score, m, ideally)
<1>1. v.sources = w.sources
  BY DEF Answered
<1>2. a = Settle(w, score, counting, x) /\ d = Settle(v, score, ideally, y)
  BY <1>1 DEF Unblocked, ByScores
<1>3. /\ Structural(w, score, m, counting, tried).found # {}
           => Structural(w, score, m, counting, tried) = Structural(v, score, m, ideally, tried)
      /\ ~Failing(w, "catalog", DOMAIN score)
           => Structural(w, score, m, counting, tried) = Structural(v, score, m, ideally, tried)
  <2>1. tried \/ counting # {} \/ ideally # {} => Tied(score)
    OBVIOUS
  <2> HIDE DEF tried
  <2> QED
    BY <2>1, StructuralAnswers
<1>4. (x.found # {} => x = y) /\ (OnlySearches(w) => x = y /\ counting = ideally)
  BY <1>3, SearchesOnly
<1> HIDE DEF a, d, x, y
<1>5. (a.status = "matched" => a = d) /\ (OnlySearches(w) => a = d)
  BY <1>2, <1>4, SettledAnswers
<1> QED
  BY <1>5 DEF a, d

LEMMA BlockedUnmatched ==
  ASSUME NEW w, NEW score, NEW m, NEW counting
  PROVE  Blocked(w, score, m, counting).status # "matched"
<1>1. Blocked(w, score, m, counting) = Held(score, {})
  BY WayFields DEF Blocked, ByScores, Settle
<1> QED
  BY <1>1, HeldResult

\* A failed alias that could have changed the scores blocks the decision.
LEMMA AliasesAnswer ==
  ASSUME NEW w, NEW v, Answered(w, v), NEW title, IsScore(title), IsScore(ByAlias(w, title)),
         NEW weak \in BOOLEAN
  PROVE  LET a == WithAliases(w, title, weak)
             d == WithAliases(v, title, weak)
         IN /\ a.status = "matched" => a = d
            /\ OnlySearches(w) => a = d
<1> DEFINE score(u) == IF weak THEN ByAlias(u, title) ELSE title
           m == ExpectedMode(w)
           counting(u, s) == IF m = "aired" THEN Counting(u, s) ELSE {}
           a == WithAliases(w, title, weak)
           d == WithAliases(v, title, weak)
<1>1. ExpectedMode(v) = m
  BY DEF ExpectedMode, Answered
<1>2. ~Failing(v, "alias", DOMAIN title)
  BY NothingFailing
<1>3. d = Unblocked(v, score(v), m, counting(v, score(v)))
  BY <1>1, <1>2 DEF WithAliases, Unblocked
<1>4. CASE weak /\ Failing(w, "alias", DOMAIN title)
  <2>1. a = Blocked(w, score(w), m, counting(w, score(w)))
    BY <1>4 DEF WithAliases, Blocked
  <2>2. ~OnlySearches(w)
    BY <1>4, SearchesOnly
  <2> HIDE DEF a
  <2>3. a.status # "matched"
    BY <2>1, BlockedUnmatched
  <2> QED
    BY <2>2, <2>3 DEF a
<1>5. CASE ~(weak /\ Failing(w, "alias", DOMAIN title))
  <2> DEFINE s == score(w)
             really == counting(w, s)
             ideally == counting(v, s)
  <2>1. a = Unblocked(w, s, m, really)
    BY <1>5 DEF WithAliases, Unblocked
  <2>2. score(v) = s
    BY <1>5, SameAliasScores
  <2>3. d = Unblocked(v, s, m, ideally)
    <3> HIDE DEF s, d, counting, score
    <3> QED
      BY <1>3, <2>2 DEF ideally
  <2>4. IsScore(s)
    OBVIOUS
  <2>5. really # {} \/ ideally # {} => Tied(s)
    BY DEF Counting
  <2>6. ~Tied(s) \/ ~Failing(w, "catalog", Contenders(s)) => really = ideally
    <3> HIDE DEF s
    <3> QED
      BY CountingAnswers
  <2> HIDE DEF a, d, s, m, really, ideally
  <2>7. (a.status = "matched" => a = d) /\ (OnlySearches(w) => a = d)
    BY <2>1, <2>3, <2>4, <2>5, <2>6, ScoresAnswer
  <2> QED
    BY <2>7 DEF a, d
<1> QED
  BY <1>4, <1>5

LEMMA SmallerScore ==
  ASSUME NEW x \in 0..200, NEW y \in 0..100
  PROVE  Min({x, y}) \in 0..100
<1>1. {x, y} \in SUBSET Nat /\ {x, y} # {}
  OBVIOUS
<1>2. Min({x, y}) \in {x, y} /\ Min({x, y}) <= y
  BY <1>1, Smallest
<1> QED
  BY <1>2

LEMMA YearlyScore ==
  ASSUME NEW w, NEW show, NEW score \in 0..100
  PROVE  Yearly(w, show, score) \in 0..100
<1>1. {100, score + 10} = {score + 10, 100}
  OBVIOUS
<1>2. Min({100, score + 10}) \in 0..100
  <2>1. score + 10 \in 0..200 /\ 100 \in 0..100
    OBVIOUS
  <2>2. Min({score + 10, 100}) \in 0..100
    BY <2>1, SmallerScore
  <2> QED
    BY <1>1, <2>2
<1>3. Min({score, 79}) \in 0..100
  <2>1. score \in 0..200 /\ 79 \in 0..100
    OBVIOUS
  <2> QED
    BY <2>1, SmallerScore
<1>4. Min({(score * 45) \div 100, 45}) \in 0..100
  <2> DEFINE part == (score * 45) \div 100
  <2>1. part \in 0..200 /\ 45 \in 0..100
    OBVIOUS
  <2> HIDE DEF part
  <2>2. Min({part, 45}) \in 0..100
    BY <2>1, SmallerScore
  <2> QED
    BY <2>2 DEF part
<1> QED
  BY <1>2, <1>3, <1>4 DEF Yearly

\* The resolution by one name does not take failures for evidence.
LEMMA EvidenceAnswers ==
  ASSUME NEW w, IsWorld(w), NEW v, Answered(w, v), NEW name \in Queries,
         NEW candidates, candidates \subseteq Searchable(w)
  PROVE  LET a == ByEvidence(w, name, candidates)
             d == ByEvidence(v, name, candidates)
         IN /\ a.status = "matched" => a = d
            /\ OnlySearches(w) => a = d
<1> DEFINE title == ByTitle(w, name, candidates)
           weak == Top(title) < MatchAt
<1>1. IsScore(title)
  <2>1. \A c \in candidates : w.score[name][c] \in 0..100
    BY DEF IsWorld
  <2>2. \A c \in candidates : title[c] \in 0..100
    BY <2>1, YearlyScore DEF ByTitle
  <2>3. DOMAIN title = candidates
    BY DEF ByTitle
  <2> HIDE DEF title
  <2> QED
    BY <2>2, <2>3 DEF IsScore
<1>2. DOMAIN title = candidates
  BY DEF ByTitle
<1>3. IsScore(ByAlias(w, title))
  <2> HIDE DEF title
  <2>1. ASSUME NEW c \in candidates
        PROVE  ByAlias(w, title)[c] \in 0..100
    <3>1. title[c] \in 0..100 /\ w.alias[c] \in 0..100
      BY <1>1, <1>2 DEF IsScore, IsWorld
    <3>2. Yearly(w, c, w.alias[c]) \in 0..100
      BY <3>1, YearlyScore
    <3> DEFINE S == {title[c], Yearly(w, c, w.alias[c])}
    <3>3. S \in SUBSET (0..100) /\ S # {}
      BY <3>1, <3>2
    <3>4. Max(S) \in S
      BY <3>3, Largest
    <3>5. ByAlias(w, title)[c] \in {title[c], Max(S)}
      BY <1>2 DEF ByAlias
    <3> HIDE DEF S
    <3> QED
      BY <3>1, <3>3, <3>4, <3>5
  <2>2. DOMAIN ByAlias(w, title) = candidates
    BY <1>2 DEF ByAlias
  <2> QED
    BY <2>1, <2>2 DEF IsScore
<1>4. ByTitle(v, name, candidates) = title /\ v.years = w.years
  BY SameTitleScores DEF Answered
<1>5. weak \in BOOLEAN
  OBVIOUS
<1>6. /\ WithAliases(w, title, weak).status = "matched"
            => WithAliases(w, title, weak) = WithAliases(v, title, weak)
      /\ OnlySearches(w) => WithAliases(w, title, weak) = WithAliases(v, title, weak)
  <2> HIDE DEF title, weak
  <2> QED
    BY <1>1, <1>3, <1>5, AliasesAnswer
<1>7. /\ ByEvidence(w, name, candidates) =
           IF Many(w.years) THEN Refused ELSE WithAliases(w, title, weak)
      /\ ByEvidence(v, name, candidates) =
           IF Many(w.years) THEN Refused ELSE WithAliases(v, title, weak)
  BY <1>4 DEF ByEvidence, Weighed
<1>8. Refused.status # "matched"
  BY UndecidedResult DEF Refused
<1> HIDE DEF title, weak
<1> QED
  BY <1>6, <1>7, <1>8

\* Among whatever candidates were found, the core resolution by one name that matches a
\* show although requests for aliases and catalogs failed matches the one that it would
\* match with all of them answered, with the same numbering.
THEOREM EvidenceDecides ==
  ASSUME NEW w, IsWorld(w), NEW name \in Queries, NEW candidates, candidates \subseteq Searchable(w),
         ByEvidence(w, name, candidates).status = "matched"
  PROVE  ByEvidence(w, name, candidates) = ByEvidence([w EXCEPT !.failed = {}], name, candidates)
BY IdealAnswered, EvidenceAnswers

-------------------------------------------------------------------------------
(* The retries, taken by the folder as it is and as it would be. *)

\* Whose failures do not make a half of a pair, or a year, decide alone.
Comparable(w) == "first" \in w.names \/ w.span # {} => OnlySearches(w)

\* A result that every answer would have left as it is: one that is matched, and with
\* complete evidence of the candidates also one that is left in doubt.
Binding(w, r) ==
  \/ r.status = "matched" /\ Comparable(w)
  \/ r.status # "unresolved" /\ OnlySearches(w)

Agree(w, actual, ideal) ==
  actual.asked = ideal.asked /\ Binding(w, actual.result) => actual.result = ideal.result

LEMMA ResolvedAnswers ==
  ASSUME NEW w, NEW v, Answered(w, v), NEW show, NEW score
  PROVE  LET a == Resolved(w, show, score)
             d == Resolved(v, show, score)
         IN /\ a.status = "matched" => a = d
            /\ OnlySearches(w) => a = d
<1>1. Resolved(w, show, score).status = "matched" => Numbering(w, show) \in Modes
  BY UndecidedResult DEF Resolved, WithNumbering
<1>2. OnlySearches(w) => ~Failing(w, "catalog", {show})
  BY SearchesOnly
<1> QED
  BY <1>1, <1>2, SameNumbering DEF Resolved

LEMMA HitsWithin ==
  ASSUME NEW w, NEW Q, Q \subseteq Queries
  PROVE  Hits(w, Q) \subseteq Searchable(w)
<1>1. \A q \in Queries : Consensus(w, q) \subseteq w.hits[q]
  BY DEF Consensus
<1>2. \A q \in Queries : Recovered(w, q) \subseteq Searchable(w)
  BY DEF Recovered, TmdbTitles, Searchable
<1>3. \A q \in Queries : Found(w, q) \subseteq Searchable(w)
  BY <1>1, <1>2 DEF Found, Searchable
<1> QED
  BY <1>3 DEF Hits

LEMMA EvidenceBinds ==
  ASSUME NEW w, IsWorld(w), NEW v, Answered(w, v), InFull(w, v), NEW name \in Queries,
         NEW Q, Q \subseteq Queries, ~Unanswered(w, Q),
         Binding(w, ByEvidence(w, name, Hits(w, Q)))
  PROVE  ByEvidence(v, name, Hits(v, Q)) = ByEvidence(w, name, Hits(w, Q))
<1>1. Hits(v, Q) = Hits(w, Q) /\ Hits(w, Q) \subseteq Searchable(w)
  BY SameSearches, HitsWithin
<1> QED
  BY <1>1, EvidenceAnswers DEF Binding

\* The core resolution of both folders.
LEMMA CoreAgrees ==
  ASSUME NEW w, IsWorld(w), NEW v, Answered(w, v), InFull(w, v)
  PROVE  Agree(w, First(w), First(v))
<1> DEFINE overridden(u) == {o.show : o \in u.overrides} \ {NoShow}
           explicit == w.tags \cup overridden(w)
           Q == Searches(w)
           R == Searches(v)
           contradictory == \/ Many(w.years) \/ Many(w.overrides) \/ Many(explicit)
                            \/ \E o \in w.overrides : o.year # NoYear /\ w.years \ {o.year} # {}
           a == CoreResolution(w)
           d == CoreResolution(v)
<1>1. v.tags = w.tags /\ v.overrides = w.overrides /\ v.years = w.years /\ ~Unanswered(v, R)
  BY AllAnswered DEF Answered
<1>2. a = IF contradictory THEN Refused
          ELSE IF explicit # {} THEN Resolved(w, Only(explicit), <<>>)
          ELSE IF Unanswered(w, Q) \/ Conflicting(w, Q) \/ Hits(w, Q) = {} THEN Refused
          ELSE ByEvidence(w, "title", Hits(w, Q))
  BY DEF CoreResolution
<1>3. d = IF contradictory THEN Refused
          ELSE IF explicit # {} THEN Resolved(v, Only(explicit), <<>>)
          ELSE IF Conflicting(v, R) \/ Hits(v, R) = {} THEN Refused
          ELSE ByEvidence(v, "title", Hits(v, R))
  BY <1>1 DEF CoreResolution
<1>4. Refused.status = "unresolved"
  BY UndecidedResult DEF Refused
<1>5. Q \subseteq Queries /\ "title" \in Queries /\ "title" \in Q
  BY DEF Searches, Queries
<1>6. ~Unanswered(w, Q) =>
        R = Q /\ Hits(v, Q) = Hits(w, Q) /\ (Conflicting(v, Q) <=> Conflicting(w, Q))
  <2>1. ~Unanswered(w, Q) => ~Unanswered(w, {"title"})
    BY <1>5 DEF Unanswered
  <2> HIDE DEF Q
  <2>2. ~Unanswered(w, Q) => Hits(v, Q) = Hits(w, Q) /\ (Conflicting(v, Q) <=> Conflicting(w, Q))
    BY <1>5, SameSearches
  <2>3. ~Unanswered(w, Q) => R = Q
    BY <2>1, SameNames DEF Q
  <2> QED
    BY <2>2, <2>3
<1> HIDE DEF a, d, contradictory, explicit, Q, R
<1>7. ASSUME Binding(w, a)
      PROVE  a = d
  <2>1. CASE contradictory
    BY <1>2, <1>3, <2>1
  <2>2. CASE ~contradictory /\ explicit # {}
    <3>1. a = Resolved(w, Only(explicit), <<>>) /\ d = Resolved(v, Only(explicit), <<>>)
      BY <1>2, <1>3, <2>2
    <3> QED
      BY <1>7, <3>1, ResolvedAnswers DEF Binding
  <2>3. CASE ~contradictory /\ explicit = {}
    <3>1. a.status # "unresolved"
      BY <1>7 DEF Binding
    <3>2. ~Unanswered(w, Q) /\ ~Conflicting(w, Q) /\ Hits(w, Q) # {}
      BY <1>2, <1>4, <2>3, <3>1
    <3>3. a = ByEvidence(w, "title", Hits(w, Q)) /\ d = ByEvidence(v, "title", Hits(v, Q))
      BY <1>2, <1>3, <1>6, <2>3, <3>2
    <3> QED
      BY <1>5, <1>7, <3>2, <3>3, EvidenceBinds
  <2> QED
    BY <2>1, <2>2, <2>3
<1> QED
  BY <1>7 DEF Agree, First, a, d

\* The halves of a pair: one may decide alone, unless only searches failed.
LEMMA ParentheticalAgrees ==
  ASSUME NEW w, IsWorld(w), NEW v, Answered(w, v), InFull(w, v), NEW A, IsRun(A), NEW D, IsRun(D),
         A.asked = {"title"}, D.asked = {"title"}, Agree(w, A, D)
  PROVE  Agree(w, Parenthetical(w, A), Parenthetical(v, D))
<1> DEFINE Q == {"title", "first", "second"}
           halves(u) == {ByEvidence(u, name, Hits(u, Q)) : name \in {"first", "second"}}
           p == Parenthetical(w, A)
           q == Parenthetical(v, D)
<1>1. v.names = w.names /\ (Named(v) <=> Named(w)) /\ ~Unanswered(v, Q)
  BY SameNames, AllAnswered DEF Answered
<1>2. p = IF ~Unmatched(A) \/ Named(w) \/ "first" \notin w.names THEN A
          ELSE IF Unanswered(w, Q) \/ Conflicting(w, Q) THEN Unresolve(A)
          ELSE IF Hits(w, Q) = {} THEN A
          ELSE [asked |-> Q, result |-> Agreed(halves(w), A.result)]
  BY DEF Parenthetical
<1>3. q = IF ~Unmatched(D) \/ Named(w) \/ "first" \notin w.names THEN D
          ELSE IF Conflicting(v, Q) THEN Unresolve(D)
          ELSE IF Hits(v, Q) = {} THEN D
          ELSE [asked |-> Q, result |-> Agreed(halves(v), D.result)]
  BY <1>1 DEF Parenthetical
<1>4. Q # {"title"} /\ Q \subseteq Queries /\ {"first", "second"} \subseteq Queries
  BY DEF Queries
<1>5. ~Unanswered(w, Q) => Hits(v, Q) = Hits(w, Q) /\ (Conflicting(v, Q) <=> Conflicting(w, Q))
  <2> HIDE DEF Q
  <2> QED
    BY <1>4, SameSearches
<1>6. OnlySearches(w) /\ ~Unanswered(w, Q) => halves(v) = halves(w)
  <2> SUFFICES ASSUME OnlySearches(w), ~Unanswered(w, Q)
               PROVE  halves(v) = halves(w)
    OBVIOUS
  <2> HIDE DEF Q
  <2>1. Hits(w, Q) \subseteq Searchable(w) /\ Hits(v, Q) = Hits(w, Q)
    BY <1>4, <1>5, HitsWithin
  <2>2. \A name \in {"first", "second"} :
          ByEvidence(v, name, Hits(v, Q)) = ByEvidence(w, name, Hits(w, Q))
    BY <1>4, <2>1, EvidenceAnswers
  <2> QED
    BY <2>2
<1>7. Unresolve(A).result.status = "unresolved" /\ Unresolve(D).asked = D.asked
  BY UnresolvedRun
<1>8. Binding(w, A.result) => A.result = D.result
  BY DEF Agree
<1> HIDE DEF p, q, Q, halves
<1>9. ASSUME p.asked = q.asked, Binding(w, p.result)
      PROVE  p.result = q.result
  <2>1. CASE "first" \notin w.names
    BY <1>2, <1>3, <1>8, <1>9, <2>1
  <2>2. CASE "first" \in w.names
    <3>1. OnlySearches(w) /\ p.result.status # "unresolved"
      BY <1>9, <2>2 DEF Binding, Comparable
    <3>2. A.result.status # "unresolved" => A.result = D.result
      BY <1>8, <3>1 DEF Binding
    <3>3. CASE ~Unmatched(A) \/ Named(w)
      BY <1>2, <1>3, <3>1, <3>2, <3>3 DEF Unmatched
    <3>4. CASE Unmatched(A) /\ ~Named(w)
      <4>1. ~Unanswered(w, Q) /\ ~Conflicting(w, Q)
        BY <1>2, <1>7, <2>2, <3>1, <3>4
      <4>2. CASE Hits(w, Q) = {}
        BY <1>2, <1>3, <1>5, <2>2, <3>1, <3>2, <3>4, <4>1, <4>2
      <4>3. CASE Hits(w, Q) # {}
        <5>1. p = [asked |-> Q, result |-> Agreed(halves(w), A.result)]
          BY <1>2, <2>2, <3>4, <4>1, <4>3
        <5>2. q = [asked |-> Q, result |-> Agreed(halves(v), D.result)]
          BY <1>3, <1>4, <1>9, <1>5, <2>2, <4>1, <4>3, <5>1
        <5>3. p.result = Agreed(halves(w), A.result) /\ q.result = Agreed(halves(w), D.result)
          BY <1>6, <3>1, <4>1, <5>1, <5>2
        <5>4. Agreed(halves(w), A.result) = A.result
                \/ Agreed(halves(w), A.result) = Agreed(halves(w), D.result)
          BY DEF Agreed
        <5> QED
          BY <3>1, <3>2, <5>3, <5>4
      <4> QED
        BY <4>2, <4>3
    <3> QED
      BY <3>3, <3>4
  <2> QED
    BY <2>1, <2>2
<1> QED
  BY <1>9 DEF Agree, p, q

\* The words joined: a run that did not ask has not asked by the same searches.
LEMMA JoinedWordsAgrees ==
  ASSUME NEW w, IsWorld(w), NEW v, Answered(w, v), InFull(w, v), NEW A, NEW D,
         A.asked \subseteq Queries \ {"joined"}, D.asked \subseteq Queries \ {"joined"},
         Agree(w, A, D)
  PROVE  Agree(w, JoinedWords(w, A), JoinedWords(v, D))
<1> DEFINE Q(run) == run.asked \cup {"joined"}
           Taken(u, run) == [result |-> ByEvidence(u, "title", Hits(u, Q(run))), asked |-> Q(run)]
           p == JoinedWords(w, A)
           q == JoinedWords(v, D)
<1>1. /\ p = A \/ (p = Taken(w, A) /\ ~Unanswered(w, Q(A)))
      /\ q \in {D, Taken(v, D)}
  BY DEF JoinedWords
<1>2. ASSUME NEW u, NEW run
      PROVE  /\ Taken(u, run).asked = run.asked \cup {"joined"}
             /\ Taken(u, run).result = ByEvidence(u, "title", Hits(u, run.asked \cup {"joined"}))
  OBVIOUS
<1> HIDE DEF p, q, Taken
<1>3. ASSUME p.asked = q.asked, Binding(w, p.result)
      PROVE  p.result = q.result
  <2>1. CASE p = Taken(w, A) /\ ~Unanswered(w, Q(A)) /\ q = Taken(v, D)
    <3> DEFINE R == A.asked \cup {"joined"}
    <3>1. D.asked \cup {"joined"} = R
      BY <1>2, <1>3, <2>1
    <3>2. R \subseteq Queries /\ "title" \in Queries /\ ~Unanswered(w, R)
      BY <2>1 DEF Queries
    <3>3. p.result = ByEvidence(w, "title", Hits(w, R)) /\ q.result = ByEvidence(v, "title", Hits(v, R))
      BY <1>2, <2>1, <3>1
    <3> HIDE DEF R
    <3> QED
      BY <1>3, <3>2, <3>3, EvidenceBinds
  <2>2. CASE p = A /\ q = D
    BY <1>3, <2>2 DEF Agree
  <2>3. CASE p = Taken(w, A) /\ q = D
    BY <1>2, <1>3, <2>3
  <2>4. CASE p = A /\ q = Taken(v, D)
    BY <1>2, <1>3, <2>4
  <2> QED
    BY <1>1, <2>1, <2>2, <2>3, <2>4
<1> QED
  BY <1>3 DEF Agree, p, q

LEMMA ConfirmedAnswers ==
  ASSUME NEW w, NEW v, Answered(w, v), NEW r, NEW least, NEW a, NEW d,
         Confirmed(w, r, least, a) # a
  PROVE  Confirmed(w, r, least, a) = r /\ Confirmed(v, r, least, d) = r
<1>1. v.sources = w.sources /\ v.catalog = w.catalog /\ ~Failing(v, "catalog", {r.show})
  BY NothingFailing DEF Answered
<1> QED
  BY <1>1 DEF Confirmed

\* A retry by another name, p of A and q of D.
LEMMA OtherNameAgrees ==
  ASSUME NEW w, IsWorld(w), NEW v, Answered(w, v), InFull(w, v), NEW A, IsRun(A), NEW D, IsRun(D),
         NEW name \in Queries, NEW least,
         A.asked \subseteq Queries \ {name}, D.asked \subseteq Queries \ {name}, Agree(w, A, D),
         NEW p \in {A, ByOtherName(w, A, name, least)}, NEW q \in {D, ByOtherName(v, D, name, least)},
         p # A => A.result.status = "unresolved", q # D => D.result.status = "unresolved"
  PROVE  Agree(w, p, q)
<1> DEFINE E(u, Q) == ByEvidence(u, name, Hits(u, Q))
           Taken(u, run) == [asked |-> run.asked \cup {name},
                             result |-> Confirmed(u, E(u, run.asked \cup {name}), least, run.result)]
<1>1. /\ p \in {A, Unresolve(A)} \/ (p = Taken(w, A) /\ ~Unanswered(w, A.asked \cup {name}))
      /\ q \in {D, Unresolve(D), Taken(v, D)}
  BY DEF ByOtherName
<1>2. ASSUME NEW u, NEW run
      PROVE  /\ Taken(u, run).asked = run.asked \cup {name}
             /\ Taken(u, run).result = Confirmed(u, E(u, run.asked \cup {name}), least, run.result)
  OBVIOUS
<1>3. Unresolve(A).result.status = "unresolved" /\ Unresolve(D).asked = D.asked
  BY UnresolvedRun
<1> HIDE DEF Taken, E
<1>4. ASSUME p.asked = q.asked, Binding(w, p.result)
      PROVE  p.result = q.result
  <2>1. p.result.status # "unresolved"
    BY <1>4 DEF Binding
  <2>2. CASE p = A
    <3>1. q # Taken(v, D)
      BY <1>2, <1>4, <2>2
    <3>2. D.asked = A.asked
      BY <1>1, <1>3, <1>4, <2>2, <3>1
    <3>3. A.result = D.result
      BY <1>4, <2>2, <3>2 DEF Agree
    <3>4. q = D
      BY <2>1, <2>2, <3>3
    <3> QED
      BY <2>2, <3>3, <3>4
  <2>3. CASE p = Taken(w, A) /\ ~Unanswered(w, A.asked \cup {name}) /\ p # A
    <3> DEFINE R == A.asked \cup {name}
    <3>1. name \in q.asked
      BY <1>2, <1>4, <2>3
    <3>2. q = Taken(v, D)
      BY <1>1, <1>3, <3>1
    <3>3. D.asked \cup {name} = R /\ R \subseteq Queries
      BY <1>2, <1>4, <2>3, <3>2
    <3>4. /\ p.result = Confirmed(w, E(w, R), least, A.result)
          /\ q.result = Confirmed(v, E(v, R), least, D.result)
      BY <1>2, <2>3, <3>2, <3>3
    <3>5. p.result # A.result
      BY <2>1, <2>3
    <3>8. ~Unanswered(w, R)
      BY <2>3
    <3> HIDE DEF R
    <3>6. p.result = E(w, R) /\ Confirmed(v, E(w, R), least, D.result) = E(w, R)
      BY <3>4, <3>5, ConfirmedAnswers
    <3>7. E(v, R) = E(w, R)
      BY <1>4, <3>3, <3>6, <3>8, EvidenceBinds DEF E
    <3> QED
      BY <3>4, <3>6, <3>7
  <2> QED
    BY <1>1, <1>3, <2>1, <2>2, <2>3
<1> QED
  BY <1>4 DEF Agree

\* What is in doubt between candidates rests on searches that were answered.
Rests(w, run) ==
  run.result.status = "suspicious" /\ run.result.why = "ambiguous" => ~Unanswered(w, run.asked)

LEMMA NumberedRests ==
  ASSUME NEW show, NEW m, NEW score
  PROVE  LET r == WithNumbering(show, m, score) IN ~(r.status = "suspicious" /\ r.why = "ambiguous")
BY DEF WithNumbering, Decide, Undecided

LEMMA FirstRests ==
  ASSUME NEW w
  PROVE  Rests(w, First(w))
<1> DEFINE Q == Searches(w)
<1>1. "title" \in Q
  BY DEF Searches
<1>2. Unanswered(w, {"title"}) => Unanswered(w, Q)
  BY <1>1 DEF Unanswered
<1>3. Refused.status = "unresolved"
  BY DEF Refused, Undecided
<1> DEFINE c == CoreResolution(w)
<1>4. Unanswered(w, {"title"}) => c = Refused \/ \E show, m, score : c = WithNumbering(show, m, score)
  <2> HIDE DEF Q
  <2> QED
    BY <1>2 DEF CoreResolution, Resolved, Q
<1> HIDE DEF c
<1>5. Unanswered(w, {"title"}) => ~(c.status = "suspicious" /\ c.why = "ambiguous")
  BY <1>3, <1>4, NumberedRests
<1> QED
  BY <1>5 DEF Rests, First, c

LEMMA RestsAfter ==
  ASSUME NEW w, NEW run, IsRun(run), Rests(w, run)
  PROVE  /\ Rests(w, Parenthetical(w, run)) /\ Rests(w, JoinedWords(w, run))
         /\ Rests(w, ReleasePrefix(w, run)) /\ Rests(w, RootTitle(w, run))
         /\ Rests(w, StructuralYear(w, run))
<1>1. Rests(w, Unresolve(run))
  BY UnresolvedRun DEF Rests
<1>2. ASSUME NEW Q, NEW r, ~Unanswered(w, Q)
      PROVE  Rests(w, [asked |-> Q, result |-> r])
  BY <1>2 DEF Rests
<1>3. Rests(w, Parenthetical(w, run))
  BY <1>1, <1>2 DEF Parenthetical
<1>4. Rests(w, JoinedWords(w, run))
  BY <1>2 DEF JoinedWords
<1>5. \A name, least : Rests(w, ByOtherName(w, run, name, least))
  BY <1>1, <1>2 DEF ByOtherName
<1>6. Rests(w, ReleasePrefix(w, run)) /\ Rests(w, RootTitle(w, run))
  BY <1>5 DEF ReleasePrefix, RootTitle
<1>7. Rests(w, StructuralYear(w, run))
  <2>1. ASSUME NEW r
        PROVE  [run EXCEPT !.result = r].asked = run.asked
    BY DEF IsRun
  <2>2. \/ StructuralYear(w, run) = run
        \/ /\ ~Unanswered(w, run.asked)
           /\ \E r : StructuralYear(w, run) = [run EXCEPT !.result = r]
    BY DEF StructuralYear
  <2> QED
    BY <2>1, <2>2 DEF Rests
<1> QED
  BY <1>3, <1>4, <1>6, <1>7

\* The year of the folder decides between the contenders of a result in doubt.
LEMMA StructuralYearAgrees ==
  ASSUME NEW w, NEW v, Answered(w, v), InFull(w, v), NEW A, IsRun(A), NEW D, IsRun(D),
         A.asked \subseteq Queries, Rests(w, A), Agree(w, A, D)
  PROVE  Agree(w, StructuralYear(w, A), StructuralYear(v, D))
<1> DEFINE ofSpan(r) == {c \in Contenders(r.score) : w.year[c] \in w.span}
           Spans(u, r, Q) ==
             /\ r.status = "suspicious" /\ r.why = "ambiguous"
             /\ w.span # {} /\ Hint(w) = NoYear /\ w.tags = {}
             /\ Top(r.score) >= MatchAt /\ Many(Contenders(r.score))
             /\ One({w.title[c] : c \in Contenders(r.score)})
             /\ ~Unanswered(u, Q) /\ Contenders(r.score) \subseteq Hits(u, Q)
             /\ \A c \in Contenders(r.score) : w.year[c] # NoYear
             /\ One(ofSpan(r))
           p == StructuralYear(w, A)
           q == StructuralYear(v, D)
<1>1. ~Unanswered(w, A.asked) => Hits(v, A.asked) = Hits(w, A.asked)
  BY SameSearches
<1>2. ~Unanswered(v, D.asked)
  BY AllAnswered
<1>3. /\ v.year = w.year /\ v.span = w.span /\ v.tags = w.tags /\ v.title = w.title
      /\ Hint(v) = Hint(w)
  BY SameHint DEF Answered
<1>4. p = IF Spans(w, A.result, A.asked)
          THEN [A EXCEPT !.result = Resolved(w, Only(ofSpan(A.result)), A.result.score)] ELSE A
  BY DEF StructuralYear
<1>5. q = IF Spans(v, D.result, D.asked)
          THEN [D EXCEPT !.result = Resolved(v, Only(ofSpan(D.result)), D.result.score)] ELSE D
  BY <1>3 DEF StructuralYear
<1>6. Spans(w, A.result, A.asked) => A.result.status = "suspicious" /\ w.span # {}
  OBVIOUS
<1>7. A.result = D.result /\ A.asked = D.asked =>
        (Spans(w, A.result, A.asked) <=> Spans(v, D.result, D.asked))
  <2>1. CASE Unanswered(w, A.asked)
    <3>1. ~(A.result.status = "suspicious" /\ A.result.why = "ambiguous")
      BY <2>1 DEF Rests
    <3> QED
      BY <3>1
  <2>2. CASE ~Unanswered(w, A.asked)
    BY <1>1, <1>2, <2>2
  <2> QED
    BY <2>1, <2>2
<1>8. p.asked = A.asked /\ q.asked = D.asked
  <2> HIDE DEF Spans, ofSpan, p, q
  <2> QED
    BY <1>4, <1>5 DEF IsRun
<1> HIDE DEF Spans, ofSpan, p, q
<1>9. ASSUME p.asked = q.asked, Binding(w, p.result)
      PROVE  p.result = q.result
  <2>1. A.asked = D.asked
    BY <1>8, <1>9
  <2>2. CASE Spans(w, A.result, A.asked)
    <3>1. OnlySearches(w)
      BY <1>6, <1>9, <2>2 DEF Binding, Comparable
    <3>2. A.result = D.result
      BY <1>6, <2>1, <2>2, <3>1 DEF Agree, Binding
    <3> DEFINE show == Only(ofSpan(A.result))
    <3>3. /\ p = [A EXCEPT !.result = Resolved(w, show, A.result.score)]
          /\ q = [D EXCEPT !.result = Resolved(v, show, A.result.score)]
      BY <1>4, <1>5, <1>7, <2>1, <2>2, <3>2
    <3> HIDE DEF show
    <3>4. /\ p.result = Resolved(w, show, A.result.score)
          /\ q.result = Resolved(v, show, A.result.score)
      BY <3>3 DEF IsRun
    <3> QED
      BY <3>1, <3>4, ResolvedAnswers
  <2>3. CASE ~Spans(w, A.result, A.asked)
    <3>1. p = A
      BY <1>4, <2>3
    <3>2. A.result = D.result
      BY <1>9, <2>1, <3>1 DEF Agree
    <3> QED
      BY <1>5, <1>7, <2>1, <2>3, <3>1, <3>2
  <2> QED
    BY <2>2, <2>3
<1> QED
  BY <1>9 DEF Agree, p, q

-------------------------------------------------------------------------------
(* Both runs, side by side. *)

\* The searches that a run may have asked by, before a step.
AskedBefore(s) ==
  CASE s = "parenthetical" -> {"title"}
    [] s = "joined" -> {"title", "first", "second"}
    [] s = "prefix" -> {"title", "first", "second", "joined"}
    [] s = "root" -> {"title", "first", "second", "joined", "stripped"}
    [] OTHER -> Queries

\* The invariant of the resolution: where both runs asked by the same searches, what
\* binds in the one is the result of the other.
Compared ==
  /\ IsWorld(world) /\ IsRuns
  /\ \A a \in Answering : runs[a].asked \subseteq AskedBefore(step)
  /\ step = "parenthetical" => \A a \in Answering : runs[a].asked = {"title"}
  /\ Rests(world, runs["actual"])
  /\ SearchedInFull => Agree(world, runs["actual"], runs["ideal"])

LEMMA BothFolders ==
  ASSUME IsWorld(world)
  PROVE  /\ Folder("actual") = world /\ Answered(world, Folder("ideal"))
         /\ SearchedInFull => InFull(world, Folder("ideal"))
BY IdealAnswered DEF Folder, SearchedInFull, InFull

LEMMA ComparedStarts ==
  ASSUME ResolutionInit
  PROVE  Compared
<1>1. IsWorld(world)
  BY WorldAssumption DEF ResolutionInit
<1>2. runs["actual"] = First(world) /\ runs["ideal"] = First(Folder("ideal"))
  BY <1>1, BothFolders DEF ResolutionInit, Answering
<1>3. /\ SearchedInFull => Agree(world, runs["actual"], runs["ideal"])
      /\ Rests(world, runs["actual"])
  BY <1>1, <1>2, BothFolders, CoreAgrees, FirstRests
<1>4. \A a \in Answering : runs[a].asked = {"title"}
  BY DEF ResolutionInit, First
<1>5. step = "parenthetical" /\ AskedBefore("parenthetical") = {"title"}
  BY DEF ResolutionInit, AskedBefore
<1> QED
  BY <1>1, <1>3, <1>4, <1>5, ResolutionStarts DEF Compared

LEMMA AskedAfter ==
  ASSUME NEW w, NEW run, IsRun(run)
  PROVE  /\ Parenthetical(w, run).asked \in {run.asked, {"title", "first", "second"}}
         /\ JoinedWords(w, run).asked \in {run.asked, run.asked \cup {"joined"}}
         /\ ReleasePrefix(w, run).asked \in {run.asked, run.asked \cup {"stripped"}}
         /\ RootTitle(w, run).asked \in {run.asked, run.asked \cup {"root"}}
         /\ StructuralYear(w, run).asked = run.asked
<1>1. Unresolve(run).asked = run.asked
  BY UnresolvedRun
<1>2. \A name, least : ByOtherName(w, run, name, least).asked \in {run.asked, run.asked \cup {name}}
  BY <1>1 DEF ByOtherName
<1>3. Parenthetical(w, run).asked \in {run.asked, {"title", "first", "second"}}
  BY <1>1 DEF Parenthetical
<1>4. JoinedWords(w, run).asked \in {run.asked, run.asked \cup {"joined"}}
  BY DEF JoinedWords
<1>5. /\ ReleasePrefix(w, run).asked \in {run.asked, run.asked \cup {"stripped"}}
      /\ RootTitle(w, run).asked \in {run.asked, run.asked \cup {"root"}}
  BY <1>2 DEF ReleasePrefix, RootTitle
<1>6. StructuralYear(w, run).asked = run.asked
  BY DEF StructuralYear, IsRun
<1> QED
  BY <1>3, <1>4, <1>5, <1>6

\* Each retry keeps the runs comparable.
LEMMA ComparedStep ==
  ASSUME Compared, ResolutionNext
  PROVE  Compared'
<1> DEFINE w == world
           v == Folder("ideal")
           A == runs["actual"]
           D == runs["ideal"]
<1>1. IsWorld(w) /\ Answered(w, v) /\ Folder("actual") = w
  BY BothFolders DEF Compared
<1>2. IsRun(A) /\ IsRun(D) /\ Rests(w, A) /\ (SearchedInFull => InFull(w, v) /\ Agree(w, A, D))
  BY BothFolders DEF Compared, IsRuns, Answering
<1>3. A.asked \subseteq AskedBefore(step) /\ D.asked \subseteq AskedBefore(step)
  BY DEF Compared, Answering
<1>4. world' = world /\ SearchedInFull' = SearchedInFull /\ IsRuns' /\ step' # "parenthetical"
  <2>1. IsRuns'
    BY ResolutionStep DEF Compared
  <2> QED
    BY <2>1 DEF ResolutionNext, RetryParenthetical, RetryJoinedWords, RetryReleasePrefix,
                RetryRootTitle, RetryStructuralYear, Retry, SearchedInFull, Folder
<1> SUFFICES /\ runs'["actual"].asked \subseteq AskedBefore(step')
             /\ runs'["ideal"].asked \subseteq AskedBefore(step')
             /\ Rests(w, runs'["actual"])
             /\ SearchedInFull => Agree(w, runs'["actual"], runs'["ideal"])
  BY <1>1, <1>4 DEF Compared, Answering
<1>5. CASE RetryParenthetical
  <2>1. /\ step = "parenthetical" /\ step' = "joined"
        /\ runs'["actual"] = Parenthetical(w, A) /\ runs'["ideal"] = Parenthetical(v, D)
    BY <1>1, <1>5 DEF RetryParenthetical, Retry, Answering
  <2>2. A.asked = {"title"} /\ D.asked = {"title"}
    BY <2>1 DEF Compared, Answering
  <2>3. AskedBefore("joined") = {"title", "first", "second"}
    BY DEF AskedBefore
  <2> HIDE DEF w, v, A, D
  <2> QED
    BY <1>1, <1>2, <2>1, <2>2, <2>3, ParentheticalAgrees, AskedAfter, RestsAfter
<1>6. CASE RetryJoinedWords
  <2>1. /\ step = "joined" /\ step' = "prefix"
        /\ runs'["actual"] = JoinedWords(w, A) /\ runs'["ideal"] = JoinedWords(v, D)
    BY <1>1, <1>6 DEF RetryJoinedWords, Retry, Answering
  <2>2. /\ AskedBefore("joined") = {"title", "first", "second"}
        /\ AskedBefore("prefix") = {"title", "first", "second", "joined"}
    BY DEF AskedBefore
  <2>3. {"title", "first", "second"} \subseteq Queries \ {"joined"}
    BY DEF Queries
  <2> HIDE DEF w, v, A, D
  <2> QED
    BY <1>1, <1>2, <1>3, <2>1, <2>2, <2>3, JoinedWordsAgrees, AskedAfter, RestsAfter
<1>7. CASE RetryReleasePrefix
  <2>1. /\ step = "prefix" /\ step' = "root"
        /\ runs'["actual"] = ReleasePrefix(w, A) /\ runs'["ideal"] = ReleasePrefix(v, D)
    BY <1>1, <1>7 DEF RetryReleasePrefix, Retry, Answering
  <2>2. /\ AskedBefore("prefix") = {"title", "first", "second", "joined"}
        /\ AskedBefore("root") = {"title", "first", "second", "joined", "stripped"}
    BY DEF AskedBefore
  <2>3. {"title", "first", "second", "joined"} \subseteq Queries \ {"stripped"} /\ "stripped" \in Queries
    BY DEF Queries
  <2> DEFINE p == ReleasePrefix(w, A)
             q == ReleasePrefix(v, D)
  <2>4. /\ p \in {A, ByOtherName(w, A, "stripped", 1)} /\ q \in {D, ByOtherName(v, D, "stripped", 1)}
        /\ p # A => A.result.status = "unresolved"
        /\ q # D => D.result.status = "unresolved"
    BY DEF ReleasePrefix
  <2> HIDE DEF w, v, A, D, p, q
  <2>5. SearchedInFull => Agree(w, p, q)
    BY <1>1, <1>2, <1>3, <2>1, <2>2, <2>3, <2>4, OtherNameAgrees
  <2> QED
    BY <1>2, <1>3, <2>1, <2>2, <2>5, AskedAfter, RestsAfter DEF p, q
<1>8. CASE RetryRootTitle
  <2>1. /\ step = "root" /\ step' = "year"
        /\ runs'["actual"] = RootTitle(w, A) /\ runs'["ideal"] = RootTitle(v, D)
    BY <1>1, <1>8 DEF RetryRootTitle, Retry, Answering
  <2>2. /\ AskedBefore("root") = {"title", "first", "second", "joined", "stripped"}
        /\ AskedBefore("year") = Queries
    BY DEF AskedBefore
  <2>3. /\ {"title", "first", "second", "joined", "stripped"} \subseteq Queries \ {"root"}
        /\ "root" \in Queries
    BY DEF Queries
  <2> DEFINE p == RootTitle(w, A)
             q == RootTitle(v, D)
  <2>4. /\ p \in {A, ByOtherName(w, A, "root", LeastTitles)}
        /\ q \in {D, ByOtherName(v, D, "root", LeastTitles)}
        /\ p # A => A.result.status = "unresolved"
        /\ q # D => D.result.status = "unresolved"
    BY DEF RootTitle
  <2> HIDE DEF w, v, A, D, p, q
  <2>5. SearchedInFull => Agree(w, p, q)
    BY <1>1, <1>2, <1>3, <2>1, <2>2, <2>3, <2>4, OtherNameAgrees
  <2> QED
    BY <1>2, <1>3, <2>1, <2>2, <2>3, <2>5, AskedAfter, RestsAfter DEF p, q
<1>9. CASE RetryStructuralYear
  <2>1. /\ step = "year" /\ step' = "resolved"
        /\ runs'["actual"] = StructuralYear(w, A) /\ runs'["ideal"] = StructuralYear(v, D)
    BY <1>1, <1>9 DEF RetryStructuralYear, Retry, Answering
  <2>2. AskedBefore("year") = Queries /\ AskedBefore("resolved") = Queries
    BY DEF AskedBefore
  <2> HIDE DEF w, v, A, D
  <2> QED
    BY <1>1, <1>2, <1>3, <2>1, <2>2, StructuralYearAgrees, AskedAfter, RestsAfter
<1> QED
  BY <1>5, <1>6, <1>7, <1>8, <1>9 DEF ResolutionNext

LEMMA ComparedDecides ==
  ASSUME Compared
  PROVE  AnswersDecide
BY DEF Compared, AnswersDecide, Agree, Binding, Comparable, OnlySearches

\* Through all of the retries: a show that is matched by the same searches and among the
\* same candidates as with complete evidence is the one that complete evidence would
\* have matched, with the same numbering, whichever aliases and catalogs did not answer,
\* in every folder that is not named for a pair of titles or a range of years, and in
\* those when all of the aliases and catalogs answered.
THEOREM MatchingAnswersDecide == MatchingSpec => []AnswersDecide
<1>1. MatchingInit => Compared
  BY ComparedStarts DEF MatchingInit
<1>2. Compared /\ [MatchingNext]_matchingVars => Compared'
  <2> SUFFICES ASSUME Compared, [MatchingNext]_matchingVars
               PROVE  Compared'
    OBVIOUS
  <2>1. CASE ResolveShow
    BY <2>1, ComparedStep DEF ResolveShow
  <2>2. ASSUME UNCHANGED <<world, runs>>, step' = "planned" \/ step' = step
        PROVE  Compared'
    <3>1. AskedBefore("planned") = Queries /\ AskedBefore(step) \subseteq Queries
      BY DEF AskedBefore, Queries
    <3>2. SearchedInFull' = SearchedInFull
      BY <2>2 DEF SearchedInFull, Folder
    <3> QED
      BY <2>2, <3>1, <3>2 DEF Compared, IsRuns
  <2>3. CASE PlanResolved \/ LeaveUnresolved
    BY <2>2, <2>3 DEF PlanResolved, LeaveUnresolved
  <2>4. CASE AssignEpisodes \/ UNCHANGED matchingVars
    BY <2>2, <2>4 DEF AssignEpisodes, matchingVars, resolutionVars
  <2> QED
    BY <2>1, <2>3, <2>4 DEF MatchingNext
<1>3. Compared => AnswersDecide
  BY ComparedDecides
<1> QED
  BY <1>1, <1>2, <1>3, PTL DEF MatchingSpec

===============================================================================
