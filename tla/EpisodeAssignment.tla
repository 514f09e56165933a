--------------------------- MODULE EpisodeAssignment ---------------------------
(***************************************************************************)
(* _plan_resolved_group of planner.py, for the videos of one folder of a   *)
(* resolved show: the episode assignment of episode_assignment.py, request *)
(* by request, and then the recovery of equivalent duplicates.  The        *)
(* catalog is asked for again before each pass, and each request may fail: *)
(* a pass whose request does is skipped.  The rules are in EpisodeRules.   *)
(***************************************************************************)
EXTENDS EpisodeRules

CONSTANTS
  SourcePool,   \* the videos a folder may hold, as parsed
  MaxSources,   \* at most so many of them
  Catalogs,     \* the catalogs the show may have
  ModePool,     \* the numbering modes it may be resolved with
  Unreliable    \* whether requests may fail

ASSUME AssignmentAssumption ==
  /\ MaxSources \in Nat \ {0} /\ ModePool \subseteq Modes /\ Unreliable \in BOOLEAN

VARIABLES
  mode,     \* the numbering mode of the show
  catalog,  \* its catalog at the provider, in order
  stage,    \* the pass that is next
  group     \* the assignments so far, a function of the sources

vars == <<mode, catalog, stage, group>>

folder == DOMAIN group

\* Whether one request is answered, or which of several are.
Answer == IF Unreliable THEN BOOLEAN ELSE {TRUE}
Answers(requests) == IF Unreliable THEN SUBSET requests ELSE {requests}

Requests(S) == {Family(s, mode) : s \in S} \cup {mode}

Init ==
  /\ mode \in ModePool /\ catalog \in Catalogs /\ stage = "core"
  /\ \E S \in SUBSET SourcePool :
       Cardinality(S) \in 1..MaxSources /\ group = [s \in S |-> Unresolved]

AssignCore ==
  /\ stage = "core"
  /\ \E answered \in Answers(Requests(folder)) :
       group' = Core(folder, mode, catalog, answered)
  /\ stage' = IF Requested(folder, mode) /\ Signals(group', mode) THEN "passes" ELSE "article"
  /\ UNCHANGED <<mode, catalog>>

\* The request that the passes are to be run with is not answered, or shows nothing.
SkipPasses ==
  /\ stage = "passes" /\ (Unreliable \/ catalog = <<>>)
  /\ stage' = "article"
  /\ UNCHANGED <<mode, catalog, group>>

RunPasses ==
  /\ stage = "passes" /\ catalog # <<>>
  /\ \E rerun \in Answers(Requests(folder)), again \in Answers(folder) :
       group' = Passes(group, mode, catalog, rerun, again)
  /\ stage' = "article"
  /\ UNCHANGED <<mode, catalog>>

RecoverArticles ==
  /\ stage = "article"
  /\ \E answered \in Answer :
       group' = IF answered THEN RecoverArticle(group, mode, catalog) ELSE group
  /\ stage' = "duplicates"
  /\ UNCHANGED <<mode, catalog>>

RecoverEquivalents ==
  /\ stage = "duplicates"
  /\ \E answered \in [Claimants(group) -> IF Unreliable THEN {"all", "first", "none"} ELSE {"all"}] :
       group' = RecoverDuplicates(group,
                  [s \in Claimants(group) |-> Alone(s, mode, catalog, answered[s])])
  /\ stage' = "done"
  /\ UNCHANGED <<mode, catalog>>

Next == AssignCore \/ SkipPasses \/ RunPasses \/ RecoverArticles \/ RecoverEquivalents

Spec == Init /\ [][Next]_vars

-------------------------------------------------------------------------------

\* docs/duplicate-preferences.md:23: "Partial overlaps, such as a multi-episode file
\* sharing only one episode with a single-episode file, remain suspicious and
\* blocking."  Two videos would then be given one episode only if they are given
\* exactly the same episodes, so that one can be chosen over the other.
SharedEpisodesAreEqual ==
  stage = "done" =>
    \A s, t \in folder :
      s # t /\ Identities(group[s]) \cap Identities(group[t]) # {}
        => Identities(group[s]) = Identities(group[t])

\* Until duplicates are recovered no two videos are one episode, after every pass
\* that moves a video from the coordinate in its name to another episode, and
\* whatever requests fail; two parts of a segment may be, if it is all they are.
EpisodesGuarded ==
  stage # "done" =>
    \A s, t \in folder :
      s # t /\ Identities(group[s]) \cap Identities(group[t]) # {}
        => mode = "segment" /\ Identities(group[s]) = Identities(group[t])

\* A video that the guard against shared episodes held is released only with another
\* one, and with every video that it was held together with: all of them are given
\* exactly the same episodes, whatever their requests were answered.
ReleasedTogether ==
  [][\A s \in Claimants(group) :
       stage = "duplicates" /\ Matched(group'[s]) =>
         /\ \E t \in Claimants(group) \ {s} : HeldTogether(s, t, group)
         /\ \A t \in Claimants(group) :
              HeldTogether(s, t, group) =>
                Matched(group'[t]) /\ Identities(group'[t]) = Identities(group'[s])]_vars

\* docs/jellyfin-show-organizer-architecture.md:82: a decision for one video is
\* authoritative, whatever the title in its name says.
DecisionsStand ==
  stage = "done" =>
    \A s \in folder :
      s.explicit /\ mode = "aired" =>
        \A i \in DOMAIN group[s].eps :
          group[s].eps[i].season = s.season /\ group[s].eps[i].number = s.numbers[i]
================================================================================
