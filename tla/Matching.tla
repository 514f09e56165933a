------------------------------- MODULE Matching -------------------------------
(***************************************************************************)
(* A folder from its name to the episodes of its videos, as _build_plan of *)
(* planner.py takes it: ShowResolution decides the show and its numbering, *)
(* and EpisodeAssignment then assigns the videos by the catalog of that    *)
(* show.  A folder whose show is left open keeps its videos open.          *)
(***************************************************************************)
EXTENDS ShowResolution, EpisodeAssignment

matchingVars == <<resolutionVars, vars>>

\* Until the show is decided nothing is known of the videos.
MatchingInit ==
  /\ ResolutionInit
  /\ mode = NoMode /\ catalog = <<>> /\ stage = "show"
  /\ group = [s \in world.sources |-> Unresolved]

ResolveShow == ResolutionNext /\ UNCHANGED vars

\* _plan_resolved_group begins; only the show is handed over.
PlanResolved ==
  /\ step = "resolved" /\ runs.actual.result.status = "matched"
  /\ mode' = runs.actual.result.mode
  /\ catalog' = world.catalog[runs.actual.result.show]
  /\ stage' = "core"
  /\ step' = "planned"
  /\ UNCHANGED <<group, world, runs>>

\* _unresolved_show_records: all of the videos are left open.
LeaveUnresolved ==
  /\ step = "resolved" /\ runs.actual.result.status # "matched"
  /\ stage' = "done" /\ step' = "planned"
  /\ UNCHANGED <<mode, catalog, group, world, runs>>

AssignEpisodes == Next /\ UNCHANGED resolutionVars

MatchingNext == ResolveShow \/ PlanResolved \/ LeaveUnresolved \/ AssignEpisodes

MatchingSpec == MatchingInit /\ [][MatchingNext]_matchingVars

-------------------------------------------------------------------------------

\* A search that is answered is answered as complete evidence would have it: none of
\* the requests that it is put together from is missing.
SearchedInFull ==
  \A q \in Queries : ~Unanswered(world, {q}) => Found(world, q) = Found(Folder("ideal"), q)

\* When requests for aliases or catalogs failed and a show was matched all the same, by
\* the same searches as with complete evidence and with the same candidates, it is the
\* show, with the numbering, that complete evidence would have given: of the seven ways
\* in which titles, aliases and catalogs decide between candidates, none takes a
\* candidate that did not answer for one that does not fit.  It is no more than that:
\* a search that was put together from fewer answers decides as if it were whole, and
\* of a folder named for a pair of titles, or for a range of years, one half decides
\* although the other one was not answered for, and so does the year.
AnswersDecide ==
  /\ runs.actual.result.status = "matched" /\ runs.actual.asked = runs.ideal.asked
  /\ SearchedInFull
  /\ "first" \in world.names \/ world.span # {} => \A r \in world.failed : r[1] \notin {"alias", "catalog"}
  => runs.actual.result = runs.ideal.result
================================================================================
