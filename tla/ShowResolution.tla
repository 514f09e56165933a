----------------------------- MODULE ShowResolution -----------------------------
(***************************************************************************)
(* Which show of the provider a folder is: the core resolution of          *)
(* _show_resolver_core.py, with the evidence of titles, provider aliases   *)
(* and episode catalogs, and the retries of show_resolver.py, one after    *)
(* the other.  A request that failed stays failed: the cache keeps it.     *)
(*                                                                         *)
(* Titles are abstracted to the scores that a candidate has by each of the *)
(* names of the folder, in hundredths; the videos and the catalogs are     *)
(* those of EpisodeRules.  Each run is made twice, with the failures of    *)
(* the world and without: the ideal run is what complete evidence decides.    *)
(***************************************************************************)
EXTENDS EpisodeRules

CONSTANTS
  Cases,      \* the folders to be resolved, and
  WorldOf(_)  \* each with what the provider has and which requests fail

MatchAt == 90     \* _MATCH_THRESHOLD,
SuspectAt == 75   \* _SUSPICIOUS_THRESHOLD,
Gap == 8          \* _MINIMUM_MATCH_GAP and
RescueAt == 60    \* _MIN_CATALOG_RESCUE_SCORE
LeastTitles == 2  \* _MIN_TITLE_OBSERVATIONS and _MIN_COORDINATE_OBSERVATIONS
NoYear == 0
NoShow == "no show"
NoMode == "none"

\* The searches: by the title, by a prefix of it, with its two words joined, by the
\* halves of a parenthetical pair, without a release prefix, by the title of the root.
Queries == {"title", "prefix", "joined", "first", "second", "stripped", "root"}

VARIABLES
  world,   \* the folder and the provider
  step,    \* the retry that is next
  runs     \* the result so far, and the searches that a search for the title now
           \* answers with: actual, and ideal, had every request been answered

resolutionVars == <<world, step, runs>>

-------------------------------------------------------------------------------
(* Requests and results. *)

Failing(w, kind, of) == \E x \in of : <<kind, x>> \in w.failed

\* AutoProviderAdapter.search_shows.  TMDb is asked for the titles of the shows it
\* knows by a name, where TVMaze gives no show or several: of several, it decides for
\* the only one of such a title; and where TVMaze fails, a show that is all that TVMaze
\* finds for these titles is taken.  A request that fails of those is passed over.
TmdbTitles(w, q) == IF Failing(w, "tmdb", {q}) THEN {} ELSE w.tmdb[q]
Recovered(w, q) == UNION {w.titled[t] : t \in {u \in TmdbTitles(w, q) : ~Failing(w, "retry", {u})}}
Consensus(w, q) == {c \in w.hits[q] : w.title[c] \in TmdbTitles(w, q)}

Unanswered(w, Q) == \E q \in Q : Failing(w, "search", {q}) /\ ~One(Recovered(w, q))
Found(w, q) ==
  IF Failing(w, "search", {q}) THEN Recovered(w, q)
  ELSE IF One(Consensus(w, q)) THEN Consensus(w, q) ELSE w.hits[q]
Hits(w, Q) == UNION {Found(w, q) : q \in Q}

Searchable(w) ==
  (UNION {w.hits[q] : q \in Queries})
    \cup (UNION {w.titled[t] : t \in UNION {w.tmdb[q] : q \in Queries}})

\* What is known of a folder and the provider.
IsWorld(w) ==
  /\ DOMAIN w = {"sources", "names", "years", "span", "tags", "overrides", "hits", "tmdb", "titled",
                  "score", "year", "title", "alias", "catalog", "changed", "failed"}
  /\ \A c \in Searchable(w) :
       w.alias[c] \in 0..100 /\ \A q \in Queries : w.score[q][c] \in 0..100

ASSUME WorldAssumption == \A case \in Cases : IsWorld(WorldOf(case))

\* Two searches describe one show differently.
Conflicting(w, Q) == \E q, r \in Q : q # r /\ Found(w, q) \cap Found(w, r) \cap w.changed # {}

Undecided(status, why, score) ==
  [status |-> status, show |-> NoShow, mode |-> NoMode, why |-> why, score |-> score]
Refused == Undecided("unresolved", "refused", <<>>)
Decide(show, m) == [status |-> "matched", show |-> show, mode |-> m, why |-> "none", score |-> <<>>]

Hint(w) ==
  LET years == w.years \cup ({o.year : o \in w.overrides} \ {NoYear})
  IN IF years = {} THEN NoYear ELSE Only(years)

-------------------------------------------------------------------------------
(* What the numbering of the videos says of a catalog. *)

Kinds(s) == Families(s) \cup (IF HasSegment(s) THEN {"segment"} ELSE {})

At(season, n, C) == {e \in Numbered(C) : e.season = season /\ e.number = n}
Ambiguous(C, least) ==
  \E e, f \in Numbered(C) : e # f /\ e.season >= least /\ e.season = f.season /\ e.number = f.number

InOrder(C) == {e \in Numbered(C) : e.season > 0}

\* _observed_episode_evidence: all of the numbering is of the expected family.
Evident(S, m) ==
  /\ \E s \in S : Kinds(s) # {}
  /\ \A s \in S :
       Kinds(s) \in {{}, {m}} /\ (HasAired(s) => CompleteAired(s)) /\ (HasSegment(s) => HasHint(s))

Values(S, m) ==
  LET numbered == {s \in S : Kinds(s) # {}} IN
  CASE m = "aired" -> UNION {{<<s.season, n>> : n \in Range(s.numbers)} : s \in numbered}
    [] m = "absolute" -> {s.absolutes[1] : s \in numbered}
    [] m = "special" -> {s.special : s \in numbered}
    [] m = "date" -> {s.date : s \in numbered}
    [] m = "segment" -> {s.hint : s \in numbered}

\* _catalog_compatibility_reasons: the catalog has all of them.
Available(S, m, C) ==
  \A s \in S :
    CASE Kinds(s) = {} -> TRUE
      [] m = "aired" -> \A n \in Range(s.numbers) : At(s.season, n, C) # {}
      [] m = "absolute" -> s.absolutes[1] \in 1..Cardinality(InOrder(C))
      [] m = "special" -> \E e \in NonRegular(C) : e.number = s.special
      [] m = "date" -> \E e \in Range(C) : e.date = s.date
      [] m = "segment" -> \E e \in Range(C) : Exact(s.hint, e.title)

\* infer_group_numbering_mode: of the videos that have both numberings, or else of
\* those that have the one there is, the numbering that the catalog has all of.
Usable(S) ==
  {s \in S : (HasAired(s) \/ HasAbsolute(s)) /\ ~HasSpecial(s) /\ ~HasDate(s) /\ ~HasSegment(s)}

Numberings(s) ==
  IF HasAired(s) /\ ~CompleteAired(s) THEN {} ELSE {m \in {"aired", "absolute"} : m \in Families(s)}

Observations(S) ==
  LET dual == {s \in S : Numberings(s) = {"aired", "absolute"}}
  IN IF dual # {} THEN dual ELSE {s \in S : Numberings(s) # {}}

HasCoordinates(S, C) == \A s \in S : \A n \in Range(s.numbers) : At(s.season, n, C) # {}

HasPositions(S, C) ==
  \A s \in S : \A n \in Range(s.absolutes) : n \in 1..Cardinality(InOrder(C))

Fitting(S, observed, C) ==
  {m \in observed : IF m = "aired" THEN HasCoordinates(S, C) ELSE HasPositions(S, C)}

UniqueMode(modes) == IF One(modes) THEN Only(modes) ELSE NoMode

InferFrom(S, C, answered) ==
  LET observed == UNION {Numberings(s) : s \in S}
      independent == \A s \in S : One(Numberings(s))
  IN IF S = {} THEN NoMode
     ELSE IF independent /\ Many(observed) THEN "aired"
     ELSE IF ~answered \/ Ambiguous(C, IF "aired" \in observed THEN 0 ELSE 1)
     THEN "indeterminate"
     ELSE UniqueMode(Fitting(S, observed, C))

Infer(S, C, answered) ==
  IF Usable(S) = {} THEN "aired" ELSE InferFrom(Observations(Usable(S)), C, answered)

\* _numbering_for_resolved_show, and _resolved_show_result.
Numbering(w, show) ==
  IF w.overrides # {} THEN Only(w.overrides).mode
  ELSE IF \A s \in w.sources : ~HasAbsolute(s) THEN "aired"
  ELSE Infer(w.sources, w.catalog[show], ~Failing(w, "catalog", {show}))

WithNumbering(show, m, score) ==
  IF m \in Modes THEN Decide(show, m) ELSE Undecided("suspicious", "numbering", score)

Resolved(w, show, score) == WithNumbering(show, Numbering(w, show), score)

-------------------------------------------------------------------------------
(* Scores: titles, years and the aliases of the provider. *)

Yearly(w, show, score) ==
  CASE Hint(w) = NoYear -> score
    [] Hint(w) # NoYear /\ w.year[show] = Hint(w) -> Min({100, score + 10})
    [] Hint(w) # NoYear /\ w.year[show] = NoYear -> Min({score, 79})
    [] OTHER -> Min({(score * 45) \div 100, 45})

ByTitle(w, name, candidates) == [c \in candidates |-> Yearly(w, c, w.score[name][c])]

ByAlias(w, score) ==
  [c \in DOMAIN score |->
     IF w.alias[c] = 0 \/ Failing(w, "alias", {c}) THEN score[c]
     ELSE Max({score[c], Yearly(w, c, w.alias[c])})]

Top(score) == Max(Range(score))
Contenders(score) == {c \in DOMAIN score : Top(score) - score[c] < Gap}
Decisive(score) == Top(score) >= MatchAt /\ One(Contenders(score))
Tied(score) == Top(score) >= SuspectAt /\ Many(Contenders(score))

-------------------------------------------------------------------------------
(* Rescues: what the catalogs of the candidates say.  One that is not answered *)
(* blocks them.                                                                *)

\* Mutant: a catalog that is not answered is passed over.
SoleAnswered(w, asked, fitting) ==
  LET answered == {c \in fitting : ~Failing(w, "catalog", {c})}
  IN IF ~One(answered) THEN {} ELSE answered

Sole(w, asked, fitting) ==
  IF Failing(w, "catalog", asked) \/ ~One(fitting) THEN {} ELSE fitting

\* _catalog_tie_break.
TieBroken(w, score, m) ==
  Sole(w, Contenders(score), {c \in Contenders(score) : Available(w.sources, m, w.catalog[c])})

\* _title_observations, and catalog_title_tiebreak.
TitledAt(S) ==
  LET titled == {<<s.season, s.numbers[1], s.hint>> :
                   s \in {t \in S : OneCoordinate(t) /\ HasHint(t)}}
  IN IF \E x, y \in titled : x[1] = y[1] /\ x[2] = y[2] /\ x[3] # y[3] THEN {} ELSE titled

Says(C, x) == One(At(x[1], x[2], C)) /\ Exact(x[3], Only(At(x[1], x[2], C)).title)

TieBrokenByTitles(w, score) ==
  LET titled == TitledAt(w.sources) IN
  IF ~Tied(score) \/ Cardinality(titled) < LeastTitles THEN {}
  ELSE Sole(w, Contenders(score), {c \in Contenders(score) : \A x \in titled : Says(w.catalog[c], x)})

\* segment_counted_title_rescue: the contenders that repeated titles speak for.
Counting(w, score) ==
  IF ~Tied(score) \/ Cardinality({s \in w.sources : Countable(s)}) < MinExactMatches THEN {}
  ELSE {c \in Contenders(score) : ~Failing(w, "catalog", {c}) /\ SegmentProof(w.sources, w.catalog[c]).triggered}

CountedWinner(w, score, counting) ==
  IF \A c \in counting : SegmentProof(w.sources, w.catalog[c]).proven
  THEN Sole(w, Contenders(score), counting) ELSE {}

\* catalog_coordinate_title_rescue: one video, its exact title at its coordinate.
CoordinateWinner(w, score) ==
  LET near == {c \in DOMAIN score : score[c] >= RescueAt}
      titled == TitledAt(w.sources)
  IN IF /\ One(w.sources) /\ titled # {} /\ near # {}
        /\ Kinds(Only(w.sources)) = {"aired"}
     THEN Sole(w, near, {c \in near : \A x \in titled : Says(w.catalog[c], x)}) ELSE {}

\* _aired_coordinates.
AiredCoordinates(S) ==
  LET aired == {s \in S : HasAired(s)} IN
  IF \E s \in aired : ~CompleteAired(s) \/ Kinds(s) # {"aired"} THEN {} ELSE Values(aired, "aired")

\* _mixed_segment_title_observations: different titles of segments, among plain videos.
SegmentTitles(S) ==
  LET segments == {s \in S : HasSegment(s)}
      hints == {s.hint : s \in segments}
      sound == \A s \in segments : Kinds(s) = {"aired", "segment"} /\ OneCoordinate(s) /\ HasHint(s)
      plain == \E s \in S \ segments : CompleteAired(s) /\ Kinds(s) = {"aired"}
  IN IF sound /\ plain /\ Cardinality(hints) = Cardinality(segments) /\ Cardinality(hints) >= LeastTitles
     THEN hints ELSE {}

TitledOnce(hints, C) == {h \in hints : One({e \in Range(C) : Exact(h, e.title)})}

\* _mixed_segment_title_rescue: all of the titles, or clearly more of them.
SegmentWinner(w, candidates, hints) ==
  LET n(c) == Cardinality(TitledOnce(hints, w.catalog[c]))
      exact == {c \in candidates : n(c) = Cardinality(hints)}
      partial == {c \in candidates \ exact : n(c) >= 3 /\ 2 * n(c) >= Cardinality(hints)}
      clear == {c \in partial : \A d \in candidates \ {c} : n(c) - n(d) >= 2}
  IN IF hints = {} THEN {} ELSE Sole(w, candidates, IF exact # {} THEN exact ELSE clear)

\* aired_catalog_rescue, of all the candidates.
AiredWinner(w, score) ==
  LET candidates == DOMAIN score
      coordinates == AiredCoordinates(w.sources)
  IN IF Top(score) < RescueAt THEN {}
     ELSE IF Cardinality(coordinates) < LeastTitles THEN SegmentWinner(w, candidates, SegmentTitles(w.sources))
     ELSE Sole(w, candidates,
               {c \in candidates : \A x \in coordinates : At(x[1], x[2], w.catalog[c]) # {}})

\* _catalog_rescue_mode: the one family of all the videos.
GroupMode(S) ==
  LET Of(s) ==
        IF HasSegment(s)
        THEN IF /\ Kinds(s) \subseteq {"aired", "segment"} /\ HasHint(s)
                /\ HasAired(s) => CompleteAired(s)
             THEN "segment" ELSE NoMode
        ELSE IF Kinds(s) = {"aired"} /\ CompleteAired(s) THEN "aired"
        ELSE IF Kinds(s) = {"absolute"} THEN "absolute" ELSE NoMode
  IN IF One({Of(s) : s \in S}) THEN Only({Of(s) : s \in S}) ELSE NoMode

\* _segment_catalog_compatibility.
SegmentsTitled(S, C) == LET hints == {s.hint : s \in S} IN TitledOnce(hints, C) = hints

\* The candidates whose titles speak for them more than those of all others do.
ClearlyTitled(w, fitting, titled) ==
  LET n(c) == Cardinality({x \in titled : Says(w.catalog[c], x)})
  IN IF Cardinality(titled) < 2 THEN {}
     ELSE {c \in fitting : /\ n(c) >= 2 /\ 4 * n(c) >= 3 * Cardinality(titled)
                           /\ \A d \in fitting \ {c} : n(c) > n(d)}

\* catalog_group_rescue: a clear majority of titles, or the one catalog that fits.
GroupWinner(w, score, m) ==
  LET S == w.sources
      candidates == DOMAIN score
      outcome == [c \in candidates |->
                    IF m # "segment" THEN Infer(S, w.catalog[c], TRUE)
                    ELSE IF SegmentsTitled(S, w.catalog[c]) THEN m ELSE NoMode]
      fitting == {c \in candidates : outcome[c] = m}
      titled == {<<s.season, s.numbers[1], s.hint>> : s \in {t \in S : OneCoordinate(t) /\ HasHint(t)}}
      clear == IF m = "aired" THEN ClearlyTitled(w, fitting, titled) ELSE {}
  IN IF \/ m = NoMode
        \/ m = "aired" /\ One(candidates) /\ Cardinality(Values(S, m)) < LeastTitles
        \/ \E c \in candidates : outcome[c] = "indeterminate"
     THEN {}
     ELSE Sole(w, candidates, IF clear # {} THEN clear ELSE fitting)

-------------------------------------------------------------------------------
(* The resolution by one name of the folder. *)

\* Left open: what the retries may still decide.
Held(score, counting) ==
  IF counting # {} THEN Undecided("suspicious", "segments", score)
  ELSE IF Top(score) >= SuspectAt THEN Undecided("suspicious", "ambiguous", score)
  ELSE Undecided("unresolved", "weak", score)

\* A way finds no show or one; the numbering is that of the show unless it says which.
Way(found) == [found |-> found, mode |-> NoMode]
NoWay == Way({})

\* The next way is only asked when the one before it finds none.
OrElse(way, next) == IF way.found # {} THEN way ELSE next
When(condition, way) == IF condition THEN way ELSE NoWay

Settle(w, score, counting, way) ==
  IF way.found = {} THEN Held(score, counting)
  ELSE WithNumbering(Only(way.found),
         IF way.mode = NoMode THEN Numbering(w, Only(way.found)) ELSE way.mode, score)

\* _attempt_structural_resolution: the rescues, in order.  Repeated titles that count
\* segments leave only the tie-break by titles; a tie that catalogs could not break
\* leaves the group rescue only where videos have titles.
SegmentWays(w, score, counting) ==
  OrElse(Way(CountedWinner(w, score, counting)), Way(TieBrokenByTitles(w, score)))

TieBreakWays(w, score, m) ==
  OrElse(Way(TieBroken(w, score, m)), When(m = "aired", Way(TieBrokenByTitles(w, score))))

AiredWays(w, score) == OrElse(Way(CoordinateWinner(w, score)), Way(AiredWinner(w, score)))

GroupWays(w, score, m) == [found |-> GroupWinner(w, score, m), mode |-> m]

Structural(w, score, m, counting, tried) ==
  LET named == Cardinality({s \in w.sources : OneCoordinate(s) /\ HasHint(s)}) >= 2
  IN IF counting # {} THEN SegmentWays(w, score, counting)
     ELSE OrElse(OrElse(When(tried, TieBreakWays(w, score, m)),
                        When(m = "aired", AiredWays(w, score))),
                 When(~tried \/ named, GroupWays(w, score, GroupMode(w.sources))))

\* By the scores of the candidates, aliases included; blocked when one of their
\* requests failed.
ByScores(w, score, blocked, m, counting) ==
  Settle(w, score, IF blocked THEN {} ELSE counting,
         IF blocked THEN NoWay
         ELSE IF Decisive(score) THEN Way(Contenders(score))
         ELSE Structural(w, score, m, counting, Tied(score) /\ Evident(w.sources, m)))

ExpectedMode(w) == IF w.overrides = {} THEN "aired" ELSE Only(w.overrides).mode

WithAliases(w, title, weak) ==
  LET score == IF weak THEN ByAlias(w, title) ELSE title
      counting == IF ExpectedMode(w) = "aired" THEN Counting(w, score) ELSE {}
  IN ByScores(w, score, weak /\ Failing(w, "alias", DOMAIN title), ExpectedMode(w), counting)

Weighed(w, title) == WithAliases(w, title, Top(title) < MatchAt)

\* The core resolution, once the candidates are found.
ByEvidence(w, name, candidates) ==
  IF Many(w.years) THEN Refused ELSE Weighed(w, ByTitle(w, name, candidates))

\* _discover_provider_candidates: other searches, only after an empty one.
Searches(w) ==
  IF Found(w, "title") # {} THEN {"title"} ELSE {"title"} \cup (w.names \cap {"prefix", "joined"})

\* resolve_show_group_with_provider of the core.
CoreResolution(w) ==
  LET overridden == {o.show : o \in w.overrides} \ {NoShow}
      explicit == w.tags \cup overridden
      searches == Searches(w)
  IN IF \/ Many(w.years) \/ Many(w.overrides) \/ Many(explicit)
        \/ \E o \in w.overrides : o.year # NoYear /\ w.years \ {o.year} # {}
     THEN Refused
     ELSE IF explicit # {} THEN Resolved(w, Only(explicit), <<>>)
     ELSE IF Unanswered(w, searches) \/ Conflicting(w, searches) \/ Hits(w, searches) = {}
     THEN Refused
     ELSE ByEvidence(w, "title", Hits(w, searches))

-------------------------------------------------------------------------------
(* The retries of show_resolver.py: each takes the result so far and the searches *)
(* that a search for the title now answers with.                                  *)

First(w) == [result |-> CoreResolution(w), asked |-> {"title"}]

Unmatched(run) == run.result.status # "matched"
Named(w) == w.overrides # {} \/ w.tags # {}
Unresolve(run) == [run EXCEPT !.result.status = "unresolved"]

\* _parenthetical_alias_resolution: what either half of the pair alone decides.
Agreed(halves, otherwise) ==
  LET matched == {r \in halves : r.status = "matched"}
  IN IF One({r.show : r \in matched}) /\ \A r \in halves : r.status # "suspicious"
     THEN Only(matched) ELSE otherwise

Parenthetical(w, run) ==
  LET Q == {"title", "first", "second"} IN
  IF ~Unmatched(run) \/ Named(w) \/ "first" \notin w.names THEN run
  ELSE IF Unanswered(w, Q) \/ Conflicting(w, Q) THEN Unresolve(run)
  ELSE IF Hits(w, Q) = {} THEN run
  ELSE [asked |-> Q,
        result |-> Agreed({ByEvidence(w, name, Hits(w, Q)) : name \in {"first", "second"}}, run.result)]

\* _weak_token_merge_resolution: weak candidates, and others with the words joined.
JoinedWords(w, run) ==
  LET Q == run.asked \cup {"joined"} IN
  IF \/ run.result.status # "unresolved" \/ run.result.why # "weak"
     \/ "joined" \notin w.names \/ Found(w, "title") = {}
     \/ Unanswered(w, Q) \/ Conflicting(w, Q)
     \/ Found(w, "joined") \subseteq Hits(w, run.asked)
  THEN run
  ELSE [result |-> ByEvidence(w, "title", Hits(w, Q)), asked |-> Q]

\* What resolve_release_prefix_fallback and resolve_structural_root_title_fallback
\* share: the show by another name, if its catalog has that many of the numbers.
Confirmed(w, retried, least, otherwise) ==
  IF \/ retried.status # "matched"
     \/ /\ Evident(w.sources, retried.mode)
        /\ Cardinality(Values(w.sources, retried.mode)) >= least
        /\ ~Failing(w, "catalog", {retried.show})
        /\ Available(w.sources, retried.mode, w.catalog[retried.show])
  THEN retried ELSE otherwise

ByOtherName(w, run, name, least) ==
  LET Q == run.asked \cup {name} IN
  IF Unanswered(w, Q) \/ Conflicting(w, Q) THEN Unresolve(run)
  ELSE IF Found(w, name) = {} THEN run
  ELSE [asked |-> Q,
        result |-> Confirmed(w, ByEvidence(w, name, Hits(w, Q)), least, run.result)]

ReleasePrefix(w, run) ==
  IF run.result.status = "unresolved" /\ ~Named(w) /\ "stripped" \in w.names
  THEN ByOtherName(w, run, "stripped", 1) ELSE run

RootTitle(w, run) ==
  IF /\ run.result.status = "unresolved" /\ run.result.why = "weak"
     /\ ~Named(w) /\ "root" \in w.names
  THEN ByOtherName(w, run, "root", LeastTitles) ELSE run

\* _structural_year_resolution: of shows of one title, the one of the years that the
\* folder is named for.
StructuralYear(w, run) ==
  LET contenders == Contenders(run.result.score)
      ofSpan == {c \in contenders : w.year[c] \in w.span}
  IN IF /\ run.result.status = "suspicious" /\ run.result.why = "ambiguous"
        /\ w.span # {} /\ Hint(w) = NoYear /\ w.tags = {}
        /\ Top(run.result.score) >= MatchAt /\ Many(contenders)
        /\ One({w.title[c] : c \in contenders})
        /\ ~Unanswered(w, run.asked) /\ contenders \subseteq Hits(w, run.asked)
        /\ \A c \in contenders : w.year[c] # NoYear
        /\ One(ofSpan)
     THEN [run EXCEPT !.result = Resolved(w, Only(ofSpan), run.result.score)] ELSE run

-------------------------------------------------------------------------------

\* The folder as it is, and as it would be, were every request answered.
Answering == {"actual", "ideal"}
Folder(a) == IF a = "actual" THEN world ELSE [world EXCEPT !.failed = {}]

ResolutionInit ==
  /\ \E case \in Cases : world = WorldOf(case)
  /\ step = "parenthetical"
  /\ runs = [a \in Answering |-> First(Folder(a))]

Retry(from, to, Stage(_, _)) ==
  /\ step = from /\ step' = to
  /\ runs' = [a \in Answering |-> Stage(Folder(a), runs[a])]
  /\ UNCHANGED world

RetryParenthetical == Retry("parenthetical", "joined", Parenthetical)
RetryJoinedWords == Retry("joined", "prefix", JoinedWords)
RetryReleasePrefix == Retry("prefix", "root", ReleasePrefix)
RetryRootTitle == Retry("root", "year", RootTitle)
RetryStructuralYear == Retry("year", "resolved", StructuralYear)

ResolutionNext ==
  \/ RetryParenthetical \/ RetryJoinedWords \/ RetryReleasePrefix
  \/ RetryRootTitle \/ RetryStructuralYear
================================================================================
