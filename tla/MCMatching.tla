------------------------------ MODULE MCMatching ------------------------------
(* Instances of Matching for TLC: a folder of up to three videos of a show, and *)
(* folders whose name leaves two shows to choose from.                          *)
EXTENDS Matching, MCEpisodeAssignment

Shows == {"x", "y"}
OnShows(x, y) == [c \in Shows |-> IF c = "x" THEN x ELSE y]
MCRequests == {"alias", "catalog"} \X Shows

\* The show of MCEpisodeAssignment, and one with two episodes of other titles.
MCCatalog == CHOOSE C \in Catalogs : C[1].id = "s1"
MCOther == <<MCEpisode("y1", 1, 1, "b", TRUE, 10), MCEpisode("y2", 1, 2, "a", TRUE, 11)>>

Plain(sources) ==
  [sources |-> sources, names |-> {}, years |-> {}, span |-> {}, tags |-> {}, overrides |-> {},
   hits |-> [q \in Queries |-> IF q = "title" THEN Shows ELSE {}],
   tmdb |-> [q \in Queries |-> {}], titled |-> [t \in {"t", "u"} |-> {}],
   score |-> [q \in Queries |-> OnShows(78, 78)], year |-> OnShows(1, 2), title |-> OnShows("t", "t"),
   alias |-> OnShows(0, 0), catalog |-> OnShows(MCCatalog, MCOther), changed |-> {}, failed |-> {}]

OverrideOf(m) == [show |-> NoShow, year |-> NoYear, mode |-> m]

Title(n, t) == AiredSource("v", n, Whole(t))
Untitled(n) == AiredSource("v", n, NoHint)
PartOf(n, t) == [Title(n, t) EXCEPT !.segment = t]
Absolutely(n) == [Source("v") EXCEPT !.absolutes = <<n>>]

Folders ==
  {{Untitled(<<1>>)}, {Untitled(<<3>>)}, {Untitled(<<1>>), Untitled(<<2>>)}, {Untitled(<<1>>), Untitled(<<3>>)},
   {Title(<<1>>, "b")}, {Title(<<1>>, "a"), Title(<<2>>, "b")},
   Shifted, {Absolutely(1)}, {Absolutely(1), Absolutely(3)}, {Absolutely(1), Untitled(<<1>>)},
   {[Untitled(<<3>>) EXCEPT !.absolutes = <<3>>]}, {[Untitled(<<2>>) EXCEPT !.absolutes = <<2>>]},
   {PartOf(<<1>>, "a"), PartOf(<<2>>, "d")},
   {PartOf(<<1>>, t) : t \in {"a", "b", "c", "e"}} \cup {Untitled(<<4>>)},
   {[Source("v") EXCEPT !.special = 1]}, {[Source("v") EXCEPT !.special = 1, !.date = 5]}}

FewFolders == {{Untitled(<<1>>)}, {Untitled(<<3>>)}, {Untitled(<<1>>), Untitled(<<2>>)}}

\* The folders of a kind, each a tuple of what varies.
Failures(kinds) == SUBSET (kinds \X Shows)

\* Known: the show is, and its videos are what is to be decided.
Known ==
  {"known"} \X ModePool \X Catalogs \X UNION {kSubset(n, SourcePool) : n \in 1..MaxSources}
KnownWorld(m, C, S) ==
  [Plain(S) EXCEPT !.tags = {"x"}, !.overrides = {OverrideOf(m)}, !.catalog["x"] = C]

\* Close: candidates whose scores or catalogs are.
Close ==
  {"close"} \X Folders \X {65, 78, 90} \X {50, 78, 90} \X {0, 90} \X {{}, {1}} \X {NoYear, 1}
            \X Failures({"alias", "catalog"})
CloseWorld(S, x, y, a, years, y2, failed) ==
  [Plain(S) EXCEPT !.score["title"] = OnShows(x, y), !.alias = OnShows(a, 0),
                   !.years = years, !.year["y"] = y2, !.failed = failed]

\* Renamed: by another name of the folder the other show is found.
Renamed(names, failures) ==
  {"renamed"} \X names \X FewFolders \X {{}, {"x"}, Shows} \X {50, 90} \X {78, 90} \X {{}, {"y"}}
              \X (SUBSET {"title", "other"}) \X failures
RenamedWorld(n, S, found, x, y, changed, searches, failed) ==
  [Plain(S) EXCEPT
     !.names = IF n = "first" THEN {"first", "second"} ELSE {n},
     !.hits["title"] = found, !.hits[n] = {"y"}, !.changed = changed,
     !.score = [q \in Queries |-> IF q = n THEN OnShows(50, y) ELSE OnShows(x, 50)],
     !.failed = failed \cup {<<"search", IF q = "other" THEN n ELSE q>> : q \in searches}]

\* Searched: of two shows of different titles, by TVMaze and by TMDb.
Searched ==
  {"searched"} \X {{Untitled(<<1>>)}, {Untitled(<<3>>)}} \X {{}, {"x"}, Shows}
    \X (SUBSET {"t", "u"}) \X {{"y"}, Shows} \X {50, 90} \X {78, 90}
    \X SUBSET {<<"search", "title">>, <<"tmdb", "title">>, <<"retry", "t">>, <<"retry", "u">>}
SearchedWorld(S, hits, tmdb, u, x, y, failed) ==
  [Plain(S) EXCEPT
     !.hits["title"] = hits, !.tmdb["title"] = tmdb, !.title = OnShows("t", "u"),
     !.titled["t"] = {"x"}, !.titled["u"] = u, !.score["title"] = OnShows(x, y), !.failed = failed]

\* Spanned: two shows of one title, in a folder that is named for a year.
Spanned == {"spanned"} \X Folders \X {50, 90}
SpannedWorld(S, y) == [Plain(S) EXCEPT !.score["title"] = OnShows(90, y), !.span = {1}]

\* Refused: what is known of the show contradicts itself, or decides.
RefusedCases ==
  {"refused"} \X {{}, {1}, {1, 2}} \X {{}, {"x"}, {"x", "y"}}
    \X {{}, {OverrideOf("aired")}, {[OverrideOf("absolute") EXCEPT !.year = 2]},
        {[OverrideOf("aired") EXCEPT !.show = "y"]}, {OverrideOf("aired"), OverrideOf("special")}}
RefusedWorld(years, tags, overrides) ==
  [Plain({Untitled(<<1>>)}) EXCEPT !.years = years, !.tags = tags, !.overrides = overrides]

MCWorldOf(c) ==
  CASE c[1] = "known" -> KnownWorld(c[2], c[3], c[4])
    [] c[1] = "close" -> CloseWorld(c[2], c[3], c[4], c[5], c[6], c[7], c[8])
    [] c[1] = "renamed" -> RenamedWorld(c[2], c[3], c[4], c[5], c[6], c[7], c[8], c[9])
    [] c[1] = "searched" -> SearchedWorld(c[2], c[3], c[4], c[5], c[6], c[7], c[8])
    [] c[1] = "spanned" -> SpannedWorld(c[2], c[3])
    [] c[1] = "refused" -> RefusedWorld(c[2], c[3], c[4])

\* Where a failed catalog decides after all, between the halves of a pair and between
\* the years of a folder, all of the catalogs answer.
MCCases ==
  Known \cup Close \cup Searched \cup Spanned \cup RefusedCases
  \cup Renamed({"prefix", "joined", "stripped", "root"}, Failures({"catalog"}))
  \cup Renamed({"first"}, {{}})
================================================================================
