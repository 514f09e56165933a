---------------------------- MODULE MCReviewSession ----------------------------
(***************************************************************************)
(* A small plan for TLC: a duplicate group and two held sources of one     *)
(* show.                                                                   *)
(***************************************************************************)
EXTENDS ReviewSession

CONSTANTS sameRelease, unmatched, series, tvdb, none

MCDuplicates == {2}
MCEvidence == [r \in 1..3 |-> IF r = 2 THEN sameRelease ELSE unmatched]
MCShowOf == [r \in 1..3 |-> series]
MCPrepared ==
  [r \in 1..3 |-> IF r = 2 THEN {Choice("defer", "keep"), Choice("quarantine_candidate", "keep")}
                  ELSE {Choice("episode", "keep")}]
MCCommandLines ==
  {Plain,
   [Plain EXCEPT !.batch = Kinds],
   [Plain EXCEPT !.filter = MCDuplicates, !.approve = TRUE, !.batch = {"duplicate"}],
   [Plain EXCEPT !.pendingOnly = TRUE, !.approve = TRUE],
   [Plain EXCEPT !.answers = TRUE]}
===============================================================================
