------------------------------- MODULE MCPlanning -------------------------------
(* Three releases of one show in two folders of the inbox, and two subtitles. *)
EXTENDS Planning, TLC

CONSTANTS first, second, later, firstSub, secondSub

MCVideos == {first, second, later}
MCSidecars == {firstSub, secondSub}
MCFolderOf == [v \in MCVideos |-> IF v = second THEN "batch" ELSE "show"]
MCExtensionOf == [v \in MCVideos |-> IF v = second THEN ".mp4" ELSE ".mkv"]
MCQuality == [v \in MCVideos |->
  [errors |-> FALSE, family |-> "web", remux |-> FALSE, revision |-> 0,
   resolution |-> IF v = second THEN 720 ELSE 1080]]
MCBeside == (firstSub :> {first}) @@ (secondSub :> {second})
MCKindOf == [s \in MCSidecars |-> "subtitle"]
MCSuffixOf == [s \in MCSidecars |-> ".en"]
MCFormatOf == [s \in MCSidecars |-> ".srt"]

Same == [v \in MCVideos |-> Episodes("Show", {1})]
\* Two extras of one title, and a file that is not understood.
Extras == (first :> Extra("Show", "extra", 9)) @@ (second :> Extra("Show", "creditless-opening", 9))
          @@ (later :> Unclear("unresolved", "Show"))
\* A double episode beside one of the two, and a second double.
Doubles == (first :> Episodes("Show", {1})) @@ (second :> Episodes("Show", {1, 2}))
           @@ (later :> Episodes("Show", {1, 2}))

\* Two episodes, one of them twice.
Pair == [v \in MCVideos |-> Episodes("Show", IF v = first THEN {1} ELSE {2})]

MCFindings == {Same, Extras, Doubles, Pair}
\* What is missing at first: a subtitle, as that of a winner keeps its plan from
\* being ready, the third release, or both.
MCAbsences == {{firstSub}, {later}, {later, firstSub}, {later, secondSub}, {later, firstSub, secondSub}}

\* A change of the library, with a second answer or with a bundle that is kept.
MCBudgets ==
  {[changes |-> 1, reviews |-> 2, saved |-> 0], [changes |-> 1, reviews |-> 1, saved |-> 1],
   [changes |-> 0, reviews |-> 2, saved |-> 1]}

MCAnswers == {Episodes("Show", {1}), Extra("Show", "extra", 9)}
===============================================================================
