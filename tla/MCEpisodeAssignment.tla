-------------------------- MODULE MCEpisodeAssignment --------------------------
(* Instances of EpisodeAssignment for TLC: a show of four regular episodes. *)
EXTENDS EpisodeAssignment

AirDate == 10

MCEpisode(id, season, number, title, regular, date) ==
  [id |-> id, season |-> season, number |-> number, title |-> title,
   regular |-> regular, date |-> date, kind |-> id = "s1"]

MCRegular ==
  <<MCEpisode("e1", 1, 1, "a", TRUE, AirDate), MCEpisode("e2", 1, 2, "b", TRUE, AirDate + 1),
    MCEpisode("e3", 1, 3, "c", TRUE, AirDate + 2), MCEpisode("e4", 1, 4, "d", TRUE, AirDate + 3)>>

\* A special with a number and one without, and a second regular "b" in season 2.
MCCatalogs ==
  {<<MCEpisode("s1", 0, 1, "p", FALSE, 5), MCEpisode("s0", 0, NoNumber, "u", FALSE, 4)>> \o MCRegular,
   MCRegular \o <<MCEpisode("f1", 2, 1, "b", TRUE, AirDate + 9), MCEpisode("f2", 2, 2, "e", FALSE, 5)>>}

Source(name) ==
  [name |-> name, season |-> NoSeason, numbers |-> <<>>, absolutes |-> <<>>,
   special |-> NoNumber, date |-> NoDate, segment |-> NoSegment, hint |-> NoHint,
   explicit |-> FALSE, dates |-> {}, early |-> FALSE, foreign |-> FALSE]
AiredSource(name, numbers, hint) ==
  [Source(name) EXCEPT !.season = 1, !.numbers = numbers, !.hint = hint]
Whole(title) == [NoHint EXCEPT !.spells = {title}, !.whole = TRUE]
Spells(titles, joined) == [NoHint EXCEPT !.spells = titles, !.joined = joined]

Pilot == [AiredSource("pilot", <<5>>, Whole("d")) EXCEPT !.early = TRUE, !.dates = {5}]
Shifted == {AiredSource("t2", <<2>>, Whole("a")), AiredSource("t3", <<3>>, Whole("b")),
            AiredSource("t4", <<4>>, Whole("c"))}

Both == AiredSource("compound", <<1>>, Spells({"c", "d"}, TRUE))

\* Two copies of an episode that the title of a third video spells out as well.
Overlapping == {Both, AiredSource("e3", <<3>>, NoHint), AiredSource("e3 again", <<3>>, NoHint)}

MCSources ==
  Shifted \cup Overlapping \cup
  {Pilot,
   AiredSource("e1", <<1>>, NoHint), AiredSource("e1 again", <<1>>, NoHint),
   AiredSource("e12", <<1, 2>>, NoHint), AiredSource("e12 again", <<1, 2>>, Whole("c")),
   AiredSource("disputed", <<1>>, Spells({"b"}, FALSE)),
   AiredSource("near", <<4>>, [NoHint EXCEPT !.near = "d"]),
   AiredSource("untitled special", <<2>>, Whole("u")),
   [AiredSource("decided", <<1>>, Whole("b")) EXCEPT !.explicit = TRUE],
   [AiredSource("dual", <<2>>, NoHint) EXCEPT !.absolutes = <<2>>],
   [Source("absolute") EXCEPT !.absolutes = <<1>>],
   [Source("special") EXCEPT !.special = 1],
   [Source("missing") EXCEPT !.special = 3, !.dates = {5}],
   [AiredSource("zero", <<1>>, NoHint) EXCEPT !.season = 0],
   [Source("dated") EXCEPT !.date = AirDate],
   [AiredSource("segment", <<1>>, [NoHint EXCEPT !.article = "b"]) EXCEPT !.segment = "a"],
   [Source("other segment") EXCEPT !.segment = "b", !.hint = Whole("b")]}
================================================================================
