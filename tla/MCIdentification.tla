-------------------------- MODULE MCIdentification --------------------------
(* Discs udev knows at once, later or never, with and without a label. *)
EXTENDS Identification

SomeDiscs ==
    {d \in Disc : /\ d.later \in {d.udev, "music", d.files}
                  /\ d.udev \in {"unknown", "music", d.files}
                  /\ d.udev # "unknown" => d.later = d.udev
                  /\ d.files # "bluray4k"}

(* The provider matters, and PREVENT_99, only when a title is asked for. *)
SomeConfigs == {[title |-> FALSE, prevent99 |-> FALSE, provider |-> "omdb"],
                [title |-> TRUE,  prevent99 |-> FALSE, provider |-> "omdb"],
                [title |-> TRUE,  prevent99 |-> TRUE,  provider |-> "tmdb"]}

SomeQueries == {<< >>, <<"+">>, <<"-">>, <<"-", "+">>, <<"+", "-">>, <<"-", "-", "+">>}

(* The work itself, a remake, one of another name, one without a year. *)
SomeWorks == {[fit |-> 10, years |-> 0, type |-> "movie"], [fit |-> 10, years |-> 3, type |-> "movie"],
              [fit |-> 5,  years |-> 0, type |-> "movie"], [fit |-> 10, years |-> 4, type |-> "series"]}
=============================================================================
