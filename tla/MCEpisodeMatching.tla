--------------------------- MODULE MCEpisodeMatching ---------------------------
(* Two discs of two episodes and a trailer each: the first is the first of   *)
(* the set, the second, that may be of another season, has no number yet.   *)
EXTENDS EpisodeMatching

TwoSeasons == {<< <<40, 40, 40, 40>>, <<40, 90>> >>}
Contained  == {[d \in Discs |-> IF d = 1 THEN [t \in 0 .. 2 |-> <<40, 40, 2>>[t + 1]] ELSE second] :
                 second \in {[t \in 0 .. 2 |-> c[t + 1]] : c \in {<<40, 40, 2>>, <<90, 40, 2>>}}}
Numbered   == {[d \in Discs |-> IF d = 1 THEN 1 ELSE 0]}
=============================================================================
