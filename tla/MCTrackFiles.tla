---------------------------- MODULE MCTrackFiles ----------------------------
(* Three titles of up to three lengths; MINLENGTH is the middle one.         *)
EXTENDS TrackFiles

(* The user's name stays apart from the job's title, or is cleaned to it, or *)
(* is the name the job's title gets for track 1.                            *)
MCCleanings == {[n \in Name |-> n],
                [n \in Name |-> <<"job", n[2]>>],
                [n \in Name |-> IF n[1] = "A" THEN <<"job", <<1>> \o n[2]>> ELSE n]}
=============================================================================
