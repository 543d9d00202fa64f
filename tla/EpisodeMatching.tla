--------------------------- MODULE EpisodeMatching ---------------------------
(***************************************************************************)
(* Which episode of a series is on which track                             *)
(* (arm/services/tvdb_sync.py, arm/services/matching/, tvdb.py, and the     *)
(* episode calls of arm/api/v1/jobs.py).                                    *)
(*                                                                          *)
(* Each job is a disc of one series. Its ripper matches it when the titles  *)
(* have been scanned; the user matches it again, as a preview or to apply   *)
(* it, or numbers the tracks by hand. The tracks of a disc whose number is  *)
(* known are laid over a window of the season; others go to the episodes    *)
(* that are as long. Episodes that other discs have are left out.           *)
(*                                                                          *)
(* Abstractions: names of episodes, the token of the service, its pages;    *)
(* times are in units of 30 s, and the fractions of a window are exact.     *)
(* One match per job is under way at a time.                                *)
(***************************************************************************)
EXTENDS Integers, FiniteSets, FiniteSetsExt, SequencesExt

CONSTANTS
    Discs,       \* the jobs
    Tracks,      \* tracks of a disc are numbered 0 .. Tracks - 1
    Contents,    \* what may be on them: [Discs -> [0 .. Tracks - 1 -> lengths]]
    Series,      \* the seasons there may be: sequences of sequences of runtimes
    Numberings,  \* what may be known: [Discs -> number of the disc, 0 for none]
    Totals,      \* and how many discs the set has, 0 for none
    MainLength,  \* the shortest track that may be an episode, 120 s
    Tolerance,   \* TVDB_MATCH_TOLERANCE, 300 s
    Bias,        \* what an episode off the expected place costs, 30 s
    MaxCalls     \* bound: calls of the user

ASSUME MatchingAssumption ==
    /\ Tracks \in Nat \ {0}
    /\ Contents \subseteq [Discs -> [0 .. Tracks - 1 -> Nat]]
    /\ {MainLength, Tolerance, Bias, MaxCalls} \subseteq Nat

VARIABLES
    seasons,  \* the episodes' runtimes, by season and number; never changes
    length,   \* [Discs -> lengths of its tracks]; never changes
    disc,     \* the columns of each job that matching reads and writes
    row,      \* [Discs -> [track -> its episode]]; `of` is a history: the
              \* season it was matched in, 0 for a number given by hand
    run,      \* the match under way
    calls

vars == <<seasons, length, disc, row, run, calls>>

-----------------------------------------------------------------------------
TrackIds  == 0 .. Tracks - 1
Seasons   == 1 .. Len(seasons)
Unmatched == [episode |-> 0, of |-> 0]
Idle      == [by |-> "nobody"]
Absolute(x) == IF x < 0 THEN -x ELSE x

Init ==
    /\ seasons \in Series
    /\ length \in Contents
    /\ \E number \in Numberings, total \in Totals :
         disc = [d \in Discs |-> [number |-> number[d], total |-> total, season |-> 0,
                                  seasonAuto |-> 0, known |-> FALSE, multi |-> FALSE,
                                  expected |-> 0, asked |-> FALSE]]
    /\ row = [d \in Discs |-> [t \in TrackIds |-> Unmatched]]
    /\ run = [d \in Discs |-> Idle]
    /\ calls = 0

-----------------------------------------------------------------------------
(* The pure part. A matching is a set of pairs of positions, one in the      *)
(* sequence of main tracks, one in the sequence of episodes.                *)
MainTracks(d) == SelectSeq([i \in 1 .. Tracks |-> i - 1], LAMBDA t : length[d][t] >= MainLength)
Episodes(s, excluded) == SelectSeq([e \in 1 .. Len(seasons[s]) |-> e], LAMBDA e : e \notin excluded)

Apart(d, s, t, e) == Absolute(length[d][t] - seasons[s][e])

(* Faulty variant: pairs are left as they were found. *)
InSequence_AsFound(pairs) == pairs

(* The tracks and the episodes that found each other, both in order. *)
InSequence(pairs) ==
    LET ts == {p[1] : p \in pairs}
        es == {p[2] : p \in pairs}
    IN {p \in ts \X es : Cardinality({t \in ts : t < p[1]}) = Cardinality({e \in es : e < p[2]})}

(* _match_greedy: the closest pair first, of those that are close enough.    *)
Greedy(d, s, tracks, episodes) ==
    LET pairs == {[apart |-> Apart(d, s, tracks[i], episodes[j]), track |-> i, episode |-> j] :
                    i \in DOMAIN tracks, j \in DOMAIN episodes}
        before(p, q) == \/ p.apart < q.apart
                        \/ p.apart = q.apart /\ (p.track < q.track
                                                  \/ (p.track = q.track /\ p.episode < q.episode))
        take(so, k) ==
          LET closest == {p \in so.free : \A q \in so.free \ {p} : before(p, q)}
          IN [taken |-> so.taken \cup closest,
              free  |-> {q \in so.free : \A p \in closest : p.track # q.track /\ p.episode # q.episode}]
        none == [taken |-> {}, free |-> {p \in pairs : p.apart <= Tolerance}]
    IN InSequence({<<p.track, p.episode>> : p \in FoldLeft(take, none, tracks).taken})

(* Faulty variant: the centre of the disc's share is taken at its end. *)
Centre_AtEnd(number, episodes) == 4 * number * episodes

(* Where the middle of the disc lies in the season, times four times the     *)
(* number of discs.                                                         *)
Centre(number, episodes) == (4 * number - 2) * episodes

(* _match_windowed: the run of episodes around there that fits best.         *)
Window(number, discs, n, m) ==
    LET unit   == 4 * discs
        centre == Centre(number, m)
        half   == Max({3 * m, 3 * n * discs})
        from   == IF centre < half THEN 0 ELSE (centre - half) \div unit
        to     == Min({m, (centre + half + unit) \div unit})
        short  == Max({0, n - (to - from)})
    IN [from |-> Max({0, from - (short + 1) \div 2}), to |-> Min({m, to + (short + 1) \div 2})]

Windowed(d, s, tracks, episodes, number, total) ==
    LET n     == Len(tracks)
        discs == IF total # 0 THEN total ELSE number
        unit  == 4 * discs
        w     == Window(number, discs, n, Len(episodes))
        width == Max({0, w.to - w.from})
        spare == width - n
        hoped == Max({0, Min({spare * unit,
                              Centre(number, Len(episodes)) - w.from * unit - 2 * n * discs})})
        cost(o) == unit * MapThenSumSet(LAMBDA i : Apart(d, s, tracks[i], episodes[w.from + o + i]),
                                        1 .. n)
                   + Bias * Absolute(o * unit - hoped)
        cheapest(o) == \A p \in 0 .. spare : cost(o) < cost(p) \/ (cost(o) = cost(p) /\ o <= p)
        offset == IF spare <= 0 THEN 0 ELSE CHOOSE o \in 0 .. spare : cheapest(o)
    IN {<<i, w.from + offset + i>> : i \in 1 .. Min({n, width})}

(* match_tracks_to_episodes, as a set of pairs <<track, episode>>.           *)
Matches(d, s, number, total, excluded) ==
    LET tracks   == MainTracks(d)
        episodes == Episodes(s, excluded)
        greedy   == Greedy(d, s, tracks, episodes)
        windowed == {p \in Windowed(d, s, tracks, episodes, number, total) :
                        Apart(d, s, tracks[p[1]], episodes[p[2]]) <= Tolerance}
    IN IF tracks = << >> \/ episodes = << >> THEN {}
       ELSE {<<tracks[p[1]], episodes[p[2]]>> :
               p \in IF number > 0 /\ Cardinality(greedy) <= Cardinality(windowed)
                       THEN windowed ELSE greedy}

(* match_tracks_best_season: the most matches, then the least off on average,*)
(* then the earlier season.                                                 *)
BestSeason(d, number, total, excluded) ==
    LET results == {[season |-> s, found |-> Matches(d, s, number, total, excluded)] : s \in Seasons}
        count(r) == Cardinality(r.found)
        off(r)   == MapThenSumSet(LAMBDA p : Apart(d, r.season, p[1], p[2]), r.found)
        better(r, q) == \/ count(r) > count(q)
                        \/ count(r) = count(q) /\ off(r) * count(q) < off(q) * count(r)
    IN CHOOSE r \in results : \A q \in results : better(r, q) \/ (~better(q, r) /\ r.season <= q.season)

(* _match_single_season or _match_best_season. *)
Outcome(d, season, number, total, excluded) ==
    IF season = 0 THEN BestSeason(d, number, total, excluded)
    ELSE [season |-> season,
          found  |-> IF season \notin Seasons THEN {} ELSE Matches(d, season, number, total, excluded)]

-----------------------------------------------------------------------------
(* Faulty variant: what the other discs have is not asked. *)
Excluded_Nothing(d, season, number) == {}

(* get_excluded_episodes: what tracks of other discs of the series are, of   *)
(* the season if it is known. Another run of the same disc does not count.  *)
Excluded(d, season, number) ==
    IF ~disc[d].known THEN {}
    ELSE {row[o][t].episode : <<o, t>> \in
            {p \in (Discs \ {d}) \X TrackIds :
               /\ disc[p[1]].known
               /\ number # 0 => disc[p[1]].number # number
               /\ season # 0 => season \in {disc[p[1]].season, disc[p[1]].seasonAuto}
               /\ row[p[1]][p[2]].episode # 0}}

KnownSeason(d) == IF disc[d].season # 0 THEN disc[d].season ELSE disc[d].seasonAuto

(* History: the episodes matched on the other discs, with their seasons,     *)
(* where the season is still one that disc is said to be of.                *)
Others(d, number) ==
    {<<row[o][t].of, row[o][t].episode>> : <<o, t>> \in
       {p \in (Discs \ {d}) \X TrackIds :
          /\ disc[p[1]].number # number
          /\ row[p[1]][p[2]].of \in {disc[p[1]].season, disc[p[1]].seasonAuto} \ {0}}}

(* A match looks at the job and at the other discs, and asks the service;    *)
(* it is back with the episodes, and what it makes of them, seconds later.  *)
(* When the look at the other discs raises, nothing is excluded and the     *)
(* match goes on; `heard` is history.                                       *)
Look(d, by, season, number, total, mayApply) ==
    /\ run[d] = Idle
    /\ \E excluded \in {Excluded(d, season, number), {}}, apply \in mayApply :
         LET outcome == Outcome(d, season, number, total, excluded)
         IN run' = [run EXCEPT ![d] =
                    [by |-> by, single |-> season \in Seasons, number |-> number, total |-> total,
                     apply |-> apply, season |-> outcome.season, found |-> outcome.found,
                     alone |-> excluded = {}, knew |-> disc[d].known,
                     heard |-> excluded = Excluded(d, season, number), others |-> Others(d, number)]]

(* The ripper, once, when the titles are scanned (main.py). *)
MatchEpisodes(d) ==
    /\ ~disc[d].asked
    /\ disc' = [disc EXCEPT ![d].asked = TRUE]
    /\ Look(d, "ripper", KnownSeason(d), disc[d].number, disc[d].total, {TRUE})
    /\ UNCHANGED <<seasons, length, row, calls>>

(* The user, with or without a season and a number of the disc. *)
TvdbMatch(d) ==
    /\ calls < MaxCalls
    /\ calls' = calls + 1
    /\ \E season \in {0} \cup Seasons, number \in {disc[d].number, 1, 2} :
         Look(d, "user", IF season # 0 THEN season ELSE KnownSeason(d), number, disc[d].total,
              BOOLEAN)
    /\ UNCHANGED <<seasons, length, disc, row>>

(* _apply_matches. Tracks without a match keep what they had. *)
Applied(d) ==
    [t \in TrackIds |-> IF \E p \in run[d].found : p[1] = t
                          THEN [episode |-> (CHOOSE p \in run[d].found : p[1] = t)[2],
                                of      |-> run[d].season]
                          ELSE row[d][t]]

Expecting(d) == [disc[d] EXCEPT !.expected = IF run[d].single THEN run[d].season ELSE @]

(* match_episodes_sync. *)
RipperApplies(d) ==
    /\ run[d].by = "ripper"
    /\ IF run[d].found = {}
         THEN /\ disc' = [disc EXCEPT ![d] = Expecting(d)]
              /\ row' = row
         ELSE /\ disc' = [disc EXCEPT ![d] =
                            [Expecting(d) EXCEPT !.known = TRUE,
                               !.seasonAuto = IF disc[d].season = 0 THEN run[d].season ELSE @]]
              /\ row' = [row EXCEPT ![d] = Applied(d)]
    /\ run' = [run EXCEPT ![d] = Idle]
    /\ UNCHANGED <<seasons, length, calls>>

(* match_episodes_for_api and tvdb_match. The number of the disc is set on   *)
(* the row for the run; any commit before it is restored keeps it.          *)
Previewed(d) ==
    [Expecting(d) EXCEPT !.known = TRUE,
                         !.number = IF run[d].single \/ ~run[d].knew THEN run[d].number ELSE @]

UserApplies(d) ==
    /\ run[d].by = "user"
    /\ LET applied == run[d].apply /\ run[d].found # {}
       IN /\ disc' = [disc EXCEPT ![d] =
                        IF ~run[d].apply THEN Previewed(d)
                        ELSE [Expecting(d) EXCEPT !.known = TRUE, !.number = run[d].number,
                                !.multi = TRUE,
                                !.seasonAuto = IF applied THEN run[d].season ELSE @]]
          /\ row' = IF applied THEN [row EXCEPT ![d] = Applied(d)] ELSE row
    /\ run' = [run EXCEPT ![d] = Idle]
    /\ UNCHANGED <<seasons, length, calls>>

(* The service does not answer, or does not know the series. What was set    *)
(* on the row before a match that is applied is saved all the same.         *)
Unanswered(d) ==
    /\ run[d] # Idle
    /\ disc' = IF run[d].by = "user" /\ run[d].apply
                 THEN [disc EXCEPT ![d].number = run[d].number, ![d].multi = TRUE] ELSE disc
    /\ run' = [run EXCEPT ![d] = Idle]
    /\ UNCHANGED <<seasons, length, row, calls>>

-----------------------------------------------------------------------------
Call == calls < MaxCalls /\ calls' = calls + 1 /\ UNCHANGED <<seasons, length, run>>

(* auto_number_episodes, of tracks that are all enabled. *)
AutoNumber(d) ==
    /\ Call
    /\ \E start \in {1, Tracks + 1} :
         row' = [row EXCEPT ![d] = [t \in TrackIds |-> [episode |-> start + t, of |-> 0]]]
    /\ disc' = disc

(* update_job_title, of the season and the number of the disc. *)
UpdateSeason(d) ==
    /\ Call
    /\ \E season \in Seasons : disc' = [disc EXCEPT ![d].season = season]
    /\ row' = row

UpdateNumber(d) ==
    /\ Call
    /\ \E number \in {1, 2} : disc' = [disc EXCEPT ![d].number = number]
    /\ row' = row

Next == \E d \in Discs :
    \/ MatchEpisodes(d) \/ TvdbMatch(d)
    \/ RipperApplies(d) \/ UserApplies(d) \/ Unanswered(d)
    \/ AutoNumber(d) \/ UpdateSeason(d) \/ UpdateNumber(d)

Spec == Init /\ [][Next]_vars

-----------------------------------------------------------------------------
Answered(d) == run[d] # Idle /\ row'[d] # row[d] /\ run'[d] = Idle
Given(d) == {t \in TrackIds : row'[d][t] # row[d][t]}

(* What a match writes has the tracks in the order of their episodes, no     *)
(* episode twice, and nothing on a track that is too short to be one.       *)
(* (tvdb_matcher.py 358-372, "track sequence -> episode sequence")          *)
InOrder ==
    [][\A d \in Discs : Answered(d) =>
         /\ \A t, u \in {p[1] : p \in run[d].found} :
              t < u => row'[d][t].episode < row'[d][u].episode
         /\ \A t \in Given(d) : length[d][t] >= MainLength]_vars

(* Discs of a set that share a season of equally long episodes evenly, and   *)
(* whose numbers are known, are given each their own share of it, when      *)
(* nothing is left out. (tvdb_matcher.py 209-223)                           *)
Even(d) ==
    /\ run[d].season \in Seasons
    /\ run[d].number \in 1 .. run[d].total
    /\ Len(seasons[run[d].season]) = run[d].total * Len(MainTracks(d))
    /\ \A e \in DOMAIN seasons[run[d].season], i \in DOMAIN MainTracks(d) :
         length[d][MainTracks(d)[i]] = seasons[run[d].season][e]
    /\ run[d].alone

SplitsSeason ==
    [][\A d \in Discs : (Answered(d) /\ Even(d)) =>
         \A i \in DOMAIN MainTracks(d) :
           row'[d][MainTracks(d)[i]].episode = (run[d].number - 1) * Len(MainTracks(d)) + i]_vars

(* A match that knows the series, and whose look at the other discs did not  *)
(* fail, gives no episode that another disc of the set already had from a   *)
(* match in that season when this one began.                                *)
(* (cross_disc.py 3-6, "excluded from matching on the current disc to       *)
(* prevent duplicates")                                                     *)
SiblingsRespected ==
    [][\A d \in Discs : (Answered(d) /\ run[d].knew /\ run[d].heard) =>
         \A t \in Given(d) : <<run[d].season, row'[d][t].episode>> \notin run[d].others]_vars
=============================================================================
