-------------------------------- MODULE MCMux --------------------------------
(* Instances of Mux for TLC.                                               *)
EXTENDS Mux

S == "/"

MCNames == {"a", "b", "h"}
MCHosts == {<<"h">>}

MCPatterns ==
    {<<S>>, <<S, "a">>, <<S, "a", S>>, <<S, "a", S, "b">>, <<S, "a", S, "b", S>>,
     <<S, "b", S>>, <<"h", S, "a">>, <<"h", S, "a", S>>}

\* Up to three segments, empty and dot segments among them, with and without
\* the slash in front and behind.
Segs == UNION {[1..n -> {<<"a">>, <<"b">>, <<".">>, <<"..">>, <<>>}] : n \in 0..3}
Raw(s) ==
    LET first == IF Len(s) > 0 THEN s[1] ELSE <<>>
        second == IF Len(s) > 1 THEN <<S>> \o s[2] ELSE <<>>
        third == IF Len(s) > 2 THEN <<S>> \o s[3] ELSE <<>>
    IN  first \o second \o third
MCRequests ==
    LET paths == {Raw(s) : s \in Segs}
    IN  paths \cup {<<S>> \o p : p \in paths} \cup {p \o <<S>> : p \in paths}
=============================================================================
