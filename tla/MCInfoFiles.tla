----------------------------- MODULE MCInfoFiles -----------------------------
(* InfoFiles on small texts, for TLC. *)
EXTENDS InfoFiles

CONSTANT LongestLine

(* transfer.info: an address and a port, a user name and a file, with or   *)
(* without an end of line at the end; or too little.                       *)
MCLetters == {"a"}
Chars == {"a", "1", ":", "nul"}
Words(n) == UNION {[1 .. k -> Chars] : k \in 0 .. n}
Ports == {<<"1", "0", "1">>, <<"1", "a">>}
MCTexts ==
    {Join(<<"a", ":">> \o p, n, f) \o e :
        p \in Ports, n \in Words(LongestLine),
        f \in {<<>>, <<"a">>}, e \in {<<>>, <<"\n">>}}
    \cup {<<"a", "\n", "a">>}

MCIds == [1 .. 2 -> {0, 3}]
MCKey == <<"a", "1">>

(* Behind a buffer: the next zero, or something in front of it. *)
MCGarbage == {<<>>, <<"a">>, <<"\n", "a">>}
=============================================================================
