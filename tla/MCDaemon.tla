------------------------------ MODULE MCDaemon ------------------------------
EXTENDS Daemon

Q(labels, type) ==
    [header |-> TRUE, qdcount |-> 1, name |-> "whole", labels |-> labels, type |-> type,
     class |-> "IN", opt |-> FALSE]

\* Local and foreign names, with and without EDNS, and what handle drops.
QueryMix ==
    {Q(<<"app", "VIBE">>, "A"), Q(<<"vibe">>, "AAAA"), Q(<<"app", "vibe">>, "TXT"),
     Q(<<"myvibe">>, "A"),
     [Q(<<"app", "vibe">>, "A") EXCEPT !.opt = TRUE],
     [Q(<<"app", "vibe">>, "A") EXCEPT !.qdcount = 2],
     [Q(<<"app", "vibe">>, "A") EXCEPT !.class = "CH"],
     [Q(<<>>, "A") EXCEPT !.qdcount = 0],
     [Q(<<>>, "A") EXCEPT !.name = "pointer"]}
=============================================================================
