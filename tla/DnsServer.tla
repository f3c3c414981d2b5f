------------------------------ MODULE DnsServer ------------------------------
(***************************************************************************)
(* The DNS resolver of the serving daemon (internal/dns/server.go): A and  *)
(* AAAA questions under the TLD are answered here, all others go to the    *)
(* upstream resolver.  One goroutine reads, one per query answers.         *)
(*                                                                         *)
(* A query is what the code looks at: its length, QDCOUNT, the first       *)
(* question's labels, type and class, whether a second question and an     *)
(* EDNS record follow.  A reply is header counts beside what its body      *)
(* holds, for a strict client reads one by the other.                      *)
(***************************************************************************)
EXTENDS DaemonProcess, Sequences

CONSTANTS
    Client,  \* clients with one query each
    Queries, \* the queries they may send
    NoReply  \* nothing received

\* A query: no header; a question name that is cut off or holds a pointer.
Query == [header : BOOLEAN, qdcount : 0..2, name : {"whole", "cut", "pointer"},
          labels : Seq(STRING), type : {"A", "AAAA", "TXT"}, class : {"IN", "CH"},
          opt : BOOLEAN]

Reply == [rcode : {"NOERROR", "SERVFAIL", "upstream"}, qdcount : 0..2, questions : 0..2,
          ancount : 0..1, answers : 0..1, arcount : 0..1, extras : 0..1]

ASSUME QueriesAssumption == \A q \in Queries : q \in Query

VARIABLES
    dnsOn,   \* cfg.Daemon.DNS.Enabled
    reading, \* the read loop runs: Start succeeded, and serve has not returned
    client   \* per client: how far its query is, the query, the reply

dnsVars == <<dnsOn, reading, client>>

DnsTypeOK ==
    /\ {dnsOn, reading} \subseteq BOOLEAN
    /\ \A c \in Client :
         /\ client[c].at \in {"idle", "socket", "handler", "upstream", "answered", "dropped",
                              "lost"}
         /\ client[c].query \in Queries
         /\ client[c].reply \in Reply \cup {NoReply}

DnsInit ==
    /\ dnsOn \in BOOLEAN
    /\ reading = FALSE
    /\ client = [c \in Client |-> [at |-> "idle", query |-> CHOOSE q \in Queries : TRUE,
                                  reply |-> NoReply]]

-----------------------------------------------------------------------------
\* Messages

\* The first question can be walked to its end (questionEnd, parseQuestion).
Walks(q) == q.header /\ (q.qdcount = 0 \/ q.name = "whole")
ParsesQuestion(q) == Walks(q) /\ q.qdcount > 0

\* strings.ToLower, of the labels at hand.
Lower(label) == IF label = "VIBE" THEN "vibe" ELSE label

\* nameEndsInTLD: the last label is the TLD, not a name that merely ends like it.
nameEndsInTLD(labels) == labels # <<>> /\ Lower(labels[Len(labels)]) = "vibe"

IsLocal(q) == q.class = "IN" /\ q.type \in {"A", "AAAA"} /\ nameEndsInTLD(q.labels)

\* The query up to the end of its first question, with the counts behind cleared.
Echo(q, rcode) ==
    [rcode |-> rcode, qdcount |-> q.qdcount, questions |-> IF q.qdcount > 0 THEN 1 ELSE 0,
     ancount |-> 0, answers |-> 0, arcount |-> 0, extras |-> 0]

\* servfail: of a query that cannot be walked the header alone, without question.
servfail(q) == IF Walks(q) THEN Echo(q, "SERVFAIL")
                           ELSE [Echo(q, "SERVFAIL") EXCEPT !.qdcount = 0, !.questions = 0]

\* Defect: the query is echoed whole, its EDNS record with it.
buildLocalResponse_whole(q) ==
    LET n == IF q.type = "A" THEN 1 ELSE 0
    IN  [Echo(q, "NOERROR") EXCEPT !.ancount = n, !.answers = n,
                                   !.extras = IF q.opt THEN 1 ELSE 0]

\* An A record of 127.0.0.1; for AAAA nothing, so that the client asks for A.
buildLocalResponse(q) ==
    IF ~Walks(q) THEN servfail(q)
    ELSE LET n == IF q.type = "A" THEN 1 ELSE 0
         IN  [Echo(q, "NOERROR") EXCEPT !.ancount = n, !.answers = n]

FromUpstream(q) == [Echo(q, "upstream") EXCEPT !.questions = q.qdcount]

-----------------------------------------------------------------------------
\* The server

\* New and Start as a daemon begins to serve: its port is free, or another resolver
\* has it and the daemon goes on without DNS.
DnsAnew(boots, free) ==
    /\ reading' = (boots /\ dnsOn /\ free)
    /\ client' = [c \in Client |->
                    IF client[c].at \in {"idle", "answered", "dropped"} THEN client[c]
                    ELSE [client[c] EXCEPT !.at = "lost"]]
    /\ UNCHANGED dnsOn

Moves(c, from, to) ==
    /\ client[c].at = from
    /\ client' = [client EXCEPT ![c].at = to]

Answers(c, from, r) ==
    /\ client[c].at = from
    /\ client' = [client EXCEPT ![c].at = IF r = NoReply THEN "dropped" ELSE "answered",
                                ![c].reply = r]

Asks(c, q) ==
    /\ client[c].at = "idle" /\ dnsOn
    /\ client' = [client EXCEPT ![c] = [at |-> IF reading THEN "socket" ELSE "lost",
                                        query |-> q, reply |-> NoReply]]
    /\ UNCHANGED <<dnsOn, reading, events>>

\* serve: one query after the other is handed to a goroutine.
Reads(c) ==
    /\ reading
    /\ Moves(c, "socket", "handler")
    /\ UNCHANGED <<dnsOn, reading, events>>

\* Defect: the first read error ends the loop.
ReadFails_returns ==
    /\ reading /\ Event
    /\ reading' = FALSE
    /\ UNCHANGED <<dnsOn, client>>

\* An error that is not ErrClosed (a vanished client's port unreachable) is logged.
ReadFails ==
    /\ reading /\ Event
    /\ UNCHANGED dnsVars

\* handle: drop what has no header or question, answer, or forward.
Handles(c) ==
    LET q == client[c].query
    IN  /\ \/ ~ParsesQuestion(q) /\ Answers(c, "handler", NoReply)
           \/ ParsesQuestion(q) /\ IsLocal(q) /\ Answers(c, "handler", buildLocalResponse(q))
           \/ ParsesQuestion(q) /\ ~IsLocal(q) /\ Moves(c, "handler", "upstream")
        /\ UNCHANGED <<dnsOn, reading, events>>

\* forward: the upstream's answer is relayed, or a second runs out, or no socket.
Forwards(c) ==
    /\ Answers(c, "upstream", FromUpstream(client[c].query))
       \/ Answers(c, "upstream", servfail(client[c].query))
    /\ UNCHANGED <<dnsOn, reading, events>>

Serves(c) == Reads(c) \/ Handles(c) \/ Forwards(c)

DnsNext ==
    \/ ReadFails
    \/ \E c \in Client : Serves(c) \/ \E q \in Queries : Asks(c, q)

-----------------------------------------------------------------------------
\* Properties

\* The header of a reply made here agrees with its body, whatever the query carried
\* behind its question (EDNS records that "strict parsers consume as the answer
\* record").  A query of two questions is echoed with one and QDCOUNT 2.
RepliesParse ==
    \A c \in Client : client[c].at = "answered" /\ client[c].query.qdcount < 2 =>
        LET r == client[c].reply
        IN  r.qdcount = r.questions /\ r.ancount = r.answers /\ r.arcount = r.extras

\* A query with a question that reached the resolver is answered, however many reads
\* fail and however slow the upstream is, unless the daemon dies first.
QueriesAreAnswered ==
    \A c \in Client :
        client[c].at = "socket" /\ ParsesQuestion(client[c].query)
            ~> client[c].at \in {"answered", "lost"}
=============================================================================
