------------------------------ MODULE MCClient -------------------------------
(* Small instances of Client: a buffer of six units and bodies around that. *)
EXTENDS Client

\* The server's lines: the first line, "Connection: close", the empty line and
\* the lengths.
MCLine ==
    <<[key |-> "response", value |-> "200", version |-> "1.1"],
      [key |-> "connection", value |-> "close", version |-> "none"],
      [key |-> "", value |-> "", version |-> "none"]>>
    \o [n \in 1 .. 10 |-> [key |-> "content-length", value |-> n - 1, version |-> "none"]]
MCLengthLine(n) == 4 + n

Application(http, ids, kinds) ==
    [http |-> http, ids |-> ids, binary |-> FALSE, kinds |-> kinds, mixed |-> FALSE,
     stalls |-> FALSE, close |-> {2}, body |-> <<1, 2, 7>>]

\* JSON over both transports; XML, whose responses carry no id, with two requests of any
\* kind and with three posts; a server that may stop reading between two requests; and
\* MessagePack, where part of a body may parse.
MCScenario ==
    {Application(http, TRUE, {"call", "post", "notify"}) : http \in BOOLEAN}
    \cup {[Application(http, FALSE, {"call", "post", "notify"}) EXCEPT !.body = <<1, 7>>] :
            http \in BOOLEAN}
    \cup {Application(http, FALSE, {"post"}) : http \in BOOLEAN}
    \cup {[Application(http, TRUE, {"call", "post"}) EXCEPT !.stalls = TRUE, !.body = <<2, 2>>] :
            http \in BOOLEAN}
    \cup {[Application(http, TRUE, {"call", "post"}) EXCEPT !.binary = TRUE, !.body = <<7, 2>>] :
            http \in BOOLEAN}

\* Notifications between a post and the collection of its result.
MCMixed == {[Application(FALSE, TRUE, {"post", "notify"}) EXCEPT !.mixed = TRUE]}
==============================================================================
