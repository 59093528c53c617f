----------------------------- MODULE MCControl -----------------------------
(***************************************************************************)
(* Control on a small instance: octets have two bits.                      *)
(***************************************************************************)
EXTENDS Control

Line(k, v) == [key |-> k, value |-> v]
Net == [ip |-> <<3, 1, 2>>, mask |-> <<3, 3, 2, 0>>]
Cut == [ip |-> <<3, 1>>, mask |-> <<3, 3>>]

\* Of two lines for one key the first counts. The second text has no port,
\* keeps twebs in the foreground and has a rule that ends the server.
Text(daemon, mask) ==
    << Line("#", None), Line("daemon", daemon), Line("dir", "yes"),
       Line("log", "access.log"), Line("mask", mask), Line("http", "8000"),
       Line("http", "81") >>

MCFiles == {"daemon", "front"}
MCContent == [f \in MCFiles |-> IF f = "daemon" THEN Text("yes", Net)
                                ELSE SubSeq(Text("no", Cut), 1, 5)]

Opt(o, v) == [opt |-> o, value |-> v]
MCArgLists == { <<Opt("d", None), Opt("p", "80"), Opt("l", "access.log")>>,
                <<Opt("p", "80"), Opt("p", "8000")>> }

MCClients == { <<3, 1, 2, 3>>, <<3, 1, 1, 2>> }
=============================================================================
