----------------------------- MODULE Connection -----------------------------
(***************************************************************************)
(* What the event loop of ss/main.cpp and one HttpConn owe each other: the *)
(* life of a connection as both see it. HttpConn, byte by byte, implements *)
(* this module, and so does each descriptor of EpollServer: that is why    *)
(* EpollServer may take whole handlers as steps and lines as segments.     *)
(***************************************************************************)

VARIABLES
    place, \* who has it: "in", "out" (epoll waits for that event), "reading",
           \* "writing", "lost" (the main thread has the event), "work" (the
           \* queue of the pool or a worker), "closed"
    line   \* what the bytes read so far hold: no line that is complete ("part"),
           \* a request line ("line"), or one that the parser does not survive

vars == <<place, line>>

\* A descriptor without a connection, or a connection just accepted.
Init == place \in {"closed", "in"} /\ line = "part"

Open == place = "closed" /\ place' = "in" /\ UNCHANGED line

\* epoll reports the event it waits for, or that the peer has gone.
Report == /\ \/ place = "in" /\ place' \in {"reading", "lost"}
             \/ place = "out" /\ place' \in {"writing", "lost"}
          /\ UNCHANGED line

\* Read takes bytes; when there are no more, the connection goes to a worker.
\* The first complete line counts: bytes behind it change nothing.
Receive == /\ place = "reading" /\ place' \in {"reading", "work"}
           /\ \/ UNCHANGED line
              \/ line = "part" /\ line' \in {"line", "noversion"}

\* Process waits for more exactly if no line is complete, and answers only a
\* complete one. Of a line without a version it never comes back.
Process == /\ place = "work"
           /\ \/ line = "part" /\ place' = "in"
              \/ line = "line" /\ place' = "out"
           /\ UNCHANGED line

\* Write has to wait for room in the socket.
Again == place = "writing" /\ place' = "out" /\ UNCHANGED line

\* Only the main thread closes, and never while a worker has the connection.
Close == place \notin {"work", "closed"} /\ place' = "closed" /\ line' = "part"

Next == Open \/ Report \/ Receive \/ Process \/ Again \/ Close

Spec == Init /\ [][Next]_vars
=============================================================================
