----------------------------- MODULE MCHttpConn -----------------------------
(***************************************************************************)
(* HttpConn on small instances: which streams the peer may send.           *)
(***************************************************************************)
EXTENDS HttpConn

GoodLine == <<"GET", BL, "/", BL, "HTTP/1.1", CR, LF>>

\* Every stream of at most four symbols that matter to lines and blanks, and
\* longer ones: good lines, a line without a version, a second line, more
\* bytes than the buffer holds, a NUL inside the line.
Short(n) == UNION {[1..k -> {"GET", BL, CR, LF}] : k \in 0..n}
Long == {GoodLine,
         <<"GET", BL, "/", CR, LF>>,
         <<"GET", BL, BL, "/", BL, CR, LF, CR>>,
         <<"word", BL, "/", CR, LF, "GET", CR, LF>>,
         <<"GET", BL, "/", BL, CR, "word", CR, LF>>,
         <<"GET", BL, "http://", "/", BL, "HTTP/1.1", CR, LF, "word">>,
         <<"GET", BL, NUL, BL, CR, LF>>,
         <<"word", "word", "word", "word", "word", "word", "word", "word",
           CR, LF>>}
AllStreams == Short(4) \cup Long

OneGoodLine == {GoodLine}
=============================================================================
