------------------------------- MODULE MCDoit -------------------------------
(***************************************************************************)
(* Doit on small instances: each method and URI with requests that are     *)
(* whole, that stop in every place, and that have a body.                  *)
(***************************************************************************)
EXTENDS Doit

Shapes == { <<>>, <<"req">>, <<"req", "hdr">>, <<"req", "part">>,
            <<"req", "blank">>, <<"req", "hdr", "blank">>,
            <<"req", "len", "blank", "byte", "byte">>,
            <<"req", "hdr", "len", "blank", "byte">>,
            <<"req", "hdr", "len", "blank", "byte", "byte", "byte">> }

SomeRequests ==
    [method : {"GET", "POST"}, uri : Uris, lines : Shapes]
        \cup [method : {"GET", "other"}, uri : {"none"}, lines : {<<"req", "hdr", "blank">>}]

NoFile == [kind |-> "none", read |-> FALSE, exec |-> FALSE, size |-> 0]
File3(k, r, x, n) == [kind |-> k, read |-> r, exec |-> x, size |-> n]
SomeFiles == { NoFile, File3("dir", TRUE, TRUE, 1), File3("reg", TRUE, FALSE, 0),
               File3("reg", TRUE, TRUE, 2), File3("reg", FALSE, FALSE, 1),
               File3("other", TRUE, TRUE, 1) }

\* The same below the root and below cwd; and a program below cwd only.
SomeWorlds ==
    {[d \in {"root", "cwd"} |-> f] : f \in SomeFiles}
        \cup {[d \in {"root", "cwd"} |-> IF d = "root" THEN NoFile
                                         ELSE File3("reg", TRUE, TRUE, 2)]}
=============================================================================
