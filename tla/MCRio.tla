------------------------------- MODULE MCRio -------------------------------
(***************************************************************************)
(* Rio on small instances: streams of up to three bytes, of which some are *)
(* ends of lines, and longer ones with several lines.                      *)
(***************************************************************************)
EXTENDS Rio

SomeStreams == UNION {[1..n -> {"a", "nl"}] : n \in 0..3}
                 \cup {<<"a", "b", "nl", "nl", "c">>, <<"a", "b", "c", "d", "e">>}
=============================================================================
