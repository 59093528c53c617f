--------------------------- MODULE MCEpollServer ---------------------------
(***************************************************************************)
(* EpollServer on small instances. Descriptors start at 5: 0 to 4 are the  *)
(* standard streams, the listening socket and epoll.                       *)
(***************************************************************************)
EXTENDS EpollServer, TLC

Everything == {<<"part", "line", "part">>, <<"noversion">>}
TwoParts   == {<<"part", "line">>}
OneLine    == {<<"line">>}

Symmetry == Permutations(Peers) \cup Permutations(Workers)
=============================================================================
