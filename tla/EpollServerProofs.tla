------------------------- MODULE EpollServerProofs -------------------------
(***************************************************************************)
(* Proofs about EpollServer for any number of clients, workers and         *)
(* descriptors, any length of the queue and anything the clients may send: *)
(* a connection is in one place at a time, and only open connections are   *)
(* anywhere.                                                               *)
(***************************************************************************)
EXTENDS EpollServer, FiniteSetTheorems, SequenceTheorems, WellFoundedInduction,
        TLAPS

LEMMA FdsAreFinite ==
    \A S \in SUBSET Fds : IsFiniteSet(S)
  <1>1. FirstFd \in Int /\ NoFile - 1 \in Int
    BY ServerAssumption
  <1>2. IsFiniteSet(Fds)
    BY <1>1, FS_Interval DEF Fds
  <1> QED
    BY <1>2, FS_Subset

-----------------------------------------------------------------------------
(* A connection's place. *)

\* Nothing moves when no place is written.
LEMMA NothingMoves ==
    ASSUME Exclusive, NoneStaleNoneLost,
           UNCHANGED <<conn, armed, pending, dropped, queue, running, at>>
    PROVE  Exclusive' /\ NoneStaleNoneLost'
  BY DEF Exclusive, NoneStaleNoneLost, Owned, InEpoll, InBatch, InQueue, InWork

\* Closing a connection of the batch leaves it in no place, and its client and
\* its number free for the next one.
LEMMA ClosingIsClean ==
    ASSUME IInv, NEW fd \in Fds, pending[fd] # "none",
           pending' = [pending EXCEPT ![fd] = "none"],
           CloseConn(fd),
           UNCHANGED <<backlog, edge, armed, listening, got, dropped, down,
                       queue, running, at>>
    PROVE  IInv'
  <1> USE DEF IInv
  <1>1. conn[fd] \in Peers
    BY DEF TypeOK, NoneStaleNoneLost, Owned, InBatch
  <1>2. conn' = [conn EXCEPT ![fd] = NoPeer]
        /\ client' = [client EXCEPT ![conn[fd]] = Off]
        /\ userCount' = userCount - 1
    BY DEF CloseConn
  <1>3. UserCount' /\ userCount' \in Nat
    <2> DEFINE open == {g \in Fds : conn[g] # NoPeer}
    <2>1. {g \in Fds : conn'[g] # NoPeer} = open \ {fd}
      BY <1>2 DEF TypeOK
    <2>2. fd \in open /\ NoPeer \notin Peers
      BY <1>1, ServerAssumption
    <2>3. IsFiniteSet(open)
      BY FdsAreFinite
    <2>4. Cardinality(open \ {fd}) = Cardinality(open) - 1
          /\ IsFiniteSet(open \ {fd})
      BY <2>2, <2>3, FS_RemoveElement
    <2>5. Cardinality(open \ {fd}) \in Nat
      BY <2>4, FS_CardinalityType
    <2> QED
      BY <1>2, <2>1, <2>4, <2>5 DEF UserCount
  <1>4. TypeOK' /\ InHand'
    BY <1>1, <1>2, <1>3 DEF TypeOK, InHand, Off
  <1>5. \A g \in Fds : /\ InEpoll(g)' <=> InEpoll(g)
                       /\ InBatch(g)' <=> InBatch(g) /\ g # fd
                       /\ InQueue(g)' <=> InQueue(g)
                       /\ InWork(g)' <=> InWork(g)
    BY DEF InEpoll, InBatch, InQueue, InWork, TypeOK
  <1>6. Exclusive'
    BY <1>5 DEF Exclusive
  <1>7. InBatch(fd)
    BY DEF InBatch
  <1>8. \A g \in Fds : Owned(g)' <=> Owned(g) /\ g # fd
    BY <1>5, <1>7 DEF Owned, Exclusive
  <1>9. NoneStaleNoneLost'
    BY <1>2, <1>8 DEF NoneStaleNoneLost, TypeOK
  <1>10. ClientsMatch'
    BY <1>1, <1>2, ServerAssumption DEF ClientsMatch, TypeOK, Off
  <1>11. NoForeignData'
    BY <1>1, <1>2, ServerAssumption DEF NoForeignData, ClientsMatch, TypeOK, Off
  <1>12. EdgeMeansConnection'
    BY DEF EdgeMeansConnection
  <1> QED
    BY <1>3, <1>4, <1>6, <1>9, <1>10, <1>11, <1>12

-----------------------------------------------------------------------------
(* The clients' steps. *)

LEMMA ConnectStep ==
    ASSUME IInv, NEW p \in Peers, NEW s \in Scripts, Connect(p, s)
    PROVE  IInv'
  <1> USE DEF IInv
  <1>1. client' = [client EXCEPT ![p] = [Off EXCEPT !.link = "backlog",
                                                    !.script = s]]
        /\ client[p] = Off /\ edge' = TRUE
        /\ backlog' = Append(backlog, p)
        /\ UNCHANGED <<conn, armed, loopVars, down, poolVars, at>>
    BY DEF Connect
  <1> USE DEF loopVars, poolVars
  <1>2. s \in Seq(Segments)
    BY ServerAssumption
  <1>3. /\ backlog' \in Seq(Peers)
        /\ Len(backlog') = Len(backlog) + 1
        /\ \A i \in 1..Len(backlog) : backlog'[i] = backlog[i]
        /\ backlog'[Len(backlog) + 1] = p
        /\ DOMAIN backlog = 1..Len(backlog)
        /\ DOMAIN backlog' = 1..(Len(backlog) + 1)
        /\ Len(backlog) \in Nat
    BY <1>1, AppendProperties, LenProperties DEF TypeOK
  <1>4. TypeOK' /\ InHand'
    BY <1>1, <1>2, <1>3 DEF TypeOK, InHand, Off
  <1>5. Exclusive' /\ NoneStaleNoneLost'
    BY <1>1, NothingMoves
  <1>6. \A fd \in Fds : conn[fd] # p
    BY <1>1, ServerAssumption DEF ClientsMatch, Off
  <1>7. \A i \in DOMAIN backlog : backlog[i] # p
    BY <1>1 DEF ClientsMatch, Off
  <1>8. NoForeignData' /\ UserCount'
    BY <1>1, <1>6 DEF NoForeignData, UserCount, TypeOK
  <1>9. ClientsMatch'
    <2>1. \A fd \in Fds : conn'[fd] # NoPeer => client'[conn'[fd]].link = "open"
      BY <1>1, <1>6 DEF ClientsMatch, TypeOK
    <2>2. \A fd, g \in Fds : conn'[fd] = conn'[g] /\ conn'[fd] # NoPeer => fd = g
      BY <1>1 DEF ClientsMatch
    <2>3. client'[p].link = "backlog"
      BY <1>1 DEF Off, TypeOK
    <2>4. \A q \in Peers : q # p => client'[q] = client[q]
      BY <1>1 DEF TypeOK
    <2>5. \A i \in DOMAIN backlog' : client'[backlog'[i]].link = "backlog"
      <3> SUFFICES ASSUME NEW i \in 1..(Len(backlog) + 1)
                   PROVE  client'[backlog'[i]].link = "backlog"
        BY <1>3
      <3>1. CASE i = Len(backlog) + 1
        BY <1>3, <2>3, <3>1
      <3>2. CASE i # Len(backlog) + 1
        <4>1. i \in DOMAIN backlog
          BY <1>3, <3>2
        <4>2. backlog'[i] = backlog[i] /\ backlog[i] \in Peers
          BY <1>3, <4>1 DEF TypeOK
        <4> QED
          BY <1>7, <2>4, <4>1, <4>2 DEF ClientsMatch
      <3> QED
        BY <3>1, <3>2
    <2>6. \A i, j \in DOMAIN backlog' : backlog'[i] = backlog'[j] => i = j
      BY <1>3, <1>7 DEF ClientsMatch
    <2> QED
      BY <2>1, <2>2, <2>5, <2>6 DEF ClientsMatch
  <1>10. EdgeMeansConnection'
    BY <1>1, <1>3 DEF EdgeMeansConnection, TypeOK
  <1> QED
    BY <1>4, <1>5, <1>8, <1>9, <1>10

LEMMA SendStep ==
    ASSUME IInv, NEW p \in Peers, Send(p)
    PROVE  IInv'
  <1> USE DEF IInv
  <1>1. client' = [client EXCEPT ![p].arrived = @ + 1]
        /\ UNCHANGED <<kernelVars, loopVars, down, poolVars, at>>
    BY DEF Send
  <1> USE DEF loopVars, poolVars, kernelVars
  <1>2. TypeOK' /\ InHand'
    <2>1. client[p].arrived + 1 \in Nat
      BY DEF TypeOK
    <2>2. [client[p] EXCEPT !.arrived = @ + 1]
             \in [link : {"off", "backlog", "open"}, script : Seq(Segments),
                 arrived : Nat, left : BOOLEAN]
      BY <2>1, ZenonT(40) DEF TypeOK
    <2>3. client' = [client EXCEPT ![p] = [client[p] EXCEPT !.arrived = @ + 1]]
      BY <1>1
    <2> QED
      BY <1>1, <2>2, <2>3 DEF TypeOK, InHand
  <1>3. Exclusive' /\ NoneStaleNoneLost'
    BY <1>1, NothingMoves
  <1>4. NoForeignData' /\ UserCount' /\ ClientsMatch' /\ EdgeMeansConnection'
    BY <1>1 DEF NoForeignData, UserCount, ClientsMatch, EdgeMeansConnection, TypeOK
  <1> QED
    BY <1>2, <1>3, <1>4

LEMMA LeaveStep ==
    ASSUME IInv, NEW p \in Peers, Leave(p)
    PROVE  IInv'
  <1> USE DEF IInv
  <1>1. client' = [client EXCEPT ![p].left = TRUE]
        /\ UNCHANGED <<kernelVars, loopVars, down, poolVars, at>>
    BY DEF Leave
  <1> USE DEF loopVars, poolVars, kernelVars
  <1>2. TypeOK' /\ InHand'
    BY <1>1, ZenonT(40) DEF TypeOK, InHand
  <1>3. Exclusive' /\ NoneStaleNoneLost'
    BY <1>1, NothingMoves
  <1>4. NoForeignData' /\ UserCount' /\ ClientsMatch' /\ EdgeMeansConnection'
    BY <1>1 DEF NoForeignData, UserCount, ClientsMatch, EdgeMeansConnection, TypeOK
  <1> QED
    BY <1>2, <1>3, <1>4

-----------------------------------------------------------------------------
(* The event loop's steps. *)

\* EPOLLONESHOT: what a report moves into the batch leaves epoll.
LEMMA EpollWaitStep ==
    ASSUME IInv, EpollWait
    PROVE  IInv'
  <1> USE DEF IInv
  <1>1. /\ Waiting
        /\ pending' = [fd \in Fds |-> Event(fd)]
        /\ armed' = [fd \in Fds |-> IF Event(fd) = "none" THEN armed[fd]
                                                          ELSE "none"]
        /\ listening' = edge /\ edge' = FALSE
        /\ UNCHANGED <<client, backlog, conn, userCount, got, dropped, down,
                       poolVars, at>>
    BY DEF EpollWait
  <1> USE DEF poolVars
  <1>2. \A fd \in Fds : /\ Event(fd) \in {"none", "hup", "in", "out"}
                        /\ armed[fd] = "none" => Event(fd) = "none"
    BY DEF Event
  <1>3. TypeOK' /\ InHand'
    BY <1>1, <1>2 DEF TypeOK, InHand
  <1>4. \A fd \in Fds : /\ InEpoll(fd)' <=> InEpoll(fd) /\ Event(fd) = "none"
                        /\ InBatch(fd)' <=> InEpoll(fd) /\ Event(fd) # "none"
                        /\ InQueue(fd)' <=> InQueue(fd)
                        /\ InWork(fd)' <=> InWork(fd)
                        /\ ~InBatch(fd)
    BY <1>1, <1>2 DEF InEpoll, InBatch, InQueue, InWork, Waiting
  <1>5. Exclusive'
    BY <1>1, <1>4 DEF Exclusive
  <1>6. \A fd \in Fds : Owned(fd)' <=> Owned(fd)
    BY <1>1, <1>4 DEF Owned
  <1>7. NoneStaleNoneLost'
    BY <1>1, <1>6 DEF NoneStaleNoneLost
  <1>8. NoForeignData' /\ UserCount' /\ ClientsMatch'
    BY <1>1 DEF NoForeignData, UserCount, ClientsMatch
  <1>9. EdgeMeansConnection'
    BY <1>1 DEF EdgeMeansConnection, Waiting, TypeOK
  <1> QED
    BY <1>3, <1>5, <1>7, <1>8, <1>9

\* The connection at the head of the backlog gets a free descriptor.
LEMMA AcceptStep ==
    ASSUME IInv, backlog # <<>>, NEW fd \in Fds, Lowest(fd), Accept(fd),
           backlog' = Tail(backlog), listening, listening' = FALSE,
           UNCHANGED <<edge, pending, dropped, poolVars, at>>
    PROVE  IInv'
  <1> USE DEF IInv, poolVars
  <1> DEFINE p == Head(backlog)
  <1>1. /\ p \in Peers /\ backlog' \in Seq(Peers)
        /\ p = backlog[1]
        /\ Len(backlog') = Len(backlog) - 1
        /\ DOMAIN backlog' = 1..(Len(backlog) - 1)
        /\ DOMAIN backlog = 1..Len(backlog)
        /\ Len(backlog) \in Nat \ {0}
        /\ \A i \in 1..(Len(backlog) - 1) : backlog'[i] = backlog[i + 1]
    BY HeadTailProperties, LenProperties DEF TypeOK
  <1>2. client[p].link = "backlog" /\ \A g \in Fds : conn[g] # p
    BY <1>1, ServerAssumption DEF ClientsMatch
  <1>3. \A i \in DOMAIN backlog' : backlog'[i] # p
    BY <1>1 DEF ClientsMatch
  <1>4. EdgeMeansConnection'
    BY <1>1 DEF EdgeMeansConnection, TypeOK
  <1>5. CASE fd >= MaxFd
    <2>1. down' = "overrun" /\ UNCHANGED <<client, conn, armed, userCount, got>>
      BY <1>5 DEF Accept
    <2>2. TypeOK' /\ InHand'
      BY <1>1, <2>1 DEF TypeOK, InHand
    <2>3. Exclusive' /\ NoneStaleNoneLost'
      BY <2>1, NothingMoves
    <2>4. NoForeignData' /\ UserCount'
      BY <2>1 DEF NoForeignData, UserCount
    <2>5. ClientsMatch'
      BY <1>1, <2>1 DEF ClientsMatch
    <2> QED
      BY <1>4, <2>2, <2>3, <2>4, <2>5
  <1>6. CASE ~(fd >= MaxFd)
    <2>1. /\ conn' = [conn EXCEPT ![fd] = p]
          /\ client' = [client EXCEPT ![p].link = "open"]
          /\ armed' = [armed EXCEPT ![fd] = "in"]
          /\ userCount' = userCount + 1
          /\ got' = [got EXCEPT ![fd] = 0]
          /\ UNCHANGED down
      BY <1>6 DEF Accept
    <2>2. conn[fd] = NoPeer /\ p # NoPeer
      BY <1>1, ServerAssumption DEF Lowest
    <2>3. ~Owned(fd)
      BY <2>2 DEF NoneStaleNoneLost
    <2>4. TypeOK' /\ InHand'
      <3>1. [client[p] EXCEPT !.link = "open"]
               \in [link : {"off", "backlog", "open"}, script : Seq(Segments),
                   arrived : Nat, left : BOOLEAN]
        <4>1. client[p] \in [link : {"off", "backlog", "open"},
                             script : Seq(Segments), arrived : Nat,
                             left : BOOLEAN]
          BY <1>1 DEF TypeOK
        <4> QED
          BY <4>1
      <3>2. client' = [client EXCEPT ![p] = [client[p] EXCEPT !.link = "open"]]
        BY <2>1
      <3>3. client' \in [Peers -> [link : {"off", "backlog", "open"},
                                   script : Seq(Segments), arrived : Nat,
                                   left : BOOLEAN]]
        BY <1>1, <3>1, <3>2 DEF TypeOK
      <3>4. /\ conn' \in [Fds -> Peers \cup {NoPeer}]
            /\ armed' \in [Fds -> {"none", "in", "out"}]
            /\ userCount' \in Nat
            /\ got' \in [Fds -> Nat]
        BY <1>1, <2>1 DEF TypeOK
      <3> QED
        BY <1>1, <2>1, <3>3, <3>4 DEF TypeOK, InHand
    <2>5. \A g \in Fds : /\ InEpoll(g)' <=> InEpoll(g) \/ g = fd
                         /\ InBatch(g)' <=> InBatch(g)
                         /\ InQueue(g)' <=> InQueue(g)
                         /\ InWork(g)' <=> InWork(g)
      BY <2>1 DEF InEpoll, InBatch, InQueue, InWork, TypeOK
    <2>6. Exclusive'
      BY <2>3, <2>5 DEF Exclusive, Owned
    <2>7. \A g \in Fds : Owned(g)' <=> Owned(g) \/ g = fd
      BY <2>5 DEF Owned
    <2>8. NoneStaleNoneLost'
      BY <2>1, <2>2, <2>7 DEF NoneStaleNoneLost, TypeOK
    <2>9. \A q \in Peers : q # p => client'[q] = client[q]
      BY <2>1 DEF TypeOK
    <2>10. client'[p].link = "open" /\ client'[p].arrived = client[p].arrived
      BY <1>1, <2>1 DEF TypeOK
    <2>11. NoForeignData'
      <3> SUFFICES ASSUME NEW g \in Fds, conn'[g] # NoPeer
                   PROVE  got'[g] <= client'[conn'[g]].arrived
        BY DEF NoForeignData
      <3>1. CASE g = fd
        BY <1>1, <2>1, <2>10, <3>1 DEF TypeOK
      <3>2. CASE g # fd
        BY <1>2, <2>1, <2>9, <3>2 DEF TypeOK, NoForeignData
      <3> QED
        BY <3>1, <3>2
    <2>12. ClientsMatch'
      <3>1. \A g \in Fds : conn'[g] # NoPeer => client'[conn'[g]].link = "open"
        BY <1>2, <2>1, <2>9, <2>10 DEF ClientsMatch, TypeOK
      <3>2. \A g, h \in Fds : conn'[g] = conn'[h] /\ conn'[g] # NoPeer => g = h
        BY <1>2, <2>1 DEF ClientsMatch, TypeOK
      <3>3. \A i \in DOMAIN backlog' : client'[backlog'[i]].link = "backlog"
        <4> SUFFICES ASSUME NEW i \in 1..(Len(backlog) - 1)
                     PROVE  client'[backlog'[i]].link = "backlog"
          BY <1>1
        <4>1. i + 1 \in DOMAIN backlog /\ backlog'[i] = backlog[i + 1]
          BY <1>1
        <4>2. backlog[i + 1] \in Peers
          BY <4>1 DEF TypeOK
        <4>3. backlog'[i] # p
          BY <1>1, <1>3
        <4> QED
          BY <2>9, <4>1, <4>2, <4>3 DEF ClientsMatch
      <3>4. \A i, j \in DOMAIN backlog' : backlog'[i] = backlog'[j] => i = j
        BY <1>1 DEF ClientsMatch
      <3> QED
        BY <3>1, <3>2, <3>3, <3>4 DEF ClientsMatch
    <2>13. UserCount'
      <3> DEFINE open == {g \in Fds : conn[g] # NoPeer}
      <3>1. {g \in Fds : conn'[g] # NoPeer} = open \cup {fd}
        BY <2>1, <2>2 DEF TypeOK
      <3>2. fd \notin open /\ IsFiniteSet(open)
        BY <2>2, FdsAreFinite
      <3>3. Cardinality(open \cup {fd}) = Cardinality(open) + 1
        BY <3>2, FS_AddElement
      <3> QED
        BY <2>1, <3>1, <3>3 DEF UserCount
    <2> QED
      BY <1>4, <2>4, <2>6, <2>8, <2>11, <2>12, <2>13
  <1> QED
    BY <1>5, <1>6

LEMMA HandleListenStep ==
    ASSUME IInv, HandleListen
    PROVE  IInv'
  <1> USE DEF IInv, poolVars
  <1>1. /\ listening /\ listening' = FALSE
        /\ UNCHANGED <<edge, pending, dropped, poolVars, at>>
    BY DEF HandleListen
  <1>2. CASE backlog = <<>> \/ Free = {}
    <2>1. UNCHANGED <<client, backlog, conn, armed, userCount, got, down>>
      BY <1>2 DEF HandleListen
    <2>2. TypeOK' /\ InHand'
      BY <1>1, <2>1 DEF TypeOK, InHand
    <2>3. Exclusive' /\ NoneStaleNoneLost'
      BY <1>1, <2>1, NothingMoves
    <2>4. NoForeignData' /\ UserCount' /\ ClientsMatch'
      BY <2>1 DEF NoForeignData, UserCount, ClientsMatch
    <2>5. EdgeMeansConnection'
      BY <1>1, <2>1 DEF EdgeMeansConnection, TypeOK
    <2> QED
      BY <2>2, <2>3, <2>4, <2>5
  <1>3. CASE ~(backlog = <<>> \/ Free = {}) /\ userCount >= MaxFd
    <2> DEFINE p == Head(backlog)
    <2>1. /\ backlog' = Tail(backlog)
          /\ client' = [client EXCEPT ![p] = Off]
          /\ UNCHANGED <<conn, armed, userCount, got, down>>
      BY <1>3 DEF HandleListen
    <2>2. /\ p \in Peers /\ backlog' \in Seq(Peers)
          /\ p = backlog[1]
          /\ Len(backlog') = Len(backlog) - 1
          /\ DOMAIN backlog' = 1..(Len(backlog) - 1)
          /\ DOMAIN backlog = 1..Len(backlog)
          /\ Len(backlog) \in Nat \ {0}
          /\ \A i \in 1..(Len(backlog) - 1) : backlog'[i] = backlog[i + 1]
      BY <1>3, <2>1, HeadTailProperties, LenProperties DEF TypeOK
    <2>3. \A g \in Fds : conn[g] # p
      BY <2>2, ServerAssumption DEF ClientsMatch
    <2>4. TypeOK' /\ InHand'
      <3>1. Off \in [link : {"off", "backlog", "open"}, script : Seq(Segments),
                    arrived : Nat, left : BOOLEAN]
        BY DEF Off
      <3>2. client' \in [Peers -> [link : {"off", "backlog", "open"},
                                   script : Seq(Segments), arrived : Nat,
                                   left : BOOLEAN]]
        BY <2>1, <2>2, <3>1 DEF TypeOK
      <3> QED
        BY <1>1, <2>1, <2>2, <3>2 DEF TypeOK, InHand
    <2>5. Exclusive' /\ NoneStaleNoneLost'
      BY <1>1, <2>1, NothingMoves
    <2>6. \A q \in Peers : q # p => client'[q] = client[q]
      BY <2>1 DEF TypeOK
    <2>7. NoForeignData' /\ UserCount'
      BY <2>1, <2>3, <2>6 DEF NoForeignData, UserCount, TypeOK
    <2>8. ClientsMatch'
      <3>1. \A i \in DOMAIN backlog' : client'[backlog'[i]].link = "backlog"
        <4> SUFFICES ASSUME NEW i \in 1..(Len(backlog) - 1)
                     PROVE  client'[backlog'[i]].link = "backlog"
          BY <2>2
        <4>1. i + 1 \in DOMAIN backlog /\ backlog'[i] = backlog[i + 1]
          BY <2>2
        <4>2. backlog'[i] # p /\ backlog'[i] \in Peers
          BY <2>2, <4>1, SMTT(30) DEF ClientsMatch
        <4> QED
          BY <2>6, <4>1, <4>2 DEF ClientsMatch
      <3>2. \A i, j \in DOMAIN backlog' : backlog'[i] = backlog'[j] => i = j
        BY <2>2, SMTT(30) DEF ClientsMatch
      <3> QED
        BY <2>1, <2>3, <2>6, <3>1, <3>2 DEF ClientsMatch, TypeOK
    <2>9. EdgeMeansConnection'
      BY <1>1, <2>1, <2>2 DEF EdgeMeansConnection, TypeOK
    <2> QED
      BY <2>4, <2>5, <2>7, <2>8, <2>9
  <1>4. CASE ~(backlog = <<>> \/ Free = {}) /\ ~(userCount >= MaxFd)
    <2>1. backlog' = Tail(backlog) /\ \E fd \in Fds : Lowest(fd) /\ Accept(fd)
      BY <1>4 DEF HandleListen
    <2> QED
      BY <1>1, <1>4, <2>1, AcceptStep
  <1> QED
    BY <1>2, <1>3, <1>4

\* EPOLLIN: the connection goes from the batch to the queue, is closed, or is
\* dropped.
LEMMA HandleInStep ==
    ASSUME IInv, NEW fd \in Fds, HandleIn(fd)
    PROVE  IInv'
  <1> USE DEF IInv, poolVars
  <1>1. /\ pending[fd] = "in"
        /\ pending' = [pending EXCEPT ![fd] = "none"]
        /\ UNCHANGED <<backlog, edge, armed, listening, down, at>>
    BY DEF HandleIn
  <1>2. CASE client[conn[fd]].left \/ client[conn[fd]].arrived > ReadLimit
    <2>1. CloseConn(fd) /\ UNCHANGED <<got, dropped, queue, running>>
      BY <1>2 DEF HandleIn
    <2> QED
      BY <1>1, <2>1, ClosingIsClean
  <1>3. CASE ~(client[conn[fd]].left \/ client[conn[fd]].arrived > ReadLimit)
    <2>1. /\ got' = [got EXCEPT ![fd] = client[conn[fd]].arrived]
          /\ UNCHANGED <<client, conn, userCount>>
      BY <1>3 DEF HandleIn
    <2>2. InBatch(fd) /\ conn[fd] \in Peers
      BY <1>1 DEF TypeOK, NoneStaleNoneLost, Owned, InBatch
    <2>3. client[conn[fd]].arrived \in Nat
      BY <2>2 DEF TypeOK
    <2>4. NoForeignData' /\ UserCount' /\ ClientsMatch' /\ EdgeMeansConnection'
      <3>1. NoForeignData'
        BY <2>1, <2>2, <2>3 DEF NoForeignData, TypeOK
      <3>2. UserCount' /\ ClientsMatch' /\ EdgeMeansConnection'
        BY <1>1, <2>1 DEF UserCount, ClientsMatch, EdgeMeansConnection
      <3> QED
        BY <3>1, <3>2
    <2>5. CASE Len(queue) > MaxRequests
      <3>1. dropped' = dropped \cup {fd} /\ UNCHANGED <<queue, running>>
        BY <1>3, <2>5 DEF HandleIn
      <3>2. TypeOK' /\ InHand'
        BY <1>1, <2>1, <2>3, <3>1 DEF TypeOK, InHand
      <3>3. \A g \in Fds : /\ InEpoll(g)' <=> InEpoll(g)
                           /\ InBatch(g)' <=> InBatch(g) /\ g # fd
                           /\ InQueue(g)' <=> InQueue(g)
                           /\ InWork(g)' <=> InWork(g)
        BY <1>1, <3>1 DEF InEpoll, InBatch, InQueue, InWork, TypeOK
      <3>4. Exclusive'
        BY <1>1, <2>2, <3>1, <3>3 DEF Exclusive
      <3>5. \A g \in Fds : Owned(g)' <=> Owned(g)
        BY <2>2, <3>1, <3>3 DEF Owned
      <3> QED
        BY <2>1, <2>4, <3>2, <3>4, <3>5 DEF NoneStaleNoneLost
    <2>6. CASE ~(Len(queue) > MaxRequests)
      <3>1. queue' = Append(queue, fd) /\ UNCHANGED <<running, dropped>>
        BY <1>3, <2>6 DEF HandleIn, TQ!Submit
      <3>2. /\ queue' \in Seq(Fds)
            /\ DOMAIN queue = 1..Len(queue)
            /\ DOMAIN queue' = 1..(Len(queue) + 1)
            /\ Len(queue) \in Nat
            /\ \A i \in 1..Len(queue) : queue'[i] = queue[i]
            /\ queue'[Len(queue) + 1] = fd
        BY <3>1, AppendProperties, LenProperties DEF TypeOK
      <3>3. TypeOK' /\ InHand'
        BY <1>1, <2>1, <2>3, <3>1, <3>2 DEF TypeOK, InHand
      <3>4. \A g \in Fds : /\ InEpoll(g)' <=> InEpoll(g)
                           /\ InBatch(g)' <=> InBatch(g) /\ g # fd
                           /\ InWork(g)' <=> InWork(g)
        BY <1>1, <3>1 DEF InEpoll, InBatch, InWork, TypeOK
      <3>5. \A g \in Fds : InQueue(g)' <=> InQueue(g) \/ g = fd
        BY <3>2 DEF InQueue
      <3>6. \A i \in DOMAIN queue : queue[i] # fd
        BY <2>2 DEF Exclusive, InQueue
      <3>7. \A i, j \in DOMAIN queue' : queue'[i] = queue'[j] => i = j
        BY <3>2, <3>6 DEF Exclusive
      <3>8. Exclusive'
        BY <1>1, <2>2, <3>1, <3>4, <3>5, <3>7 DEF Exclusive
      <3>9. \A g \in Fds : Owned(g)' <=> Owned(g)
        BY <2>2, <3>1, <3>4, <3>5 DEF Owned
      <3> QED
        BY <2>1, <2>4, <3>3, <3>8, <3>9 DEF NoneStaleNoneLost
    <2> QED
      BY <2>5, <2>6
  <1> QED
    BY <1>2, <1>3

LEMMA HandleHupStep ==
    ASSUME IInv, NEW fd \in Fds, HandleHup(fd)
    PROVE  IInv'
  BY ClosingIsClean DEF HandleHup, poolVars

LEMMA HandleOutStep ==
    ASSUME IInv, NEW fd \in Fds, HandleOut(fd)
    PROVE  IInv'
  BY ClosingIsClean DEF HandleOut, poolVars

\* A full socket: the connection goes from the batch back to epoll.
LEMMA HandleOutAgainStep ==
    ASSUME IInv, NEW fd \in Fds, HandleOutAgain(fd)
    PROVE  IInv'
  <1> USE DEF IInv, poolVars
  <1>1. /\ pending[fd] = "out"
        /\ pending' = [pending EXCEPT ![fd] = "none"]
        /\ armed' = [armed EXCEPT ![fd] = "out"]
        /\ UNCHANGED <<client, backlog, edge, conn, listening, userCount, got,
                       dropped, down, queue, running, at>>
    BY DEF HandleOutAgain
  <1>2. TypeOK' /\ InHand'
    BY <1>1 DEF TypeOK, InHand
  <1>3. InBatch(fd)
    BY <1>1 DEF InBatch
  <1>4. \A g \in Fds : /\ InEpoll(g)' <=> InEpoll(g) \/ g = fd
                       /\ InBatch(g)' <=> InBatch(g) /\ g # fd
                       /\ InQueue(g)' <=> InQueue(g)
                       /\ InWork(g)' <=> InWork(g)
    BY <1>1 DEF InEpoll, InBatch, InQueue, InWork, TypeOK
  <1>5. Exclusive'
    BY <1>1, <1>3, <1>4 DEF Exclusive
  <1>6. \A g \in Fds : Owned(g)' <=> Owned(g)
    BY <1>1, <1>3, <1>4 DEF Owned
  <1>7. NoForeignData' /\ UserCount' /\ ClientsMatch' /\ EdgeMeansConnection'
    BY <1>1 DEF NoForeignData, UserCount, ClientsMatch, EdgeMeansConnection
  <1> QED
    BY <1>1, <1>2, <1>5, <1>6, <1>7 DEF NoneStaleNoneLost

-----------------------------------------------------------------------------
(* The workers' steps. *)

LEMMA WorkerTakeStep ==
    ASSUME IInv, NEW w \in Workers, WorkerTake(w)
    PROVE  IInv'
  <1> USE DEF IInv, loopVars, kernelVars
  <1> DEFINE fd == Head(queue)
  <1>1. /\ at[w] = "idle" /\ queue # <<>>
        /\ running' = [running EXCEPT ![w] = fd]
        /\ queue' = Tail(queue)
        /\ at' = [at EXCEPT ![w] = "process"]
        /\ UNCHANGED <<client, kernelVars, loopVars, down>>
    BY DEF WorkerTake, TQ!Start
  <1>2. /\ fd \in Fds /\ queue' \in Seq(Fds)
        /\ fd = queue[1]
        /\ DOMAIN queue' = 1..(Len(queue) - 1)
        /\ DOMAIN queue = 1..Len(queue)
        /\ Len(queue) \in Nat \ {0}
        /\ \A i \in 1..(Len(queue) - 1) : queue'[i] = queue[i + 1]
    BY <1>1, HeadTailProperties, LenProperties DEF TypeOK
  <1>3. fd # NoFd
    BY <1>2, ServerAssumption DEF Fds, NoFd
  <1>4. TypeOK' /\ InHand'
    BY <1>1, <1>2, <1>3 DEF TypeOK, InHand
  <1>5. InQueue(fd)
    BY <1>2 DEF InQueue
  <1>6. \A g \in Fds : /\ InEpoll(g)' <=> InEpoll(g)
                       /\ InBatch(g)' <=> InBatch(g)
    BY <1>1 DEF InEpoll, InBatch
  <1>7. \A g \in Fds : InQueue(g)' <=> InQueue(g) /\ g # fd
    <2> SUFFICES ASSUME NEW g \in Fds
                 PROVE  InQueue(g)' <=> InQueue(g) /\ g # fd
      OBVIOUS
    <2>1. ASSUME NEW i \in DOMAIN queue', queue'[i] = g
          PROVE  InQueue(g) /\ g # fd
      <3>1. i + 1 \in DOMAIN queue /\ queue[i + 1] = g /\ i + 1 # 1
            /\ 1 \in DOMAIN queue
        BY <1>2, <2>1
      <3> QED
        BY <1>2, <3>1 DEF InQueue, Exclusive
    <2>2. ASSUME NEW i \in DOMAIN queue, queue[i] = g, g # fd
          PROVE  InQueue(g)'
      <3>1. i - 1 \in DOMAIN queue' /\ queue'[i - 1] = g
        BY <1>2, <2>2
      <3> QED
        BY <3>1 DEF InQueue
    <2> QED
      BY <2>1, <2>2 DEF InQueue
  <1>8. \A g \in Fds : InWork(g)' <=> InWork(g) \/ g = fd
    BY <1>1 DEF InWork, TypeOK
  <1>9. Exclusive'
    <2>1. ASSUME NEW i \in DOMAIN queue', NEW j \in DOMAIN queue',
                 queue'[i] = queue'[j]
          PROVE  i = j
      <3>1. /\ i + 1 \in DOMAIN queue /\ queue'[i] = queue[i + 1]
            /\ j + 1 \in DOMAIN queue /\ queue'[j] = queue[j + 1]
        BY <1>2
      <3>2. i + 1 = j + 1
        BY <2>1, <3>1 DEF Exclusive
      <3> QED
        BY <1>2, <3>2
    <2>2. \A v \in Workers : at[v] = "process" => running[v] # fd
      BY <1>2, <1>5 DEF Exclusive, InWork
    <2>3. \A u, v \in Workers : at'[u] = "process" /\ at'[v] = "process"
                                 /\ running'[u] = running'[v] => u = v
      BY <1>1, <2>2 DEF Exclusive, TypeOK
    <2> QED
      BY <1>1, <1>5, <1>6, <1>7, <1>8, <2>1, <2>3 DEF Exclusive
  <1>10. \A g \in Fds : Owned(g)' <=> Owned(g)
    BY <1>1, <1>5, <1>6, <1>7, <1>8 DEF Owned
  <1>11. NoForeignData' /\ UserCount' /\ ClientsMatch' /\ EdgeMeansConnection'
    BY <1>1 DEF NoForeignData, UserCount, ClientsMatch, EdgeMeansConnection
  <1> QED
    BY <1>1, <1>4, <1>9, <1>10, <1>11 DEF NoneStaleNoneLost

\* Process ends with the connection back in epoll, or with the process.
LEMMA WorkerProcessStep ==
    ASSUME IInv, NEW w \in Workers, WorkerProcess(w)
    PROVE  IInv'
  <1> USE DEF IInv, loopVars, poolVars
  <1> DEFINE fd == running[w]
  <1>1. /\ at[w] = "process"
        /\ UNCHANGED <<client, backlog, edge, conn, loopVars, poolVars>>
    BY DEF WorkerProcess
  <1>2. NoForeignData' /\ UserCount' /\ ClientsMatch' /\ EdgeMeansConnection'
    BY <1>1 DEF NoForeignData, UserCount, ClientsMatch, EdgeMeansConnection
  <1>3. CASE down' = "crash" /\ UNCHANGED <<armed, at>>
    <2>1. TypeOK' /\ InHand'
      BY <1>1, <1>3 DEF TypeOK, InHand
    <2>2. Exclusive' /\ NoneStaleNoneLost'
      BY <1>1, <1>3, NothingMoves
    <2> QED
      BY <1>2, <2>1, <2>2
  <1>4. ASSUME NEW e \in {"in", "out"}, armed' = [armed EXCEPT ![fd] = e],
               at' = [at EXCEPT ![w] = "return"], UNCHANGED down
        PROVE  IInv'
    <2>1. fd \in Fds
      BY <1>1 DEF TypeOK, InHand
    <2>2. TypeOK' /\ InHand'
      BY <1>1, <1>4, <2>1 DEF TypeOK, InHand
    <2>3. InWork(fd)
      BY <1>1 DEF InWork
    <2>4. \A g \in Fds : /\ InEpoll(g)' <=> InEpoll(g) \/ g = fd
                         /\ InBatch(g)' <=> InBatch(g)
                         /\ InQueue(g)' <=> InQueue(g)
      BY <1>1, <1>4, <2>1 DEF InEpoll, InBatch, InQueue, TypeOK
    <2>5. \A g \in Fds : InWork(g)' <=> InWork(g) /\ g # fd
      BY <1>1, <1>4 DEF InWork, Exclusive, TypeOK
    <2>6. \A u, v \in Workers : at'[u] = "process" /\ at'[v] = "process"
                                 /\ running'[u] = running'[v] => u = v
      BY <1>1, <1>4 DEF Exclusive, TypeOK
    <2>7. Exclusive'
      BY <1>1, <2>1, <2>3, <2>4, <2>5, <2>6 DEF Exclusive
    <2>8. \A g \in Fds : Owned(g)' <=> Owned(g)
      BY <1>1, <2>3, <2>4, <2>5 DEF Owned
    <2> QED
      BY <1>1, <1>2, <2>2, <2>7, <2>8 DEF NoneStaleNoneLost
  <1> QED
    BY <1>3, <1>4 DEF WorkerProcess

LEMMA WorkerReturnStep ==
    ASSUME IInv, NEW w \in Workers, WorkerReturn(w)
    PROVE  IInv'
  <1> USE DEF IInv, loopVars, kernelVars
  <1>1. /\ at[w] = "return"
        /\ running' = [running EXCEPT ![w] = NoFd]
        /\ at' = [at EXCEPT ![w] = "idle"]
        /\ UNCHANGED <<client, kernelVars, loopVars, down, queue>>
    BY DEF WorkerReturn, TQ!Finish
  <1>2. TypeOK' /\ InHand'
    BY <1>1 DEF TypeOK, InHand
  <1>3. \A g \in Fds : /\ InEpoll(g)' <=> InEpoll(g)
                       /\ InBatch(g)' <=> InBatch(g)
                       /\ InQueue(g)' <=> InQueue(g)
                       /\ InWork(g)' <=> InWork(g)
    BY <1>1 DEF InEpoll, InBatch, InQueue, InWork, TypeOK
  <1>4. Exclusive'
    BY <1>1, <1>3 DEF Exclusive, TypeOK
  <1>5. \A g \in Fds : Owned(g)' <=> Owned(g)
    BY <1>1, <1>3 DEF Owned
  <1>6. NoForeignData' /\ UserCount' /\ ClientsMatch' /\ EdgeMeansConnection'
    BY <1>1 DEF NoForeignData, UserCount, ClientsMatch, EdgeMeansConnection
  <1> QED
    BY <1>1, <1>2, <1>4, <1>5, <1>6 DEF NoneStaleNoneLost

-----------------------------------------------------------------------------
(* The inductive invariant. *)

LEMMA InitEstablishes == Init => IInv
  <1> SUFFICES ASSUME Init PROVE IInv
    OBVIOUS
  <1> USE DEF Init, TQ!Init
  <1>1. TypeOK
    <2>1. Off \in [link : {"off", "backlog", "open"}, script : Seq(Segments),
                  arrived : Nat, left : BOOLEAN]
      BY DEF Off
    <2>2. /\ client \in [Peers -> [link : {"off", "backlog", "open"},
                                  script : Seq(Segments), arrived : Nat,
                                  left : BOOLEAN]]
          /\ backlog \in Seq(Peers) /\ queue \in Seq(Fds)
      BY <2>1
    <2>3. /\ edge \in BOOLEAN /\ listening \in BOOLEAN
          /\ userCount \in Nat /\ dropped \in SUBSET Fds
          /\ down \in {"no", "crash", "overrun"}
      OBVIOUS
    <2>4. /\ conn \in [Fds -> Peers \cup {NoPeer}]
          /\ armed \in [Fds -> {"none", "in", "out"}]
          /\ pending \in [Fds -> {"none", "hup", "in", "out"}]
          /\ got \in [Fds -> Nat]
      OBVIOUS
    <2>5. /\ running \in [Workers -> Fds \cup {NoFd}]
          /\ at \in [Workers -> {"idle", "process", "return"}]
      OBVIOUS
    <2> QED
      BY <2>2, <2>3, <2>4, <2>5 DEF TypeOK
  <1>5. InHand
    BY DEF InHand
  <1>2. Exclusive /\ NoneStaleNoneLost
    BY DEF Exclusive, NoneStaleNoneLost, Owned, InEpoll, InBatch, InQueue, InWork
  <1>3. NoForeignData /\ ClientsMatch /\ EdgeMeansConnection
    BY DEF NoForeignData, ClientsMatch, EdgeMeansConnection
  <1>4. UserCount
    <2>1. {fd \in Fds : conn[fd] # NoPeer} = {}
      OBVIOUS
    <2> QED
      BY <2>1, FS_EmptySet DEF UserCount
  <1> QED
    BY <1>1, <1>2, <1>3, <1>4, <1>5 DEF IInv

LEMMA NextPreserves == IInv /\ [Next]_vars => IInv'
  <1> SUFFICES ASSUME IInv, [Next]_vars PROVE IInv'
    OBVIOUS
  <1>1. CASE Client
    BY <1>1, ConnectStep, SendStep, LeaveStep DEF Client
  <1>2. CASE Loop
    BY <1>2, EpollWaitStep, HandleListenStep, HandleHupStep, HandleInStep,
       HandleOutStep, HandleOutAgainStep DEF Loop, Handle
  <1>3. ASSUME NEW w \in Workers, Worker(w) PROVE IInv'
    BY <1>3, WorkerTakeStep, WorkerProcessStep, WorkerReturnStep DEF Worker
  <1>4. CASE UNCHANGED vars
    <2> USE <1>4 DEF vars, kernelVars, loopVars, poolVars, IInv
    <2>1. TypeOK' /\ InHand'
      BY DEF TypeOK, InHand
    <2>2. Exclusive' /\ NoneStaleNoneLost'
      BY NothingMoves
    <2>3. NoForeignData' /\ UserCount' /\ ClientsMatch' /\ EdgeMeansConnection'
      BY DEF NoForeignData, UserCount, ClientsMatch, EdgeMeansConnection
    <2> QED
      BY <2>1, <2>2, <2>3
  <1> QED
    BY <1>1, <1>2, <1>3, <1>4 DEF Next, Down

-----------------------------------------------------------------------------
(* Each descriptor lives the life of a Connection. *)

\* What a client sends is its script, and no more.
Scripted == \A p \in Peers : client[p].arrived <= Len(client[p].script)

LEMMA ScriptedInit == Init => Scripted
  BY DEF Init, Scripted, Off

LEMMA ScriptedStep == IInv /\ Scripted /\ [Next]_vars => Scripted'
  <1> SUFFICES ASSUME IInv, Scripted, [Next]_vars PROVE Scripted'
    OBVIOUS
  <1>1. TypeOK /\ NoneStaleNoneLost
    BY DEF IInv
  <1>2. ASSUME UNCHANGED client PROVE Scripted'
    BY <1>2 DEF Scripted
  <1>3. ASSUME NEW p \in Peers, client' = [client EXCEPT ![p] = Off]
        PROVE  Scripted'
    BY <1>1, <1>3 DEF Scripted, TypeOK, Off
  <1>4. ASSUME NEW fd \in Fds, pending[fd] # "none", CloseConn(fd)
        PROVE  Scripted'
    <2>1. conn[fd] \in Peers
      BY <1>1, <1>4 DEF TypeOK, NoneStaleNoneLost, Owned, InBatch
    <2> QED
      BY <1>3, <1>4, <2>1 DEF CloseConn
  <1>5. CASE Client
    <2>1. ASSUME NEW p \in Peers, NEW s \in Scripts, Connect(p, s)
          PROVE  Scripted'
      <3>1. client' = [client EXCEPT ![p] = [Off EXCEPT !.link = "backlog",
                                                        !.script = s]]
            /\ Len(s) \in Nat
        BY <2>1, ServerAssumption DEF Connect
      <3>2. client'[p].arrived = 0 /\ client'[p].script = s
        BY <1>1, <3>1 DEF TypeOK, Off
      <3>3. \A q \in Peers : q # p => client'[q] = client[q]
        BY <1>1, <3>1 DEF TypeOK
      <3> QED
        BY <3>1, <3>2, <3>3 DEF Scripted
    <2>2. ASSUME NEW p \in Peers, Send(p) PROVE Scripted'
      <3>1. client' = [client EXCEPT ![p].arrived = @ + 1]
            /\ client[p].arrived < Len(client[p].script)
        BY <2>2 DEF Send
      <3>2. /\ client'[p].arrived = client[p].arrived + 1
            /\ client'[p].script = client[p].script
        BY <1>1, <3>1 DEF TypeOK
      <3>3. client[p].arrived \in Nat /\ Len(client[p].script) \in Nat
        BY <1>1 DEF TypeOK
      <3>4. \A q \in Peers : q # p => client'[q] = client[q]
        BY <1>1, <3>1 DEF TypeOK
      <3> QED
        BY <3>1, <3>2, <3>3, <3>4 DEF Scripted
    <2>3. ASSUME NEW p \in Peers, Leave(p) PROVE Scripted'
      <3>1. \A q \in Peers : /\ client'[q].arrived = client[q].arrived
                             /\ client'[q].script = client[q].script
        BY <1>1, <2>3 DEF Leave, TypeOK
      <3> QED
        BY <3>1 DEF Scripted
    <2> QED
      BY <1>5, <2>1, <2>2, <2>3 DEF Client
  <1>6. CASE Loop
    <2>1. CASE EpollWait
      BY <1>2, <2>1 DEF EpollWait
    <2>2. CASE HandleListen
      <3>1. CASE backlog = <<>> \/ Free = {}
        BY <1>2, <2>2, <3>1 DEF HandleListen
      <3>2. CASE ~(backlog = <<>> \/ Free = {})
        <4>1. Head(backlog) \in Peers
          BY <1>1, <3>2, HeadTailProperties DEF TypeOK
        <4>2. CASE userCount >= MaxFd
          BY <1>3, <2>2, <3>2, <4>1, <4>2 DEF HandleListen
        <4>3. CASE ~(userCount >= MaxFd)
          <5>1. PICK fd \in Fds : Accept(fd)
            BY <2>2, <3>2, <4>3 DEF HandleListen
          <5>2. UNCHANGED client
                \/ client' = [client EXCEPT ![Head(backlog)].link = "open"]
            BY <5>1 DEF Accept
          <5>3. CASE client' = [client EXCEPT ![Head(backlog)].link = "open"]
            <6> DEFINE p == Head(backlog)
            <6>1. /\ client'[p].arrived = client[p].arrived
                  /\ client'[p].script = client[p].script
              BY <1>1, <4>1, <5>3 DEF TypeOK
            <6>2. \A q \in Peers : q # p => client'[q] = client[q]
              BY <1>1, <5>3 DEF TypeOK
            <6> QED
              BY <6>1, <6>2 DEF Scripted
          <5> QED
            BY <1>2, <5>2, <5>3
        <4> QED
          BY <4>2, <4>3
      <3> QED
        BY <3>1, <3>2
    <2>3. ASSUME NEW fd \in Fds, Handle(fd) PROVE Scripted'
      <3>1. pending[fd] # "none" /\ (CloseConn(fd) \/ UNCHANGED client)
        BY <2>3 DEF Handle, HandleHup, HandleIn, HandleOut, HandleOutAgain
      <3> QED
        BY <1>2, <1>4, <3>1
    <2> QED
      BY <1>6, <2>1, <2>2, <2>3 DEF Loop
  <1>7. ASSUME NEW w \in Workers, Worker(w) PROVE Scripted'
    BY <1>2, <1>7 DEF Worker, WorkerTake, WorkerProcess, WorkerReturn
  <1>8. CASE UNCHANGED vars
    BY <1>2, <1>8 DEF vars
  <1> QED
    BY <1>5, <1>6, <1>7, <1>8 DEF Next, Down

\* Some natural number of a set is the least.
LEMMA LeastSegment ==
    ASSUME NEW S \in SUBSET Nat, S # {}
    PROVE  Min(S) \in S /\ \A x \in S : Min(S) <= x
  <1>1. PICK n \in S : \A x \in S : ~(<<x, n>> \in OpToRel(<, Nat))
    BY NatLessThanWellFounded, WFMin
  <1>2. \A x \in S : n <= x
    <2> SUFFICES ASSUME NEW x \in S, x < n PROVE FALSE
      OBVIOUS
    <2>1. <<x, n>> \in OpToRel(<, Nat)
      BY DEF OpToRel
    <2> QED
      BY <1>1, <2>1
  <1> QED
    BY <1>2 DEF Min

\* Segments that follow do not change what the first ones amount to.
LEMMA LineInIsFinal ==
    ASSUME NEW s \in Seq(Segments), NEW m \in Nat, NEW n \in Nat,
           m <= n, n <= Len(s)
    PROVE  /\ LineIn(SubSeq(s, 1, m)) \in Segments
           /\ LineIn(SubSeq(s, 1, m)) # "part" =>
                 LineIn(SubSeq(s, 1, n)) = LineIn(SubSeq(s, 1, m))
  <1> DEFINE D(k) == {i \in 1..k : s[i] # "part"}
  <1>1. ASSUME NEW k \in Nat, k <= Len(s)
        PROVE  LineIn(SubSeq(s, 1, k))
                  = IF D(k) = {} THEN "part" ELSE s[Min(D(k))]
    <2> DEFINE u == SubSeq(s, 1, k)
               done == {i \in DOMAIN u : u[i] # "part"}
    <2>1. DOMAIN u = 1..k /\ \A i \in 1..k : u[i] = s[i]
      BY <1>1
    <2>2. done = D(k)
      BY <2>1
    <2>3. LineIn(u) = IF done = {} THEN "part" ELSE u[Min(done)]
      BY DEF LineIn
    <2>4. D(k) # {} => Min(D(k)) \in D(k)
      <3>1. D(k) \in SUBSET Nat
        OBVIOUS
      <3> QED
        BY <3>1, LeastSegment
    <2> HIDE DEF u, done
    <2> QED
      BY <2>1, <2>2, <2>3, <2>4 DEF u
  <1>2. ASSUME D(m) # {}
        PROVE  /\ D(n) # {} /\ Min(D(n)) = Min(D(m))
               /\ s[Min(D(m))] \in Segments
    <2>1. D(m) \in SUBSET Nat /\ D(n) \in SUBSET Nat /\ D(m) \subseteq D(n)
      OBVIOUS
    <2> DEFINE e == Min(D(m))
               f == Min(D(n))
    <2>2. e \in D(m) /\ \A x \in D(m) : e <= x
      <3> HIDE DEF D
      <3> QED
        BY <1>2, <2>1, LeastSegment
    <2>3. f \in D(n) /\ \A x \in D(n) : f <= x
      <3> HIDE DEF D
      <3> QED
        BY <1>2, <2>1, LeastSegment
    <2> HIDE DEF e, f
    <2>4. f <= e /\ f \in D(m)
      BY <2>1, <2>2, <2>3
    <2>5. e = f
      BY <2>2, <2>4
    <2> QED
      BY <1>2, <2>1, <2>2, <2>5 DEF e, f
  <1>3. "part" \in Segments /\ m <= Len(s)
    BY DEF Segments
  <1>4. CASE D(m) = {}
    BY <1>1, <1>3, <1>4
  <1>5. CASE D(m) # {}
    <2> HIDE DEF D
    <2> QED
      BY <1>1, <1>2, <1>3, <1>5
  <1> QED
    BY <1>4, <1>5

\* Of nothing read, nothing is made.
LEMMA NothingRead ==
    ASSUME NEW s \in Seq(Segments)
    PROVE  LineIn(SubSeq(s, 1, 0)) = "part"
  <1>1. SubSeq(s, 1, 0) = <<>>
    OBVIOUS
  <1> QED
    BY <1>1 DEF LineIn

\* A step that leaves a descriptor alone.
LEMMA StaysPut ==
    ASSUME NEW fd \in Fds, conn'[fd] = conn[fd], armed'[fd] = armed[fd],
           pending'[fd] = pending[fd], got'[fd] = got[fd],
           conn[fd] # NoPeer =>
               client'[conn[fd]].script = client[conn[fd]].script
    PROVE  UNCHANGED <<Place(fd), Line(fd)>>
  BY DEF Place, Line, Verdict, InEpoll, InBatch

\* A handler ends a connection of the batch.
LEMMA Closes ==
    ASSUME IInv, NEW fd \in Fds, pending[fd] # "none", CloseConn(fd),
           pending' = [pending EXCEPT ![fd] = "none"],
           UNCHANGED <<armed, got>>, NEW g \in Fds
    PROVE  C(g)!Next \/ UNCHANGED <<Place(g), Line(g)>>
  <1>0. TypeOK /\ ClientsMatch /\ NoneStaleNoneLost /\ Exclusive
    BY DEF IInv
  <1>1. conn[fd] \in Peers /\ conn[fd] # NoPeer /\ armed[fd] = "none"
    BY <1>0, ServerAssumption
    DEF TypeOK, NoneStaleNoneLost, Owned, InBatch, InEpoll, Exclusive
  <1>2. /\ conn' = [conn EXCEPT ![fd] = NoPeer]
        /\ client' = [client EXCEPT ![conn[fd]] = Off]
    BY DEF CloseConn
  <1>3. CASE g = fd
    <2>1. Place(g) \in {"reading", "writing", "lost"}
      BY <1>0, <1>1, <1>3 DEF TypeOK, Place, InEpoll, InBatch
    <2>2. Place(g)' = "closed" /\ Line(g)' = "part"
      BY <1>0, <1>2, <1>3 DEF Place, Line, TypeOK
    <2> QED
      BY <2>1, <2>2 DEF C!Next, C!Close
  <1>4. CASE g # fd
    <2>1. conn'[g] = conn[g] /\ pending'[g] = pending[g]
      BY <1>0, <1>2, <1>4 DEF TypeOK
    <2>2. conn[g] # NoPeer => client'[conn[g]] = client[conn[g]]
      BY <1>0, <1>1, <1>2, <1>4 DEF ClientsMatch, TypeOK
    <2> QED
      BY <2>1, <2>2, StaysPut
  <1> QED
    BY <1>3, <1>4

LEMMA EpollWaitLives ==
    ASSUME IInv, EpollWait, NEW g \in Fds
    PROVE  C(g)!Next \/ UNCHANGED <<Place(g), Line(g)>>
  <1>0. NoneStaleNoneLost /\ TypeOK
    BY DEF IInv
  <1>1. /\ pending[g] = "none" /\ pending'[g] = Event(g)
        /\ armed'[g] = IF Event(g) = "none" THEN armed[g] ELSE "none"
        /\ UNCHANGED <<client, conn, got>>
    BY DEF EpollWait, Waiting
  <1>2. CASE Event(g) = "none"
    BY <1>1, <1>2, StaysPut
  <1>3. CASE Event(g) # "none"
    <2>1. /\ armed[g] # "none" /\ armed'[g] = "none"
          /\ Event(g) \in {"hup", armed[g]}
      BY <1>0, <1>1, <1>3 DEF Event, TypeOK
    <2>2. conn[g] # NoPeer /\ armed[g] \in {"in", "out"}
      BY <1>0, <2>1 DEF NoneStaleNoneLost, Owned, InEpoll, TypeOK
    <2>3. Place(g) = armed[g]
      BY <2>2 DEF Place, InEpoll
    <2>4. Place(g)' = CASE Event(g) = "in" -> "reading"
                        [] Event(g) = "out" -> "writing"
                        [] OTHER -> "lost"
      BY <1>1, <1>3, <2>1, <2>2 DEF Place, InEpoll, InBatch
    <2>5. Line(g)' = Line(g)
      BY <1>1 DEF Line, Verdict
    <2> HIDE DEF Place, Line
    <2> QED
      BY <2>1, <2>2, <2>3, <2>4, <2>5 DEF C!Next, C!Report
  <1> QED
    BY <1>2, <1>3

LEMMA HandleListenLives ==
    ASSUME IInv, HandleListen, NEW g \in Fds
    PROVE  C(g)!Next \/ UNCHANGED <<Place(g), Line(g)>>
  <1>0. TypeOK /\ ClientsMatch /\ NoneStaleNoneLost
    BY DEF IInv
  <1>1. UNCHANGED pending
    BY DEF HandleListen
  <1>2. CASE backlog = <<>> \/ Free = {}
    <2>1. UNCHANGED <<client, conn, armed, got>>
      BY <1>2 DEF HandleListen
    <2> QED
      BY <1>1, <2>1, StaysPut
  <1>3. CASE ~(backlog = <<>> \/ Free = {})
    <2> DEFINE p == Head(backlog)
    <2>1. p \in Peers /\ p = backlog[1] /\ 1 \in DOMAIN backlog
      BY <1>0, <1>3, HeadTailProperties, LenProperties DEF TypeOK
    <2>2. \A h \in Fds : conn[h] # p
      BY <1>0, <2>1, ServerAssumption DEF ClientsMatch
    <2> HIDE DEF p
    <2>3. CASE userCount >= MaxFd
      <3>1. client' = [client EXCEPT ![p] = Off] /\ UNCHANGED <<conn, armed, got>>
        BY <1>3, <2>3 DEF HandleListen, p
      <3>2. conn[g] # NoPeer => client'[conn[g]] = client[conn[g]]
        BY <1>0, <2>2, <3>1 DEF TypeOK
      <3> QED
        BY <1>1, <3>1, <3>2, StaysPut
    <2>4. CASE ~(userCount >= MaxFd)
      <3>1. PICK fd \in Fds : Lowest(fd) /\ Accept(fd)
        BY <1>3, <2>4 DEF HandleListen
      <3>2. CASE fd >= MaxFd
        <4>1. UNCHANGED <<client, conn, armed, got>>
          BY <3>1, <3>2 DEF Accept
        <4> QED
          BY <1>1, <4>1, StaysPut
      <3>3. CASE ~(fd >= MaxFd)
        <4>1. /\ conn' = [conn EXCEPT ![fd] = p]
              /\ client' = [client EXCEPT ![p].link = "open"]
              /\ armed' = [armed EXCEPT ![fd] = "in"]
              /\ got' = [got EXCEPT ![fd] = 0]
          BY <3>1, <3>3 DEF Accept, p
        <4>2. \A q \in Peers : client'[q].script = client[q].script
          BY <1>0, <2>1, <4>1 DEF TypeOK
        <4>3. CASE g = fd
          <5>1. Place(g) = "closed" /\ Line(g) = "part"
            BY <3>1, <4>3 DEF Place, Line, Lowest
          <5>2. conn'[g] = p /\ p # NoPeer /\ armed'[g] = "in" /\ got'[g] = 0
            BY <1>0, <2>1, <4>1, <4>3, ServerAssumption DEF TypeOK
          <5>3. Place(g)' = "in"
            BY <5>2 DEF Place, InEpoll
          <5>4. client[p].script \in Seq(Segments)
            BY <1>0, <2>1 DEF TypeOK
          <5>5. LineIn(SubSeq(client[p].script, 1, 0)) = "part"
            BY <5>4, NothingRead
          <5>6. Line(g)' = "part"
            BY <2>1, <4>2, <5>2, <5>5 DEF Line, Verdict
          <5> QED
            BY <5>1, <5>3, <5>6 DEF C!Next, C!Open
        <4>4. CASE g # fd
          <5>1. conn'[g] = conn[g] /\ armed'[g] = armed[g] /\ got'[g] = got[g]
            BY <1>0, <4>1, <4>4 DEF TypeOK
          <5>2. conn[g] # NoPeer => conn[g] \in Peers
            BY <1>0 DEF TypeOK
          <5> QED
            BY <1>1, <4>2, <5>1, <5>2, StaysPut
        <4> QED
          BY <4>3, <4>4
      <3> QED
        BY <3>2, <3>3
    <2> QED
      BY <2>3, <2>4
  <1> QED
    BY <1>2, <1>3

LEMMA HandleInLives ==
    ASSUME IInv, Scripted, NEW fd \in Fds, HandleIn(fd), NEW g \in Fds
    PROVE  C(g)!Next \/ UNCHANGED <<Place(g), Line(g)>>
  <1>0. TypeOK /\ ClientsMatch /\ NoneStaleNoneLost /\ Exclusive /\ NoForeignData
    BY DEF IInv
  <1>1. /\ pending[fd] = "in" /\ UNCHANGED armed
        /\ pending' = [pending EXCEPT ![fd] = "none"]
    BY DEF HandleIn
  <1>2. CASE client[conn[fd]].left \/ client[conn[fd]].arrived > ReadLimit
    <2>1. CloseConn(fd) /\ UNCHANGED got
      BY <1>2 DEF HandleIn
    <2> QED
      BY <1>1, <2>1, Closes
  <1>3. CASE ~(client[conn[fd]].left \/ client[conn[fd]].arrived > ReadLimit)
    <2> DEFINE p == conn[fd]
    <2>1. got' = [got EXCEPT ![fd] = client[p].arrived] /\ UNCHANGED <<client, conn>>
      BY <1>3 DEF HandleIn
    <2>2. CASE g = fd
      <3>1. p \in Peers /\ p # NoPeer /\ armed[fd] = "none"
        BY <1>0, <1>1, ServerAssumption
        DEF TypeOK, NoneStaleNoneLost, Owned, InBatch, InEpoll, Exclusive
      <3>2. Place(g) = "reading"
        BY <1>1, <2>2, <3>1 DEF Place, InEpoll, InBatch
      <3>3. pending'[fd] = "none" /\ armed'[fd] = "none" /\ conn'[fd] = p
            /\ got'[fd] = client[p].arrived
        BY <1>0, <1>1, <2>1, <3>1 DEF TypeOK
      <3>4. Place(g)' = "work"
        BY <2>2, <3>1, <3>3 DEF Place, InEpoll, InBatch
      <3> DEFINE s == client[p].script
                 m == got[fd]
                 n == client[p].arrived
      <3>5. Line(g) = LineIn(SubSeq(s, 1, m)) /\ Line(g)' = LineIn(SubSeq(s, 1, n))
        BY <2>1, <2>2, <3>1, <3>3 DEF Line, Verdict
      <3>6. /\ s \in Seq(Segments) /\ m \in Nat /\ n \in Nat
            /\ m <= n /\ n <= Len(s)
        BY <1>0, <3>1 DEF TypeOK, NoForeignData, Scripted
      <3>7. n <= n
        BY <3>6
      <3> HIDE DEF s, m, n, p
      <3>8. /\ Line(g) # "part" => Line(g)' = Line(g)
            /\ Line(g)' \in {"part", "line", "noversion"}
        BY <3>5, <3>6, <3>7, LineInIsFinal DEF Segments
      <3> QED
        BY <3>2, <3>4, <3>8 DEF C!Next, C!Receive
    <2>3. CASE g # fd
      <3>1. pending'[g] = pending[g] /\ got'[g] = got[g]
        BY <1>0, <1>1, <2>1, <2>3 DEF TypeOK
      <3> QED
        BY <1>1, <2>1, <3>1, StaysPut
    <2> QED
      BY <2>2, <2>3
  <1> QED
    BY <1>2, <1>3

LEMMA HandleOutAgainLives ==
    ASSUME IInv, NEW fd \in Fds, HandleOutAgain(fd), NEW g \in Fds
    PROVE  C(g)!Next \/ UNCHANGED <<Place(g), Line(g)>>
  <1>0. TypeOK /\ NoneStaleNoneLost /\ Exclusive
    BY DEF IInv
  <1>1. /\ pending[fd] = "out" /\ UNCHANGED <<client, conn, got>>
        /\ pending' = [pending EXCEPT ![fd] = "none"]
        /\ armed' = [armed EXCEPT ![fd] = "out"]
    BY DEF HandleOutAgain
  <1>2. CASE g = fd
    <2>1. conn[fd] # NoPeer /\ armed[fd] = "none"
      BY <1>0, <1>1
      DEF TypeOK, NoneStaleNoneLost, Owned, InBatch, InEpoll, Exclusive
    <2>2. Place(g) = "writing" /\ Place(g)' = "out"
      BY <1>0, <1>1, <1>2, <2>1 DEF Place, InEpoll, InBatch, TypeOK
    <2>3. Line(g)' = Line(g)
      BY <1>1 DEF Line, Verdict
    <2> QED
      BY <2>2, <2>3 DEF C!Next, C!Again
  <1>3. CASE g # fd
    <2>1. pending'[g] = pending[g] /\ armed'[g] = armed[g]
      BY <1>0, <1>1, <1>3 DEF TypeOK
    <2> QED
      BY <1>1, <2>1, StaysPut
  <1> QED
    BY <1>2, <1>3

LEMMA WorkerProcessLives ==
    ASSUME IInv, NEW w \in Workers, WorkerProcess(w), NEW g \in Fds
    PROVE  C(g)!Next \/ UNCHANGED <<Place(g), Line(g)>>
  <1> DEFINE fd == running[w]
  <1>0. TypeOK /\ NoneStaleNoneLost /\ Exclusive /\ InHand
    BY DEF IInv
  <1>1. at[w] = "process" /\ UNCHANGED <<client, conn, pending, got>>
    BY DEF WorkerProcess, loopVars
  <1>2. fd \in Fds /\ InWork(fd)
    BY <1>0, <1>1 DEF TypeOK, InHand, InWork
  <1>3. conn[fd] # NoPeer /\ armed[fd] = "none" /\ pending[fd] = "none"
    BY <1>0, <1>2 DEF NoneStaleNoneLost, Owned, Exclusive, InEpoll, InBatch
  <1>4. CASE UNCHANGED armed
    BY <1>1, <1>4, StaysPut
  <1>5. ASSUME NEW e \in {"in", "out"}, armed' = [armed EXCEPT ![fd] = e],
               Verdict(fd) = IF e = "in" THEN "part" ELSE "line"
        PROVE  C(g)!Next \/ UNCHANGED <<Place(g), Line(g)>>
    <2>1. CASE g = fd
      <3>1. Place(g) = "work" /\ Place(g)' = e
        BY <1>0, <1>1, <1>2, <1>3, <1>5, <2>1 DEF Place, InEpoll, InBatch, TypeOK
      <3>2. Line(g)' = Line(g) /\ Line(g) = IF e = "in" THEN "part" ELSE "line"
        BY <1>1, <1>3, <1>5, <2>1 DEF Line, Verdict
      <3> QED
        BY <3>1, <3>2 DEF C!Next, C!Process
    <2>2. CASE g # fd
      <3>1. armed'[g] = armed[g]
        BY <1>0, <1>5, <2>2 DEF TypeOK
      <3> QED
        BY <1>1, <3>1, StaysPut
    <2> QED
      BY <2>1, <2>2
  <1> QED
    BY <1>4, <1>5 DEF WorkerProcess

LEMMA Lives ==
    ASSUME IInv, Scripted, [Next]_vars, NEW g \in Fds
    PROVE  C(g)!Next \/ UNCHANGED <<Place(g), Line(g)>>
  <1>0. TypeOK /\ ClientsMatch
    BY DEF IInv
  <1>1. CASE Client
    <2>1. UNCHANGED <<conn, armed, pending, got>>
      BY <1>1 DEF Client, Connect, Send, Leave, kernelVars, loopVars
    <2>2. conn[g] # NoPeer => client'[conn[g]].script = client[conn[g]].script
      <3> SUFFICES ASSUME conn[g] # NoPeer
                   PROVE  client'[conn[g]].script = client[conn[g]].script
        OBVIOUS
      <3>1. conn[g] \in Peers /\ client[conn[g]].link = "open"
        BY <1>0 DEF TypeOK, ClientsMatch
      <3>2. ASSUME NEW p \in Peers, NEW s \in Scripts, Connect(p, s)
            PROVE  client'[conn[g]].script = client[conn[g]].script
        <4>1. client[p] = Off /\ client' = [client EXCEPT ![p] =
                                    [Off EXCEPT !.link = "backlog", !.script = s]]
          BY <3>2 DEF Connect
        <4>2. conn[g] # p
          BY <3>1, <4>1 DEF Off
        <4> QED
          BY <1>0, <3>1, <4>1, <4>2 DEF TypeOK
      <3>3. ASSUME NEW p \in Peers, Send(p)
            PROVE  client'[conn[g]].script = client[conn[g]].script
        BY <1>0, <3>1, <3>3 DEF Send, TypeOK
      <3>4. ASSUME NEW p \in Peers, Leave(p)
            PROVE  client'[conn[g]].script = client[conn[g]].script
        BY <1>0, <3>1, <3>4 DEF Leave, TypeOK
      <3> QED
        BY <1>1, <3>2, <3>3, <3>4 DEF Client
    <2> QED
      BY <2>1, <2>2, StaysPut
  <1>2. CASE Loop
    <2>1. ASSUME NEW fd \in Fds, HandleHup(fd) \/ HandleOut(fd)
          PROVE  C(g)!Next \/ UNCHANGED <<Place(g), Line(g)>>
      BY <2>1, Closes DEF HandleHup, HandleOut
    <2> QED
      BY <1>2, <2>1, EpollWaitLives, HandleListenLives, HandleInLives,
         HandleOutAgainLives DEF Loop, Handle
  <1>3. ASSUME NEW w \in Workers, Worker(w)
        PROVE  C(g)!Next \/ UNCHANGED <<Place(g), Line(g)>>
    <2>1. CASE WorkerTake(w) \/ WorkerReturn(w)
      <3>1. UNCHANGED <<client, conn, armed, pending, got>>
        BY <2>1 DEF WorkerTake, WorkerReturn, kernelVars, loopVars
      <3> QED
        BY <3>1, StaysPut
    <2> QED
      BY <1>3, <2>1, WorkerProcessLives DEF Worker
  <1>4. CASE UNCHANGED vars
    BY <1>4, StaysPut DEF vars, kernelVars, loopVars
  <1> QED
    BY <1>1, <1>2, <1>3, <1>4 DEF Next, Down

-----------------------------------------------------------------------------
(* The theorems. *)

\* The inductive invariant: a connection's place follows it through every
\* handler of the event loop and every step of a worker.
THEOREM Invariance == Spec => []IInv
  BY InitEstablishes, NextPreserves, PTL DEF Spec

\* The variables keep their types; in particular user_count_ is never negative.
THEOREM TypeCorrect == Spec => []TypeOK
  <1>1. IInv => TypeOK
    BY DEF IInv
  <1> QED
    BY <1>1, Invariance, PTL

\* No HttpConn is ever used by two threads, whatever the number of workers: the
\* code has no lock around it, only EPOLLONESHOT (AddFD, http_conn.cpp:32-41)
\* and the ModFD that ends each handler.
THEOREM OneThreadAtATime == Spec => []Exclusive
  <1>1. IInv => Exclusive
    BY DEF IInv
  <1> QED
    BY <1>1, Invariance, PTL

\* Events, queue entries and workers refer to open connections only, though the
\* kernel reuses descriptors (main.cpp:109-130); and an open connection is
\* always somewhere.
THEOREM NoStalePointer == Spec => []NoneStaleNoneLost
  <1>1. IInv => NoneStaleNoneLost
    BY DEF IInv
  <1> QED
    BY <1>1, Invariance, PTL

\* A client is never served with what the last client of its descriptor sent
\* (HttpConn::Init, http_conn.cpp:66-93).
THEOREM FreshObject == Spec => []NoForeignData
  <1>1. IInv => NoForeignData
    BY DEF IInv
  <1> QED
    BY <1>1, Invariance, PTL

\* user_count_ counts the open connections (http_conn.cpp:58-76).
THEOREM CountIsExact == Spec => []UserCount
  <1>1. IInv => UserCount
    BY DEF IInv
  <1> QED
    BY <1>1, Invariance, PTL

\* The one accept per report of main.cpp:100-114 never finds the backlog empty,
\* which would block the event loop but for the O_NONBLOCK of AddFD.
THEOREM AcceptFindsConnection == Spec => []EdgeMeansConnection
  <1>1. IInv => EdgeMeansConnection
    BY DEF IInv
  <1> QED
    BY <1>1, Invariance, PTL

\* Each descriptor implements Connection, for any number of clients, workers
\* and descriptors: whatever the event loop and the pool do with the others,
\* and whoever had its number before, an HttpConn meets the life it is written
\* for (main.cpp:91-135 with http_conn.cpp).
THEOREM EveryConnectionLives == Spec => ImplementsConnection
  <1>1. Init => \A fd \in Fds : C(fd)!Init
    <2> SUFFICES ASSUME Init, NEW fd \in Fds PROVE C(fd)!Init
      OBVIOUS
    <2> QED
      BY DEF Init, C!Init, Place, Line
  <1>2. IInv /\ Scripted /\ [Next]_vars
           => \A fd \in Fds : [C(fd)!Next]_(C(fd)!vars)
    BY Lives DEF C!vars
  <1>3. Init => IInv /\ Scripted
    BY InitEstablishes, ScriptedInit
  <1>4. IInv /\ Scripted /\ [Next]_vars => (IInv /\ Scripted)'
    BY NextPreserves, ScriptedStep
  <1> QED
    BY <1>1, <1>2, <1>3, <1>4, PTL DEF Spec, ImplementsConnection

\* A connection waits for EPOLLOUT, or has it reported, only if its own client
\* sent a complete line: the life it lives gives the one inductive step.
THEOREM OnlyLinesAreAnswered ==
    Spec => [](\A fd \in Fds :
                  Place(fd) \in {"out", "writing"} => Line(fd) = "line")
  <1> DEFINE Answer(fd) == Place(fd) \in {"out", "writing"} => Line(fd) = "line"
             Answered == \A fd \in Fds : Answer(fd)
  <1>1. Init => Answered
    BY DEF Init, Place
  <1>2. IInv /\ Scripted /\ Answered /\ [Next]_vars => Answered'
    <2> SUFFICES ASSUME IInv, Scripted, Answered, [Next]_vars, NEW fd \in Fds
                 PROVE  Answer(fd)'
      OBVIOUS
    <2>1. C(fd)!Next \/ UNCHANGED <<Place(fd), Line(fd)>>
      BY Lives
    <2>2. Answer(fd)
      OBVIOUS
    <2> HIDE DEF Place, Line
    <2> QED
      BY <2>1, <2>2 DEF C!Next, C!Open, C!Report, C!Receive, C!Process, C!Again,
                        C!Close
  <1>3. Init => IInv /\ Scripted
    BY InitEstablishes, ScriptedInit
  <1>4. IInv /\ Scripted /\ [Next]_vars => (IInv /\ Scripted)'
    BY NextPreserves, ScriptedStep
  <1> HIDE DEF Answered
  <1>5. Spec => []Answered
    BY <1>1, <1>2, <1>3, <1>4, PTL DEF Spec
  <1> QED
    BY <1>5 DEF Answered

\* The answer of Append that main.cpp:120 ignores costs a connection: after a
\* refusal its descriptor is open and with the same client in every later
\* state, whatever that client does, and counts as a user.
THEOREM RefusedIsLost ==
    Spec => [][\A fd \in dropped : /\ fd \in dropped'
                                   /\ conn[fd] # NoPeer
                                   /\ conn'[fd] = conn[fd]]_vars
  <1>1. ASSUME IInv, Next, NEW fd \in dropped
        PROVE  fd \in dropped' /\ conn[fd] # NoPeer /\ conn'[fd] = conn[fd]
    <2>1. fd \in Fds /\ conn[fd] # NoPeer /\ pending[fd] = "none"
      BY <1>1 DEF IInv, TypeOK, NoneStaleNoneLost, Owned, Exclusive, InBatch
    <2>2. conn \in [Fds -> Peers \cup {NoPeer}]
      BY <1>1 DEF IInv, TypeOK
    <2>3. ASSUME NEW g \in Fds, CloseConn(g), pending[g] # "none"
          PROVE  conn'[fd] = conn[fd]
      BY <2>1, <2>2, <2>3 DEF CloseConn
    <2>4. CASE Client
      <3>1. UNCHANGED <<conn, dropped>>
        <4>1. ASSUME NEW p \in Peers, NEW s \in Scripts, Connect(p, s)
              PROVE  UNCHANGED <<conn, dropped>>
          BY <4>1 DEF Connect, loopVars
        <4>2. ASSUME NEW p \in Peers, Send(p) \/ Leave(p)
              PROVE  UNCHANGED <<conn, dropped>>
          BY <4>2 DEF Send, Leave, kernelVars, loopVars
        <4> QED
          BY <2>4, <4>1, <4>2 DEF Client
      <3> QED
        BY <2>1, <3>1
    <2>5. CASE EpollWait \/ Down \/ \E w \in Workers : Worker(w)
      <3>1. UNCHANGED <<conn, dropped>>
        <4>1. CASE EpollWait \/ Down
          BY <4>1 DEF EpollWait, Down, vars, kernelVars, loopVars
        <4>2. ASSUME NEW w \in Workers, Worker(w)
              PROVE  UNCHANGED <<conn, dropped>>
          BY <4>2 DEF Worker, WorkerTake, WorkerProcess, WorkerReturn,
                      kernelVars, loopVars
        <4> QED
          BY <2>5, <4>1, <4>2
      <3> QED
        BY <2>1, <3>1
    <2>6. CASE HandleListen
      <3>1. fd \in dropped'
        BY <2>6 DEF HandleListen
      <3>2. conn'[fd] = conn[fd]
        BY <2>1, <2>2, <2>6 DEF HandleListen, Accept, Lowest
      <3> QED
        BY <2>1, <3>1, <3>2
    <2>7. ASSUME NEW g \in Fds, Handle(g)
          PROVE  fd \in dropped' /\ conn'[fd] = conn[fd]
      <3>1. fd \in dropped'
        BY <2>7 DEF Handle, HandleHup, HandleIn, HandleOut, HandleOutAgain
      <3>2. UNCHANGED conn \/ (CloseConn(g) /\ pending[g] # "none")
        BY <2>7 DEF Handle, HandleHup, HandleIn, HandleOut, HandleOutAgain
      <3> QED
        BY <2>3, <3>1, <3>2
    <2> QED
      BY <1>1, <2>1, <2>4, <2>5, <2>6, <2>7 DEF Next, Loop
  <1> DEFINE Kept == \A fd \in dropped :
                        /\ fd \in dropped'
                        /\ conn[fd] # NoPeer
                        /\ conn'[fd] = conn[fd]
  <1>2. IInv /\ [Next]_vars => [Kept]_vars
    BY <1>1
  <1> HIDE DEF Kept
  <1>3. Spec => [][Kept]_vars
    BY <1>2, Invariance, PTL DEF Spec
  <1> QED
    BY <1>3 DEF Kept
=============================================================================
