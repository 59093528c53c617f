---------------------------- MODULE EpollServer ----------------------------
(***************************************************************************)
(* ss/main.cpp with the connections and the pool it drives: the event loop *)
(* on epoll, the array users[] of HttpConn objects indexed by descriptor,  *)
(* the queue of the thread pool, the workers that run Process, and the     *)
(* clients.                                                                *)
(*                                                                         *)
(* The pool is the bounded FIFO of TaskQueue, which ThreadPool implements. *)
(* A connection is coarser than in HttpConn: a client's bytes come in      *)
(* segments, and all that counts is whether the segments read so far hold  *)
(* a complete line. A handler of the event loop is one step, and so is a   *)
(* worker's parse with the ModFD that ends it: while either runs, no other *)
(* thread touches that connection, which is what Ownership says.           *)
(***************************************************************************)
EXTENDS Integers, Sequences, FiniteSetsExt, SequencesExt

CONSTANTS Peers,       \* the clients
          NoPeer,      \* conn[fd] of a descriptor that is not in use
          Scripts,     \* what a client may send: sequences of segments
          ReadLimit,   \* how many segments read_buf_ has room for
          Workers,     \* the pool's threads
          MaxRequests, \* the pool's max_requests_
          FirstFd,     \* the lowest descriptor a connection can get
          NoFile,      \* the process's limit on descriptors (RLIMIT_NOFILE)
          MaxFd,       \* max_fd: the length of users[]
          Backlog      \* the kernel's limit on connections not yet accepted

Segments == {"part", "line", "noversion"}

ASSUME ServerAssumption ==
    /\ NoPeer \notin Peers
    /\ Scripts \subseteq Seq(Segments)
    /\ MaxRequests \in Nat \ {0}
    /\ FirstFd \in Nat \ {0} /\ NoFile \in Nat /\ MaxFd \in Nat
    /\ Backlog \in Nat /\ ReadLimit \in Nat

\* A client's connection: "backlog" until it is accepted, then "open"; what the
\* client sends on it, how many of these segments have arrived, and whether it
\* has shut down or reset it.
Off == [link |-> "off", script |-> <<>>, arrived |-> 0, left |-> FALSE]

Fds  == FirstFd..NoFile-1
NoFd == 0     \* running[w] of a worker that has no request

VARIABLES
    \* the clients
    client,    \* each client's connection, or Off
    \* the kernel
    backlog,   \* connections waiting for accept, in order
    edge,      \* a connection arrived since the last report of listenfd
    conn,      \* the client behind each descriptor
    armed,     \* what epoll will report of a descriptor: "none", "in", "out"
    \* the event loop
    pending,   \* events[]: what is left to handle of each descriptor
    listening, \* events[]: listenfd is still to be handled
    userCount, \* HttpConn::user_count_
    got,       \* users[fd]: how many segments are in read_buf_
    dropped,   \* descriptors whose request Append refused
    down,      \* "no", "crash" or "overrun": the process is gone
    \* the pool
    queue, running,
    at         \* where each worker is: "idle", "process" or "return"

kernelVars == <<backlog, edge, conn, armed>>
loopVars   == <<pending, listening, userCount, got, dropped>>
poolVars   == <<queue, running>>
vars == <<client, kernelVars, loopVars, down, poolVars, at>>

TQ == INSTANCE TaskQueue WITH Requests <- Fds, Idle <- NoFd,
                              Limit <- MaxRequests + 1

\* listenfd is registered, no connection exists, the workers wait.
Init == /\ client = [p \in Peers |-> Off]
        /\ backlog = <<>> /\ edge = FALSE
        /\ conn = [fd \in Fds |-> NoPeer]
        /\ armed = [fd \in Fds |-> "none"]
        /\ pending = [fd \in Fds |-> "none"]
        /\ listening = FALSE
        /\ userCount = 0
        /\ got = [fd \in Fds |-> 0]
        /\ dropped = {}
        /\ down = "no"
        /\ TQ!Init
        /\ at = [w \in Workers |-> "idle"]

Up == down = "no"

-----------------------------------------------------------------------------
(* The clients. *)

\* A client connects; listenfd becomes readable anew.
Connect(p, s) ==
    /\ Up /\ client[p] = Off
    /\ Len(backlog) < Backlog
    /\ client' = [client EXCEPT ![p] = [Off EXCEPT !.link = "backlog",
                                                  !.script = s]]
    /\ backlog' = Append(backlog, p)
    /\ edge' = TRUE
    /\ UNCHANGED <<conn, armed, loopVars, down, poolVars, at>>

\* The next segment arrives, before or after the connection is accepted.
Send(p) ==
    /\ Up /\ client[p].link # "off" /\ ~client[p].left
    /\ client[p].arrived < Len(client[p].script)
    /\ client' = [client EXCEPT ![p].arrived = @ + 1]
    /\ UNCHANGED <<kernelVars, loopVars, down, poolVars, at>>

\* The client shuts down or resets the connection.
Leave(p) ==
    /\ Up /\ client[p].link # "off" /\ ~client[p].left
    /\ client' = [client EXCEPT ![p].left = TRUE]
    /\ UNCHANGED <<kernelVars, loopVars, down, poolVars, at>>

-----------------------------------------------------------------------------
(* The event loop. *)

\* What epoll_wait reports of a descriptor now, with EPOLLRDHUP, EPOLLHUP and
\* EPOLLERR folded into "hup": main looks at those first.
Event(fd) ==
    IF armed[fd] = "none" THEN "none"
    ELSE IF client[conn[fd]].left THEN "hup"
    ELSE IF armed[fd] = "out" THEN "out"
    ELSE IF client[conn[fd]].arrived > got[fd] THEN "in"
    ELSE "none"

Waiting == ~listening /\ \A fd \in Fds : pending[fd] = "none"

\* [mutant] The connections are registered without EPOLLONESHOT.
EpollWaitNoOneshot ==
    /\ Up /\ Waiting
    /\ edge \/ \E fd \in Fds : Event(fd) # "none"
    /\ pending' = [fd \in Fds |-> Event(fd)]
    /\ listening' = edge
    /\ edge' = FALSE
    /\ UNCHANGED <<client, backlog, conn, armed, userCount, got, dropped,
                   down, poolVars, at>>

\* epoll_wait returns. A reported connection is disarmed (EPOLLONESHOT);
\* listenfd is reported once for all arrivals since the last report (EPOLLET).
EpollWait ==
    /\ Up /\ Waiting
    /\ edge \/ \E fd \in Fds : Event(fd) # "none"
    /\ pending' = [fd \in Fds |-> Event(fd)]
    /\ armed' = [fd \in Fds |-> IF Event(fd) = "none" THEN armed[fd] ELSE "none"]
    /\ listening' = edge
    /\ edge' = FALSE
    /\ UNCHANGED <<client, backlog, conn, userCount, got, dropped, down,
                   poolVars, at>>

Free == {fd \in Fds : conn[fd] = NoPeer}

\* [mutant] Init does not reset the indices into the buffers.
AcceptKeepsBuffer(fd) ==
    LET p == Head(backlog) IN
    IF fd >= MaxFd
    THEN down' = "overrun" /\ UNCHANGED <<client, conn, armed, userCount, got>>
    ELSE /\ conn' = [conn EXCEPT ![fd] = p]
         /\ client' = [client EXCEPT ![p].link = "open"]
         /\ armed' = [armed EXCEPT ![fd] = "in"]
         /\ userCount' = userCount + 1
         /\ UNCHANGED <<got, down>>

\* HttpConn::Init(connfd, addr) for the head of the backlog: registered with
\* EPOLLONESHOT and counted, the object reset. The index is not checked against
\* the array: a descriptor behind its end overwrites other memory.
Accept(fd) ==
    LET p == Head(backlog) IN
    IF fd >= MaxFd
    THEN down' = "overrun" /\ UNCHANGED <<client, conn, armed, userCount, got>>
    ELSE /\ conn' = [conn EXCEPT ![fd] = p]
         /\ client' = [client EXCEPT ![p].link = "open"]
         /\ armed' = [armed EXCEPT ![fd] = "in"]
         /\ userCount' = userCount + 1
         /\ got' = [got EXCEPT ![fd] = 0]
         /\ UNCHANGED down

\* accept gives a connection the lowest free descriptor.
Lowest(fd) == conn[fd] = NoPeer /\ \A g \in Free : fd <= g

\* listenfd is in the batch: one accept. It may fail for want of a descriptor;
\* above max_fd connections the client is told so and disconnected.
HandleListen ==
    /\ Up /\ listening
    /\ listening' = FALSE
    /\ IF backlog = <<>> \/ Free = {}
       THEN UNCHANGED <<client, backlog, conn, armed, userCount, got, down>>
       ELSE /\ backlog' = Tail(backlog)
            /\ IF userCount >= MaxFd
               THEN /\ client' = [client EXCEPT ![Head(backlog)] = Off]
                    /\ UNCHANGED <<conn, armed, userCount, got, down>>
               ELSE \E fd \in Fds : Lowest(fd) /\ Accept(fd)
    /\ UNCHANGED <<edge, pending, dropped, poolVars, at>>

\* [mutant] RemoveFD takes the descriptor out of epoll and does not close it.
CloseConnLeaks(fd) ==
    /\ client' = [client EXCEPT ![conn[fd]] = Off]
    /\ userCount' = userCount - 1
    /\ UNCHANGED conn

\* CloseConn: out of epoll, closed, counted. armed[fd] is "none" already.
CloseConn(fd) ==
    /\ conn' = [conn EXCEPT ![fd] = NoPeer]
    /\ client' = [client EXCEPT ![conn[fd]] = Off]
    /\ userCount' = userCount - 1

\* [mutant] The peer hung up: the socket is shut down, the count is kept.
HandleHupUncounted(fd) ==
    /\ Up /\ pending[fd] = "hup"
    /\ pending' = [pending EXCEPT ![fd] = "none"]
    /\ conn' = [conn EXCEPT ![fd] = NoPeer]
    /\ client' = [client EXCEPT ![conn[fd]] = Off]
    /\ UNCHANGED <<backlog, edge, armed, listening,
                   userCount, got, dropped, down, poolVars, at>>

\* The peer hung up.
HandleHup(fd) ==
    /\ Up /\ pending[fd] = "hup"
    /\ pending' = [pending EXCEPT ![fd] = "none"]
    /\ CloseConn(fd)
    /\ UNCHANGED <<backlog, edge, armed, listening, got,
                   dropped, down, poolVars, at>>

\* EPOLLIN: Read fails when the end of the stream is reached or the buffer is
\* full, and the connection is closed; otherwise it reads all there is and the
\* connection is handed to the pool. Append's answer is ignored.
HandleIn(fd) ==
    /\ Up /\ pending[fd] = "in"
    /\ pending' = [pending EXCEPT ![fd] = "none"]
    /\ IF client[conn[fd]].left \/ client[conn[fd]].arrived > ReadLimit
       THEN CloseConn(fd) /\ UNCHANGED <<got, dropped, poolVars>>
       ELSE /\ got' = [got EXCEPT ![fd] = client[conn[fd]].arrived]
            /\ IF Len(queue) > MaxRequests
               THEN dropped' = dropped \cup {fd} /\ UNCHANGED poolVars
               ELSE TQ!Submit(fd) /\ UNCHANGED dropped
            /\ UNCHANGED <<client, conn, userCount>>
    /\ UNCHANGED <<backlog, edge, armed, listening, down,
                   at>>

\* EPOLLOUT: Write is done, or fails; either way the connection is closed.
HandleOut(fd) ==
    /\ Up /\ pending[fd] = "out"
    /\ pending' = [pending EXCEPT ![fd] = "none"]
    /\ CloseConn(fd)
    /\ UNCHANGED <<backlog, edge, armed, listening, got,
                   dropped, down, poolVars, at>>

\* EPOLLOUT: Write fills the socket's buffer and asks for EPOLLOUT again.
HandleOutAgain(fd) ==
    /\ Up /\ pending[fd] = "out"
    /\ pending' = [pending EXCEPT ![fd] = "none"]
    /\ armed' = [armed EXCEPT ![fd] = "out"]
    /\ UNCHANGED <<client, backlog, edge, conn, listening, userCount, got,
                   dropped, down, poolVars, at>>

-----------------------------------------------------------------------------
(* The workers. *)

\* A worker takes the oldest connection off the queue.
WorkerTake(w) ==
    /\ Up /\ at[w] = "idle"
    /\ TQ!Start(w)
    /\ at' = [at EXCEPT ![w] = "process"]
    /\ UNCHANGED <<client, kernelVars, loopVars, down>>

\* What segments amount to: the first complete line in them counts.
LineIn(read) == LET done == {i \in DOMAIN read : read[i] # "part"}
                IN IF done = {} THEN "part" ELSE read[Min(done)]

\* What has been read on a descriptor so far.
Verdict(fd) == LineIn(SubSeq(client[conn[fd]].script, 1, got[fd]))

\* [mutant] Process returns without asking for the next event when no line is
\* complete.
WorkerProcessForgets(w) ==
    /\ Up /\ at[w] = "process"
    /\ \/ /\ Verdict(running[w]) = "noversion"
          /\ down' = "crash"
          /\ UNCHANGED <<armed, at>>
       \/ /\ Verdict(running[w]) = "line"
          /\ armed' = [armed EXCEPT ![running[w]] = "out"]
          /\ at' = [at EXCEPT ![w] = "return"]
          /\ UNCHANGED down
       \/ /\ Verdict(running[w]) = "part"
          /\ at' = [at EXCEPT ![w] = "return"]
          /\ UNCHANGED <<armed, down>>
    /\ UNCHANGED <<client, backlog, edge, conn, loopVars, poolVars>>

\* HttpConn::Process: no complete line, EPOLLIN is asked for again; a complete
\* one, the response is ready and EPOLLOUT is asked for; a request line without
\* a version ends the process.
WorkerProcess(w) ==
    /\ Up /\ at[w] = "process"
    /\ \/ /\ Verdict(running[w]) = "noversion"
          /\ down' = "crash"
          /\ UNCHANGED <<armed, at>>
       \/ /\ Verdict(running[w]) = "line"
          /\ armed' = [armed EXCEPT ![running[w]] = "out"]
          /\ at' = [at EXCEPT ![w] = "return"]
          /\ UNCHANGED down
       \/ /\ Verdict(running[w]) = "part"
          /\ armed' = [armed EXCEPT ![running[w]] = "in"]
          /\ at' = [at EXCEPT ![w] = "return"]
          /\ UNCHANGED down
    /\ UNCHANGED <<client, backlog, edge, conn, loopVars, poolVars>>

\* Process returns. The connection may be anywhere by now.
WorkerReturn(w) ==
    /\ Up /\ at[w] = "return"
    /\ TQ!Finish(w)
    /\ at' = [at EXCEPT ![w] = "idle"]
    /\ UNCHANGED <<client, kernelVars, loopVars, down>>

-----------------------------------------------------------------------------
\* The process is gone.
Down == ~Up /\ UNCHANGED vars

Client == \E p \in Peers : (\E s \in Scripts : Connect(p, s)) \/ Send(p) \/ Leave(p)
Handle(fd) == HandleHup(fd) \/ HandleIn(fd) \/ HandleOut(fd) \/ HandleOutAgain(fd)
Loop == EpollWait \/ HandleListen \/ \E fd \in Fds : Handle(fd)
Worker(w) == WorkerTake(w) \/ WorkerProcess(w) \/ WorkerReturn(w)

Next == Client \/ Loop \/ (\E w \in Workers : Worker(w)) \/ Down

Spec == Init /\ [][Next]_vars

(***************************************************************************)
(* The threads run when they can, and a client reads its response: Write   *)
(* is not told for ever that the socket is full.                           *)
(***************************************************************************)
ServerFairness == /\ WF_vars(EpollWait) /\ WF_vars(HandleListen)
                  /\ \A fd \in Fds : WF_vars(Handle(fd)) /\ SF_vars(HandleOut(fd))
                  /\ \A w \in Workers : WF_vars(Worker(w))

\* Clients that keep connecting and send all they have to send.
ClientFairness == \A p \in Peers : /\ WF_vars(\E s \in Scripts : Connect(p, s))
                                   /\ WF_vars(Send(p))

FairSpec == Spec /\ ServerFairness

-----------------------------------------------------------------------------
(* Properties. *)

TypeOK ==
    /\ client \in [Peers -> [link : {"off", "backlog", "open"},
                            script : Seq(Segments), arrived : Nat,
                            left : BOOLEAN]]
    /\ backlog \in Seq(Peers)
    /\ edge \in BOOLEAN
    /\ conn \in [Fds -> Peers \cup {NoPeer}]
    /\ armed \in [Fds -> {"none", "in", "out"}]
    /\ pending \in [Fds -> {"none", "hup", "in", "out"}]
    /\ listening \in BOOLEAN
    /\ userCount \in Nat
    /\ got \in [Fds -> Nat]
    /\ dropped \in SUBSET Fds
    /\ down \in {"no", "crash", "overrun"}
    /\ queue \in Seq(Fds)
    /\ running \in [Workers -> Fds \cup {NoFd}]
    /\ at \in [Workers -> {"idle", "process", "return"}]

\* The places where a connection can be.
InEpoll(fd) == armed[fd] # "none"
InBatch(fd) == pending[fd] # "none"
InQueue(fd) == \E i \in DOMAIN queue : queue[i] = fd
InWork(fd)  == \E w \in Workers : at[w] = "process" /\ running[w] = fd
Owned(fd) == InEpoll(fd) \/ InBatch(fd) \/ InQueue(fd) \/ InWork(fd)
               \/ fd \in dropped

\* A connection is in at most one place: no thread ever works on an HttpConn
\* while epoll can report it, while it is in the main thread's batch or queue,
\* or while another worker has it. (What EPOLLONESHOT and the ModFD at the end
\* of every handler are for.)
Exclusive ==
    /\ \A fd \in Fds :
          /\ InEpoll(fd) => ~InBatch(fd) /\ ~InQueue(fd) /\ ~InWork(fd)
                              /\ fd \notin dropped
          /\ InBatch(fd) => ~InQueue(fd) /\ ~InWork(fd) /\ fd \notin dropped
          /\ InQueue(fd) => ~InWork(fd) /\ fd \notin dropped
          /\ InWork(fd)  => fd \notin dropped
    /\ \A i, j \in DOMAIN queue : queue[i] = queue[j] => i = j
    /\ \A v, w \in Workers : at[v] = "process" /\ at[w] = "process"
                               /\ running[v] = running[w] => v = w

\* Only open descriptors are anywhere: no event, queue entry or worker refers
\* to a closed one, though numbers are reused. And every open one is somewhere:
\* none is forgotten, but for those whose request Append refused
\* (main.cpp:120 ignores its answer).
NoneStaleNoneLost == \A fd \in Fds : Owned(fd) <=> conn[fd] # NoPeer

\* The users[] entry of a reused descriptor holds nothing of its last client.
NoForeignData == \A fd \in Fds : conn[fd] # NoPeer => got[fd] <= client[conn[fd]].arrived

\* Clients and descriptors match one to one, and the backlog has no duplicates.
ClientsMatch ==
    /\ \A fd \in Fds : conn[fd] # NoPeer => client[conn[fd]].link = "open"
    /\ \A fd, g \in Fds : conn[fd] = conn[g] /\ conn[fd] # NoPeer => fd = g
    /\ \A i \in DOMAIN backlog : client[backlog[i]].link = "backlog"
    /\ \A i, j \in DOMAIN backlog : backlog[i] = backlog[j] => i = j

\* user_count_ is the number of open connections.
UserCount == userCount = Cardinality({fd \in Fds : conn[fd] # NoPeer})

\* Each report of listenfd, made or due, is worth a connection: accept is never
\* called on an empty backlog (and so the loop takes one connection per report).
EdgeMeansConnection ==
    Len(backlog) >= (IF edge THEN 1 ELSE 0) + (IF listening THEN 1 ELSE 0)

\* A worker has a connection in hand unless it is idle.
InHand == \A w \in Workers : at[w] = "idle" <=> running[w] = NoFd

\* The inductive invariant.
IInv == TypeOK /\ InHand /\ Exclusive /\ NoneStaleNoneLost
          /\ NoForeignData /\ ClientsMatch /\ UserCount /\ EdgeMeansConnection

\* A client that left has its descriptor closed, unless its request was refused.
GoneIsClosed ==
    \A fd \in Fds :
        (conn[fd] # NoPeer /\ client[conn[fd]].left)
            ~> (conn[fd] = NoPeer \/ fd \in dropped \/ ~Up)

\* A client that sent a complete line is answered or at least disconnected,
\* unless its request was refused.
LineIsServed ==
    \A fd \in Fds :
        (conn[fd] # NoPeer /\
            \E i \in 1..client[conn[fd]].arrived : client[conn[fd]].script[i] = "line")
            ~> (conn[fd] = NoPeer \/ fd \in dropped \/ ~Up)

\* As long as clients keep connecting, a connection does not stay in the backlog
\* for ever, though the loop accepts one connection per report and a report may
\* stand for several.
BacklogIsServed == ClientFairness =>
    \A p \in Peers : (client[p].link = "backlog") ~> (client[p].link # "backlog" \/ ~Up)

\* What Connection is to know of a descriptor.
Place(fd) ==
    IF conn[fd] = NoPeer THEN "closed"
    ELSE IF InEpoll(fd) THEN armed[fd]
    ELSE CASE pending[fd] = "in"   -> "reading"
           [] pending[fd] = "out"  -> "writing"
           [] pending[fd] = "hup"  -> "lost"
           [] pending[fd] = "none" -> "work"
Line(fd) == IF conn[fd] = NoPeer THEN "part" ELSE Verdict(fd)

C(fd) == INSTANCE Connection WITH place <- Place(fd), line <- Line(fd)

\* Whatever the other connections, the batches and the queue do to it, and
\* whoever had its number before: each descriptor goes through the life that
\* HttpConn is written for. A connection that the queue refused stays with the
\* worker that it does not have.
ImplementsConnection ==
    /\ \A fd \in Fds : C(fd)!Init
    /\ [][\A fd \in Fds : [C(fd)!Next]_(C(fd)!vars)]_vars

(* What the source's comments say and the code does not do. *)

\* main.cpp:62: there is an HttpConn object for every possible connection.
EveryConnectionHasAnObject == down # "overrun"
=============================================================================
