----------------------------- MODULE TaskQueue -----------------------------
(***************************************************************************)
(* What ss/thread_pool.hpp promises to the main thread, with no threads'   *)
(* program counters, no mutex and no semaphore in sight: a bounded FIFO of *)
(* accepted requests and, for every worker, the request it is executing.   *)
(* ThreadPool.tla is shown to implement this module; EpollServer.tla is    *)
(* built on it.                                                            *)
(***************************************************************************)
EXTENDS Naturals, Sequences

CONSTANTS Workers,   \* the pool's threads
          Requests,  \* what can be submitted (the HttpConn objects of users[])
          Idle,      \* the value of running[w] when w executes nothing
          Limit      \* the longest the queue may get

VARIABLES queue,     \* accepted and not yet started
          running    \* [Workers -> Requests \cup {Idle}]

vars == <<queue, running>>

Init == /\ queue = <<>>
        /\ running = [w \in Workers |-> Idle]

\* A request is accepted: it goes to the back of the queue.
Submit(r) == /\ Len(queue) < Limit
             /\ queue' = Append(queue, r)
             /\ UNCHANGED running

\* An idle worker starts the oldest accepted request.
Start(w) == /\ running[w] = Idle
            /\ queue # <<>>
            /\ running' = [running EXCEPT ![w] = Head(queue)]
            /\ queue' = Tail(queue)

\* The worker is done with its request.
Finish(w) == /\ running[w] # Idle
             /\ running' = [running EXCEPT ![w] = Idle]
             /\ UNCHANGED queue

Next == \/ \E r \in Requests : Submit(r)
        \/ \E w \in Workers : Start(w) \/ Finish(w)

Spec == Init /\ [][Next]_vars
=============================================================================
