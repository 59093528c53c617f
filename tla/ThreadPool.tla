----------------------------- MODULE ThreadPool -----------------------------
(***************************************************************************)
(* ss/thread_pool.hpp with ss/locker.hpp: ThreadPool<T>, one queue of      *)
(* requests guarded by a mutex (queue_locker_), a semaphore that counts    *)
(* the queued requests (queue_stat_) and ThreadNumber detached threads.    *)
(*                                                                         *)
(* The only caller is the main thread: it constructs the pool, calls       *)
(* Append, and destroys the pool when its event loop ends (ss/main.cpp).   *)
(* A step is what happens between two points where another thread can      *)
(* interfere: a lock or semaphore operation, a read or write of shared     *)
(* memory.                                                                 *)
(***************************************************************************)
EXTENDS Integers, Sequences, FiniteSets, SequencesExt

CONSTANTS ThreadNumber,   \* thread_number_, any int
          MaxRequests,    \* max_requests_, any int
          Requests,       \* the objects T* that main submits
          NoRequest,      \* a null T*; the value of current[w] outside Run's body
          CreateMayFail   \* TRUE iff pthread_create / pthread_detach may fail

ASSUME ConstantsAssumption ==
    /\ ThreadNumber \in Int
    /\ MaxRequests \in Int
    /\ NoRequest \notin Requests
    /\ CreateMayFail \in BOOLEAN

Workers == 1..ThreadNumber
Main    == 0               \* the main thread, as a holder of the mutex
Nobody  == -1              \* the mutex is free

VARIABLES workQueue,     \* work_queue_
          queueLocker,   \* holder of queue_locker_
          queueStat,     \* value of queue_stat_
          stop,          \* stop_
          mainPc,        \* where the main thread is in the pool's code
          request,       \* the argument of the Append in progress
          created,       \* threads created so far by the constructor
          workerPc,      \* where each worker is in Run
          current        \* each worker's local variable request

vars == <<workQueue, queueLocker, queueStat, stop, mainPc, request, created,
          workerPc, current>>

MainPcs == {"ctor", "thrown", "idle", "lock", "test", "unlock", "post",
            "dtor", "freed"}
WorkerPcs == {"absent", "loop", "wait", "lock", "take", "unlock", "run", "end"}

Init == /\ workQueue = <<>>
        /\ queueLocker = Nobody
        /\ queueStat = 0
        /\ stop = FALSE
        /\ mainPc = "ctor"
        /\ request = NoRequest
        /\ created = 0
        /\ workerPc = [w \in Workers |-> "absent"]
        /\ current = [w \in Workers |-> NoRequest]

-----------------------------------------------------------------------------
(* The main thread: constructor, Append, destructor. *)

\* The constructor refuses its arguments, or a thread cannot be created or
\* detached: it throws, and main returns 1. A thread that was created and
\* could not be detached has started all the same.
CtorThrow ==
    /\ mainPc = "ctor"
    /\ \/ ThreadNumber <= 0 \/ MaxRequests <= 0
       \/ CreateMayFail /\ created < ThreadNumber
    /\ mainPc' = "thrown"
    /\ UNCHANGED <<workQueue, queueLocker, queueStat, stop, request, created,
                   workerPc, current>>

\* One turn of the constructor's loop: the new thread starts at once, while
\* the others do not exist yet. The last turn ends the constructor.
CtorCreate ==
    /\ mainPc = "ctor"
    /\ MaxRequests > 0
    /\ created < ThreadNumber
    /\ created' = created + 1
    /\ workerPc' = [workerPc EXCEPT ![created + 1] = "loop"]
    /\ mainPc' = IF created + 1 = ThreadNumber THEN "idle" ELSE "ctor"
    /\ UNCHANGED <<workQueue, queueLocker, queueStat, stop, request, current>>

\* main calls Append(r).
AppendCall(r) ==
    /\ mainPc = "idle"
    /\ mainPc' = "lock"
    /\ request' = r
    /\ UNCHANGED <<workQueue, queueLocker, queueStat, stop, created, workerPc,
                   current>>

\* queue_locker_.MutexLock() in Append.
AppendLock ==
    /\ mainPc = "lock"
    /\ queueLocker = Nobody
    /\ queueLocker' = Main
    /\ mainPc' = "test"
    /\ UNCHANGED <<workQueue, queueStat, stop, request, created, workerPc,
                   current>>

\* [mutant] The early return forgets to unlock.
AppendRejectLocked ==
    /\ mainPc = "test"
    /\ Len(workQueue) > MaxRequests
    /\ mainPc' = "idle"
    /\ request' = NoRequest
    /\ UNCHANGED <<workQueue, queueLocker, queueStat, stop, created, workerPc,
                   current>>

\* The queue is too long: Append unlocks and returns false.
AppendReject ==
    /\ mainPc = "test"
    /\ Len(workQueue) > MaxRequests
    /\ queueLocker' = Nobody
    /\ mainPc' = "idle"
    /\ request' = NoRequest
    /\ UNCHANGED <<workQueue, queueStat, stop, created, workerPc, current>>

\* [mutant] The queue's length is not tested.
AppendPushUnbounded ==
    /\ mainPc = "test"
    /\ workQueue' = Append(workQueue, request)
    /\ mainPc' = "unlock"
    /\ UNCHANGED <<queueLocker, queueStat, stop, request, created, workerPc,
                   current>>

\* push_back, the mutex still held.
AppendPush ==
    /\ mainPc = "test"
    /\ ~(Len(workQueue) > MaxRequests)
    /\ workQueue' = Append(workQueue, request)
    /\ mainPc' = "unlock"
    /\ UNCHANGED <<queueLocker, queueStat, stop, request, created, workerPc,
                   current>>

\* MutexUnlock after the push: from here on a worker can see the request.
AppendUnlock ==
    /\ mainPc = "unlock"
    /\ queueLocker' = Nobody
    /\ mainPc' = "post"
    /\ UNCHANGED <<workQueue, queueStat, stop, request, created, workerPc,
                   current>>

\* [mutant] The semaphore is posted only when the queue was empty before.
AppendPostFirstOnly ==
    /\ mainPc = "post"
    /\ queueStat' = IF Len(workQueue) > 1 THEN queueStat ELSE queueStat + 1
    /\ mainPc' = "idle"
    /\ request' = NoRequest
    /\ UNCHANGED <<workQueue, queueLocker, stop, created, workerPc, current>>

\* queue_stat_.Add(); Append returns true.
AppendPost ==
    /\ mainPc = "post"
    /\ queueStat' = queueStat + 1
    /\ mainPc' = "idle"
    /\ request' = NoRequest
    /\ UNCHANGED <<workQueue, queueLocker, stop, created, workerPc, current>>

\* The destructor's body. Nothing wakes the workers and nothing waits for them.
DtorStop ==
    /\ mainPc = "idle"
    /\ stop' = TRUE
    /\ mainPc' = "dtor"
    /\ UNCHANGED <<workQueue, queueLocker, queueStat, request, created,
                   workerPc, current>>

\* The members are destroyed and the object's memory is released; main
\* returns. What a worker would do with a pool that is gone has no meaning:
\* the model stops here.
DtorFree ==
    /\ mainPc = "dtor"
    /\ mainPc' = "freed"
    /\ UNCHANGED <<workQueue, queueLocker, queueStat, stop, request, created,
                   workerPc, current>>

-----------------------------------------------------------------------------
(* A worker thread: Run. *)

PoolExists == mainPc \notin {"thrown", "freed"}

\* while (!stop_)
RunTest(w) ==
    /\ PoolExists
    /\ workerPc[w] = "loop"
    /\ workerPc' = [workerPc EXCEPT ![w] = IF stop THEN "end" ELSE "wait"]
    /\ UNCHANGED <<workQueue, queueLocker, queueStat, stop, mainPc, request,
                   created, current>>

\* queue_stat_.Wait() returns.
RunWait(w) ==
    /\ PoolExists
    /\ workerPc[w] = "wait"
    /\ queueStat > 0
    /\ queueStat' = queueStat - 1
    /\ workerPc' = [workerPc EXCEPT ![w] = "lock"]
    /\ UNCHANGED <<workQueue, queueLocker, stop, mainPc, request, created,
                   current>>

\* queue_locker_.MutexLock() in Run.
RunLock(w) ==
    /\ PoolExists
    /\ workerPc[w] = "lock"
    /\ queueLocker = Nobody
    /\ queueLocker' = w
    /\ workerPc' = [workerPc EXCEPT ![w] = "take"]
    /\ UNCHANGED <<workQueue, queueStat, stop, mainPc, request, created,
                   current>>

\* [mutant] The most recent request is taken first.
RunTakeBack(w) ==
    /\ PoolExists
    /\ workerPc[w] = "take"
    /\ current' = [current EXCEPT ![w] = IF workQueue = <<>> THEN NoRequest
                                         ELSE Last(workQueue)]
    /\ workQueue' = IF workQueue = <<>> THEN <<>> ELSE Front(workQueue)
    /\ workerPc' = [workerPc EXCEPT ![w] = "unlock"]
    /\ UNCHANGED <<queueLocker, queueStat, stop, mainPc, request, created>>

\* The front of the queue, or nothing when the queue is empty.
RunTake(w) ==
    /\ PoolExists
    /\ workerPc[w] = "take"
    /\ current' = [current EXCEPT ![w] = IF workQueue = <<>> THEN NoRequest
                                         ELSE Head(workQueue)]
    /\ workQueue' = IF workQueue = <<>> THEN <<>> ELSE Tail(workQueue)
    /\ workerPc' = [workerPc EXCEPT ![w] = "unlock"]
    /\ UNCHANGED <<queueLocker, queueStat, stop, mainPc, request, created>>

\* MutexUnlock; a worker that got no request goes back to the loop.
RunUnlock(w) ==
    /\ PoolExists
    /\ workerPc[w] = "unlock"
    /\ queueLocker' = Nobody
    /\ workerPc' = [workerPc EXCEPT ![w] = IF current[w] = NoRequest
                                           THEN "loop" ELSE "run"]
    /\ UNCHANGED <<workQueue, queueStat, stop, mainPc, request, created,
                   current>>

\* request->Process() returns.
RunDone(w) ==
    /\ PoolExists
    /\ workerPc[w] = "run"
    /\ workerPc' = [workerPc EXCEPT ![w] = "loop"]
    /\ current' = [current EXCEPT ![w] = NoRequest]
    /\ UNCHANGED <<workQueue, queueLocker, queueStat, stop, mainPc, request,
                   created>>

-----------------------------------------------------------------------------
\* The program has returned from main: nothing more happens.
Ended == /\ ~PoolExists
         /\ UNCHANGED vars

Ctor == CtorThrow \/ CtorCreate
AppendStep == AppendLock \/ AppendReject \/ AppendPush \/ AppendUnlock
                \/ AppendPost
Run(w) == RunTest(w) \/ RunWait(w) \/ RunLock(w) \/ RunTake(w)
            \/ RunUnlock(w) \/ RunDone(w)

Next == \/ Ctor
        \/ \E r \in Requests : AppendCall(r)
        \/ AppendStep
        \/ DtorStop \/ DtorFree
        \/ \E w \in Workers : Run(w)
        \/ Ended

Spec == Init /\ [][Next]_vars

(***************************************************************************)
(* The operating system runs every thread that can run: a step that stays  *)
(* enabled is taken. A worker's lock needs more, because the main thread   *)
(* can take and release the mutex for ever: a thread that finds the mutex  *)
(* free again and again gets it some day. No fairness on AppendCall or     *)
(* DtorStop: main need not submit anything, nor end.                       *)
(***************************************************************************)
Fairness == /\ WF_vars(Ctor)
            /\ WF_vars(AppendStep)
            /\ WF_vars(DtorFree)
            /\ \A w \in Workers : WF_vars(Run(w)) /\ SF_vars(RunLock(w))

FairSpec == Spec /\ Fairness

-----------------------------------------------------------------------------
(* Properties. *)

TypeOK ==
    /\ workQueue \in Seq(Requests)
    /\ queueLocker \in Workers \cup {Main, Nobody}
    /\ queueStat \in Nat
    /\ stop \in BOOLEAN
    /\ mainPc \in MainPcs
    /\ request \in Requests \cup {NoRequest}
    /\ created \in 0..ThreadNumber \/ created = 0
    /\ workerPc \in [Workers -> WorkerPcs]
    /\ current \in [Workers -> Requests \cup {NoRequest}]

\* The thread that is inside the critical section of Append or Run is the
\* holder of the mutex, hence there is at most one (queue_locker_ "protects
\* the request queue", thread_pool.hpp:36).
MutexOwner ==
    /\ (queueLocker = Main) <=> (mainPc \in {"test", "unlock"})
    /\ \A w \in Workers :
          (queueLocker = w) <=> (workerPc[w] \in {"take", "unlock"})

\* Workers that have taken a unit of the semaphore and not yet a request.
TokenHolders == {w \in Workers : workerPc[w] \in {"lock", "take"}}

\* A pushed request whose semaphore unit has not been posted yet.
Unposted == IF mainPc \in {"unlock", "post"} THEN 1 ELSE 0

\* The semaphore never runs ahead of the queue and never loses a request:
\* every queued request is matched by one unit that is in the semaphore, in
\* the hands of a worker, or about to be posted by Append.
SemMatchesQueue ==
    Len(workQueue) = queueStat + Cardinality(TokenHolders) + Unposted

\* A worker that was let through by the semaphore finds a request: the
\* queue-is-empty path of Run (thread_pool.hpp:102-105) is never taken.
TokenMeansRequest ==
    \A w \in Workers : workerPc[w] = "take" => workQueue # <<>>

\* The queue holds at most one request more than max_requests_: Append tests
\* size() > max_requests_ before it pushes.
QueueBound == MaxRequests > 0 => Len(workQueue) <= MaxRequests + 1

\* A worker holds a request exactly from the moment it takes one off the queue
\* until Process returns, and main's argument is a request while it is inside
\* Append.
RequestInHand ==
    /\ \A w \in Workers :
          /\ workerPc[w] = "run" => current[w] # NoRequest
          /\ workerPc[w] \notin {"unlock", "run"} => current[w] = NoRequest
    /\ mainPc \in {"lock", "test", "unlock", "post"} => request # NoRequest

\* Threads that the constructor has not created are not running, and a pool
\* that is in use was built with acceptable arguments.
Construction ==
    /\ \A w \in Workers : w > created => workerPc[w] = "absent"
    /\ mainPc = "ctor" => created = 0 \/ created < ThreadNumber
    /\ mainPc \notin {"ctor", "thrown"} => MaxRequests > 0
    /\ MaxRequests <= 0 => workQueue = <<>>

\* The inductive invariant of the proofs: what every step of every thread
\* relies on and re-establishes.
IInv == TypeOK /\ MutexOwner /\ SemMatchesQueue /\ QueueBound
          /\ RequestInHand /\ Construction

\* The pool is a bounded FIFO of requests that are executed in the order of
\* acceptance, each by one worker and once per acceptance.
TQ == INSTANCE TaskQueue WITH queue <- workQueue, running <- current,
                              Idle <- NoRequest, Limit <- MaxRequests + 1
ImplementsTaskQueue == TQ!Spec

\* Append never blocks the event loop for ever: the workers hold the mutex for
\* finitely many steps and can come back only as often as requests were posted.
AppendReturns == (mainPc = "lock") ~> (mainPc = "idle")

\* A request that Append accepted is started by some worker, unless the pool
\* is being destroyed. (The abstract queue alone does not promise it.)
AcceptedRuns ==
    \A r \in Requests :
        (r \in Range(workQueue)) ~> (stop \/ \E w \in Workers : current[w] = r)

=============================================================================
