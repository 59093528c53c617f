-------------------------- MODULE ThreadPoolProofs --------------------------
(***************************************************************************)
(* Proofs about ThreadPool for every number of threads, every queue limit  *)
(* and every set of requests: the inductive invariant IInv, the safety     *)
(* properties that follow from it, and the refinement of TaskQueue.        *)
(***************************************************************************)
EXTENDS ThreadPool, FiniteSetTheorems, TLAPS

USE DEF Main, Nobody

-----------------------------------------------------------------------------
(* Lemmas about the set of workers that hold a unit of the semaphore. *)

\* There are finitely many workers, so TokenHolders has a cardinality.
LEMMA HoldersFinite ==
    /\ IsFiniteSet(TokenHolders)
    /\ Cardinality(TokenHolders) \in Nat
  <1>1. IsFiniteSet(Workers)
    BY FS_Interval, ConstantsAssumption DEF Workers
  <1>2. TokenHolders \in SUBSET Workers
    BY DEF TokenHolders
  <1> QED
    BY <1>1, <1>2, FS_Subset, FS_CardinalityType

\* A worker that passes the semaphore joins the holders.
LEMMA HoldersJoin ==
    ASSUME TypeOK, NEW w \in Workers, RunWait(w)
    PROVE  Cardinality(TokenHolders') = Cardinality(TokenHolders) + 1
  <1>1. w \notin TokenHolders /\ TokenHolders' = TokenHolders \cup {w}
    BY DEF TypeOK, RunWait, TokenHolders
  <1> QED
    BY <1>1, HoldersFinite, FS_AddElement

\* A worker that takes its request leaves them.
LEMMA HoldersLeave ==
    ASSUME TypeOK, NEW w \in Workers, RunTake(w)
    PROVE  Cardinality(TokenHolders') = Cardinality(TokenHolders) - 1
  <1>1. w \in TokenHolders /\ TokenHolders' = TokenHolders \ {w}
    BY DEF TypeOK, RunTake, TokenHolders
  <1> QED
    BY <1>1, HoldersFinite, FS_RemoveElement

\* A worker in its critical section found the semaphore open for a request
\* that is still in the queue.
LEMMA HolderSeesRequest ==
    ASSUME TypeOK, SemMatchesQueue
    PROVE  TokenMeansRequest
  <1> SUFFICES ASSUME NEW w \in Workers, workerPc[w] = "take"
               PROVE  Len(workQueue) > 0
    <2> SUFFICES Len(<<>>) = 0
      BY DEF TokenMeansRequest
    <2> QED
      OBVIOUS
  <1>1. w \in TokenHolders
    BY DEF TokenHolders
  <1>2. Cardinality(TokenHolders) # 0
    BY <1>1, HoldersFinite, FS_EmptySet
  <1>3. Cardinality(TokenHolders) \in Nat /\ queueStat \in Nat
          /\ Unposted \in Nat
    BY HoldersFinite DEF TypeOK, Unposted
  <1>4. Len(workQueue) = queueStat + Cardinality(TokenHolders) + Unposted
    BY DEF SemMatchesQueue
  <1> QED
    BY <1>2, <1>3, <1>4

-----------------------------------------------------------------------------
(* The inductive invariant holds initially. *)

LEMMA InitInv == Init => IInv
  <1> SUFFICES ASSUME Init PROVE IInv
    OBVIOUS
  <1>1. TypeOK
    <2>1. workQueue \in Seq(Requests) /\ queueStat \in Nat
      BY DEF Init
    <2>2. /\ workerPc \in [Workers -> WorkerPcs]
          /\ current \in [Workers -> Requests \cup {NoRequest}]
      BY DEF Init, WorkerPcs
    <2> QED
      BY <2>1, <2>2 DEF Init, TypeOK, MainPcs
  <1>2. MutexOwner
    BY DEF Init, MutexOwner, Workers
  <1>3. TokenHolders = {}
    BY DEF Init, TokenHolders
  <1>4. SemMatchesQueue
    BY <1>3, FS_EmptySet DEF Init, SemMatchesQueue, Unposted
  <1>5. QueueBound /\ RequestInHand /\ Construction
    BY ConstantsAssumption
    DEF Init, QueueBound, RequestInHand, Construction
  <1> QED
    BY <1>1, <1>2, <1>4, <1>5 DEF IInv

-----------------------------------------------------------------------------
(* Every step preserves it, one conjunct at a time. *)

LEMMA TypeStep ==
    ASSUME TypeOK, RequestInHand, Construction, [Next]_vars
    PROVE  TypeOK'
  <1> USE ConstantsAssumption DEF TypeOK, MainPcs, WorkerPcs, Workers
  <1>1. CASE CtorThrow
    BY <1>1 DEF CtorThrow
  <1>2. CASE CtorCreate
    BY <1>2 DEF CtorCreate
  <1>3. ASSUME NEW r \in Requests, AppendCall(r) PROVE TypeOK'
    BY <1>3 DEF AppendCall
  <1>4. CASE AppendLock
    BY <1>4 DEF AppendLock
  <1>5. CASE AppendReject
    BY <1>5 DEF AppendReject
  <1>6. CASE AppendPush
    BY <1>6 DEF AppendPush, RequestInHand
  <1>7. CASE AppendUnlock
    BY <1>7 DEF AppendUnlock
  <1>8. CASE AppendPost
    BY <1>8 DEF AppendPost
  <1>9. CASE DtorStop \/ DtorFree
    BY <1>9 DEF DtorStop, DtorFree
  <1>10. ASSUME NEW w \in Workers, RunTest(w) PROVE TypeOK'
    BY <1>10 DEF RunTest
  <1>11. ASSUME NEW w \in Workers, RunWait(w) PROVE TypeOK'
    BY <1>11 DEF RunWait
  <1>12. ASSUME NEW w \in Workers, RunLock(w) PROVE TypeOK'
    BY <1>12 DEF RunLock
  <1>13. ASSUME NEW w \in Workers, RunTake(w) PROVE TypeOK'
    BY <1>13 DEF RunTake
  <1>14. ASSUME NEW w \in Workers, RunUnlock(w) PROVE TypeOK'
    BY <1>14 DEF RunUnlock
  <1>15. ASSUME NEW w \in Workers, RunDone(w) PROVE TypeOK'
    BY <1>15 DEF RunDone
  <1>16. CASE UNCHANGED vars
    BY <1>16 DEF vars
  <1> QED
    BY <1>1, <1>2, <1>3, <1>4, <1>5, <1>6, <1>7, <1>8, <1>9, <1>10, <1>11,
       <1>12, <1>13, <1>14, <1>15, <1>16
    DEF Next, Ctor, AppendStep, Run, Ended

LEMMA MutexStep ==
    ASSUME TypeOK, MutexOwner, Construction, [Next]_vars
    PROVE  MutexOwner'
  <1> USE ConstantsAssumption DEF TypeOK, MutexOwner, Workers
  <1>1. CASE CtorThrow
    BY <1>1 DEF CtorThrow
  <1>2. CASE CtorCreate
    BY <1>2 DEF CtorCreate, Construction
  <1>3. ASSUME NEW r \in Requests, AppendCall(r) PROVE MutexOwner'
    BY <1>3 DEF AppendCall
  <1>4. CASE AppendLock
    BY <1>4 DEF AppendLock
  <1>5. CASE AppendReject
    BY <1>5 DEF AppendReject
  <1>6. CASE AppendPush
    BY <1>6 DEF AppendPush
  <1>7. CASE AppendUnlock
    BY <1>7 DEF AppendUnlock
  <1>8. CASE AppendPost
    BY <1>8 DEF AppendPost
  <1>9. CASE DtorStop \/ DtorFree
    BY <1>9 DEF DtorStop, DtorFree
  <1>10. ASSUME NEW w \in Workers, RunTest(w) PROVE MutexOwner'
    BY <1>10 DEF RunTest
  <1>11. ASSUME NEW w \in Workers, RunWait(w) PROVE MutexOwner'
    BY <1>11 DEF RunWait
  <1>12. ASSUME NEW w \in Workers, RunLock(w) PROVE MutexOwner'
    BY <1>12 DEF RunLock
  <1>13. ASSUME NEW w \in Workers, RunTake(w) PROVE MutexOwner'
    BY <1>13 DEF RunTake
  <1>14. ASSUME NEW w \in Workers, RunUnlock(w) PROVE MutexOwner'
    BY <1>14 DEF RunUnlock
  <1>15. ASSUME NEW w \in Workers, RunDone(w) PROVE MutexOwner'
    BY <1>15 DEF RunDone
  <1>16. CASE UNCHANGED vars
    BY <1>16 DEF vars
  <1> QED
    BY <1>1, <1>2, <1>3, <1>4, <1>5, <1>6, <1>7, <1>8, <1>9, <1>10, <1>11,
       <1>12, <1>13, <1>14, <1>15, <1>16
    DEF Next, Ctor, AppendStep, Run, Ended

\* The semaphore, the tokens and the queue move together: only AppendPush,
\* AppendPost, RunWait and RunTake move any of them.
LEMMA SemStep ==
    ASSUME TypeOK, SemMatchesQueue, Construction, [Next]_vars
    PROVE  SemMatchesQueue'
  <1> USE ConstantsAssumption DEF TypeOK, SemMatchesQueue, Unposted
  <1>1. ASSUME TokenHolders' = TokenHolders, workQueue' = workQueue,
               queueStat' = queueStat, Unposted' = Unposted
        PROVE  SemMatchesQueue'
    BY <1>1
  <1>2. CASE CtorThrow \/ AppendLock \/ AppendReject \/ AppendUnlock
               \/ DtorStop \/ DtorFree \/ UNCHANGED vars
    BY <1>1, <1>2 DEF CtorThrow, AppendLock, AppendReject, AppendUnlock,
                      DtorStop, DtorFree, vars, TokenHolders
  <1>3. CASE CtorCreate
    BY <1>1, <1>3 DEF CtorCreate, TokenHolders, Construction, Workers
  <1>4. ASSUME NEW r \in Requests, AppendCall(r) PROVE SemMatchesQueue'
    BY <1>1, <1>4 DEF AppendCall, TokenHolders
  <1>5. CASE AppendPush
    <2>1. TokenHolders' = TokenHolders
      BY <1>5 DEF AppendPush, TokenHolders
    <2>2. Len(workQueue') = Len(workQueue) + 1
      BY <1>5 DEF AppendPush
    <2> QED
      BY <1>5, <2>1, <2>2, HoldersFinite DEF AppendPush
  <1>6. CASE AppendPost
    <2>1. TokenHolders' = TokenHolders
      BY <1>6 DEF AppendPost, TokenHolders
    <2> QED
      BY <1>6, <2>1, HoldersFinite DEF AppendPost
  <1>7. ASSUME NEW w \in Workers,
               RunTest(w) \/ RunLock(w) \/ RunUnlock(w) \/ RunDone(w)
        PROVE  SemMatchesQueue'
    BY <1>1, <1>7 DEF RunTest, RunLock, RunUnlock, RunDone, TokenHolders
  <1>8. ASSUME NEW w \in Workers, RunWait(w) PROVE SemMatchesQueue'
    <2>1. Cardinality(TokenHolders') = Cardinality(TokenHolders) + 1
      BY <1>8, HoldersJoin
    <2>2. Cardinality(TokenHolders) \in Nat
      BY HoldersFinite
    <2>3. Unposted' = Unposted /\ queueStat' = queueStat - 1
            /\ workQueue' = workQueue
      BY <1>8 DEF RunWait
    <2> HIDE DEF Unposted
    <2>4. Unposted \in Nat
      BY DEF Unposted
    <2> QED
      BY <2>1, <2>2, <2>3, <2>4
  <1>9. ASSUME NEW w \in Workers, RunTake(w) PROVE SemMatchesQueue'
    <2>1. workQueue # <<>>
      BY <1>9, HolderSeesRequest DEF RunTake, TokenMeansRequest
    <2>2. Len(workQueue') = Len(workQueue) - 1
      BY <1>9, <2>1 DEF RunTake
    <2>3. Cardinality(TokenHolders') = Cardinality(TokenHolders) - 1
      BY <1>9, HoldersLeave
    <2>4. Cardinality(TokenHolders) \in Nat
      BY HoldersFinite
    <2>5. Unposted' = Unposted /\ queueStat' = queueStat
      BY <1>9 DEF RunTake
    <2> HIDE DEF Unposted
    <2>6. Unposted \in Nat
      BY DEF Unposted
    <2> QED
      BY <2>2, <2>3, <2>4, <2>5, <2>6
  <1> QED
    BY <1>2, <1>3, <1>4, <1>5, <1>6, <1>7, <1>8, <1>9
    DEF Next, Ctor, AppendStep, Run, Ended

LEMMA BoundStep ==
    ASSUME TypeOK, QueueBound, [Next]_vars
    PROVE  QueueBound'
  <1> USE ConstantsAssumption DEF TypeOK, QueueBound
  <1>1. ASSUME workQueue' = workQueue PROVE QueueBound'
    BY <1>1
  <1>2. CASE AppendPush
    BY <1>2 DEF AppendPush
  <1>3. ASSUME NEW w \in Workers, RunTake(w) PROVE QueueBound'
    BY <1>3 DEF RunTake
  <1> QED
    BY <1>1, <1>2, <1>3
    DEF Next, vars, Ctor, CtorThrow, CtorCreate, AppendCall, AppendStep,
        AppendLock, AppendReject, AppendUnlock, AppendPost, DtorStop, DtorFree,
        Run, RunTest, RunWait, RunLock, RunUnlock, RunDone, Ended

LEMMA InHandStep ==
    ASSUME TypeOK, RequestInHand, Construction, [Next]_vars
    PROVE  RequestInHand'
  <1> USE ConstantsAssumption DEF TypeOK, RequestInHand, Workers
  <1>1. CASE CtorThrow \/ CtorCreate
    BY <1>1 DEF CtorThrow, CtorCreate, Construction
  <1>2. ASSUME NEW r \in Requests, AppendCall(r) PROVE RequestInHand'
    BY <1>2 DEF AppendCall
  <1>3. CASE AppendStep
    BY <1>3 DEF AppendStep, AppendLock, AppendReject, AppendPush,
                AppendUnlock, AppendPost
  <1>4. CASE DtorStop \/ DtorFree
    BY <1>4 DEF DtorStop, DtorFree
  <1>5. ASSUME NEW w \in Workers, RunTest(w) \/ RunWait(w) \/ RunLock(w)
        PROVE  RequestInHand'
    BY <1>5 DEF RunTest, RunWait, RunLock
  <1>6. ASSUME NEW w \in Workers, RunTake(w) PROVE RequestInHand'
    BY <1>6 DEF RunTake
  <1>7. ASSUME NEW w \in Workers, RunUnlock(w) PROVE RequestInHand'
    BY <1>7 DEF RunUnlock
  <1>8. ASSUME NEW w \in Workers, RunDone(w) PROVE RequestInHand'
    BY <1>8 DEF RunDone
  <1>9. CASE UNCHANGED vars
    BY <1>9 DEF vars
  <1> QED
    BY <1>1, <1>2, <1>3, <1>4, <1>5, <1>6, <1>7, <1>8, <1>9
    DEF Next, Ctor, Run, Ended

LEMMA ConstructionStep ==
    ASSUME TypeOK, Construction, [Next]_vars
    PROVE  Construction'
  <1> USE ConstantsAssumption DEF TypeOK, Construction, Workers
  <1>1. CASE CtorThrow \/ CtorCreate
    BY <1>1, SMTT(30) DEF CtorThrow, CtorCreate
  <1>2. ASSUME NEW r \in Requests, AppendCall(r) PROVE Construction'
    BY <1>2 DEF AppendCall
  <1>3. CASE AppendStep
    BY <1>3 DEF AppendStep, AppendLock, AppendReject, AppendPush,
                AppendUnlock, AppendPost
  <1>4. CASE DtorStop \/ DtorFree
    BY <1>4 DEF DtorStop, DtorFree
  <1>5. ASSUME NEW w \in Workers, Run(w) PROVE Construction'
    <2>1. workerPc[w] # "absent"
      BY <1>5 DEF Run, RunTest, RunWait, RunLock, RunTake, RunUnlock, RunDone
    <2> QED
      BY <1>5, <2>1 DEF Run, RunTest, RunWait, RunLock, RunTake, RunUnlock,
                        RunDone
  <1>6. CASE UNCHANGED vars
    BY <1>6 DEF vars
  <1> QED
    BY <1>1, <1>2, <1>3, <1>4, <1>5, <1>6 DEF Next, Ctor, Ended

LEMMA InvStep == IInv /\ [Next]_vars => IInv'
  BY TypeStep, MutexStep, SemStep, BoundStep, InHandStep, ConstructionStep
  DEF IInv

-----------------------------------------------------------------------------
(* The theorems. *)

\* The inductive invariant: whatever the interleaving of Append, of the
\* workers' loops, of the constructor and of the destructor.
THEOREM Invariance == Spec => []IInv
  BY InitInv, InvStep, PTL DEF Spec

\* Every variable of the pool keeps its type (thread_pool.hpp:32-38).
THEOREM TypeCorrect == Spec => []TypeOK
  <1>1. IInv => TypeOK
    BY DEF IInv
  <1> QED
    BY <1>1, Invariance, PTL

\* Mutual exclusion on the request queue (thread_pool.hpp:36).
THEOREM MutualExclusion == Spec => []MutexOwner
  <1>1. IInv => MutexOwner
    BY DEF IInv
  <1> QED
    BY <1>1, Invariance, PTL

\* No wake-up is lost and none is spurious: units of the semaphore and queued
\* requests match (thread_pool.hpp:37, "is there a task to process").
THEOREM NoLostWakeup == Spec => []SemMatchesQueue
  <1>1. IInv => SemMatchesQueue
    BY DEF IInv
  <1> QED
    BY <1>1, Invariance, PTL

\* The path of Run that finds the queue empty (thread_pool.hpp:102-105) is
\* never taken.
THEOREM NoEmptyTake == Spec => []TokenMeansRequest
  <1>1. IInv => TokenMeansRequest
    BY HolderSeesRequest DEF IInv
  <1> QED
    BY <1>1, Invariance, PTL

\* The queue never holds more than MaxRequests + 1 requests
\* (thread_pool.hpp:79).
THEOREM BoundedQueue == Spec => []QueueBound
  <1>1. IInv => QueueBound
    BY DEF IInv
  <1> QED
    BY <1>1, Invariance, PTL

\* The pool implements the bounded FIFO of TaskQueue: Append's push is Submit,
\* Run's pop is Start, the return of Process is Finish.
THEOREM Refinement == Spec => ImplementsTaskQueue
  <1>1. Init => TQ!Init
    BY DEF Init, TQ!Init
  <1>2. IInv /\ [Next]_vars => [TQ!Next]_(TQ!vars)
    <2> SUFFICES ASSUME IInv, [Next]_vars PROVE [TQ!Next]_(TQ!vars)
      OBVIOUS
    <2> USE ConstantsAssumption DEF IInv, TypeOK, TQ!vars
    <2>1. ASSUME UNCHANGED <<workQueue, current>>
          PROVE  [TQ!Next]_(TQ!vars)
      BY <2>1
    <2>2. CASE AppendPush
      <3>1. request \in Requests
        BY <2>2 DEF AppendPush, RequestInHand
      <3>2. Len(workQueue) < MaxRequests + 1
        BY <2>2 DEF AppendPush
      <3>3. TQ!Submit(request)
        BY <2>2, <3>2 DEF AppendPush, TQ!Submit
      <3> QED
        BY <3>1, <3>3 DEF TQ!Next
    <2>3. ASSUME NEW w \in Workers, RunTake(w)
          PROVE  [TQ!Next]_(TQ!vars)
      <3>1. workQueue # <<>>
        BY <2>3, HolderSeesRequest DEF RunTake, TokenMeansRequest
      <3>2. current[w] = NoRequest
        BY <2>3 DEF RunTake, RequestInHand
      <3>3. TQ!Start(w)
        BY <2>3, <3>1, <3>2 DEF RunTake, TQ!Start
      <3> QED
        BY <3>3 DEF TQ!Next
    <2>4. ASSUME NEW w \in Workers, RunDone(w)
          PROVE  [TQ!Next]_(TQ!vars)
      <3>1. current[w] # NoRequest
        BY <2>4 DEF RunDone, RequestInHand
      <3>2. TQ!Finish(w)
        BY <2>4, <3>1 DEF RunDone, TQ!Finish
      <3> QED
        BY <3>2 DEF TQ!Next
    <2> QED
      BY <2>1, <2>2, <2>3, <2>4
      DEF Next, vars, Ctor, CtorThrow, CtorCreate, AppendCall, AppendStep,
          AppendLock, AppendReject, AppendUnlock, AppendPost, DtorStop,
          DtorFree, Run, RunTest, RunWait, RunLock, RunUnlock, Ended
  <1> QED
    BY <1>1, <1>2, Invariance, PTL DEF Spec, ImplementsTaskQueue, TQ!Spec
=============================================================================
