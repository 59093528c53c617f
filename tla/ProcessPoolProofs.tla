------------------------- MODULE ProcessPoolProofs -------------------------
(***************************************************************************)
(* Proofs about ProcessPool for any number of children, connections and    *)
(* signals.                                                                *)
(***************************************************************************)
EXTENDS ProcessPool, WellFoundedInduction, TLAPS

\* A set of slots has a smallest element.
LEMMA HasSmallest ==
    ASSUME NEW S \in SUBSET Slots, S # {}
    PROVE  Smallest(S) \in S /\ \A j \in S : Smallest(S) <= j
  <1>1. S \in SUBSET Nat
    BY PoolAssumption DEF Slots
  <1>2. PICK i \in S : \A j \in S : ~(<<j, i>> \in OpToRel(<, Nat))
    BY <1>1, NatLessThanWellFounded, WFMin
  <1>3. \A j \in S : i <= j
    <2> SUFFICES ASSUME NEW j \in S, j < i PROVE FALSE
      BY <1>1
    <2>1. <<j, i>> \in Nat \X Nat /\ <<j, i>>[1] < <<j, i>>[2]
      BY <1>1
    <2>2. <<j, i>> \in OpToRel(<, Nat)
      BY <2>1 DEF OpToRel
    <2> QED
      BY <1>2, <2>2
  <1> QED
    BY <1>3 DEF Smallest

\* Where the search of ProcessNewConnInParent ends: at a live slot, with none
\* between the counter and it.
LEMMA Search ==
    ASSUME TypeOK, Live # {}
    PROVE  /\ NextSlot \in Live
           /\ \A j \in Live :
                 \/ counter <= NextSlot /\ (j < counter \/ NextSlot <= j)
                 \/ j < counter /\ NextSlot <= j
  <1> DEFINE on == {i \in Live : i >= counter}
  <1>1. Live \in SUBSET Slots /\ on \in SUBSET Slots
    BY DEF Live
  <1>2. CASE on # {}
    <2>1. NextSlot = Smallest(on)
      BY <1>2 DEF NextSlot
    <2>2. NextSlot \in on /\ \A j \in on : NextSlot <= j
      BY <1>1, <1>2, <2>1, HasSmallest
    <2> QED
      BY <1>1, <2>2, PoolAssumption DEF TypeOK, Slots
  <1>3. CASE on = {}
    <2>1. NextSlot = Smallest(Live)
      BY <1>3 DEF NextSlot
    <2>2. NextSlot \in Live /\ \A j \in Live : NextSlot <= j
      BY <1>1, <2>1, HasSmallest
    <2>3. \A j \in Live : j < counter
      BY <1>1, <1>3, PoolAssumption DEF TypeOK, Slots
    <2> QED
      BY <2>2, <2>3
  <1> QED
    BY <1>2, <1>3

\* The constructor makes the children in order; nothing is handed out before,
\* and epoll_wait is called when all it reported is handled.
Started ==
    /\ \A i \in Slots : child[i] = "none" <=> i >= next
    /\ phase = "fork" => ~stop /\ counter = 0 /\ \A i \in Slots : given[i] = 0
    /\ phase \in {"setup", "wait", "batch"} => next = N
    /\ phase \in {"fork", "setup", "wait"} => batch = {}

Stopped == stop => next = N /\ Live = {}

\* A child that has ended is one the handler came too late for, or word of an
\* end is coming.
Told == Zombies \subseteq missed \/ Coming

Reported == sigpipe # <<>> => "sig" \in edges \cup batch

IInv == /\ TypeOK /\ SlotMatchesChild /\ Started /\ Stopped
        /\ Told /\ Reported /\ Balanced /\ KillsOnlyOwn

LEMMA InitOK == Init => IInv
  <1> SUFFICES ASSUME Init PROVE IInv
    OBVIOUS
  <1>1. TypeOK
    BY PoolAssumption DEF Init, TypeOK, Slots, Sigs, Kills
  <1>2. SlotMatchesChild /\ Stopped
    BY DEF Init, SlotMatchesChild, Stopped, Unreaped
  <1>4. Started
    BY PoolAssumption DEF Init, Started, Slots
  <1>3. Zombies = {} /\ Live = {}
    BY DEF Init, Zombies, Live
  <1> QED
    BY <1>1, <1>2, <1>3, <1>4 DEF Init, IInv, Told, Reported, Balanced, KillsOnlyOwn

\* Coming survives what only adds to the ways word can be on.
LEMMA StillComing ==
    ASSUME TypeOK, Coming, pending \subseteq pending',
           sigpipe' = sigpipe, sigs' = sigs
    PROVE  Coming'
  BY DEF Coming

\* Told and Reported depend on these variables alone.
LEMMA SameWord ==
    ASSUME Told, Reported,
           UNCHANGED <<child, missed, pending, sigpipe, sigs>>,
           ("sig" \in edges \cup batch) => ("sig" \in edges' \cup batch')
    PROVE  Told' /\ Reported'
  BY DEF Told, Reported, Coming, Zombies

\* What depends on the table of the slots alone.
LEMMA SameTable ==
    ASSUME SlotMatchesChild, Stopped, Balanced, KillsOnlyOwn,
           UNCHANGED <<poolVars, child, strays, next>>
    PROVE  SlotMatchesChild' /\ Stopped' /\ Balanced' /\ KillsOnlyOwn'
  <1>1. Live' = Live /\ Unreaped' = Unreaped
    BY DEF poolVars, Live, Unreaped
  <1> QED
    BY <1>1 DEF poolVars, SlotMatchesChild, Stopped, Balanced, KillsOnlyOwn

LEMMA ForkChildOK == IInv /\ ForkChild => IInv'
  <1> SUFFICES ASSUME IInv, ForkChild PROVE IInv'
    OBVIOUS
  <1> USE DEF IInv, ForkChild, loopVars, sigVars, outside
  <1>1. next \in Slots /\ next + 1 \in 0..N /\ Slots \subseteq Nat
    BY PoolAssumption DEF TypeOK, Slots
  <1>2. TypeOK'
    BY <1>1 DEF TypeOK
  <1>3. SlotMatchesChild'
    <2>1. Unreaped' = Unreaped \cup {next}
      BY <1>1 DEF TypeOK, Unreaped
    <2>2. /\ \A i \in Slots : pid'[i] = IF i = next THEN i ELSE pid[i]
          /\ \A i \in Slots : pipe'[i] <=> i = next \/ pipe[i]
      BY <1>1 DEF TypeOK
    <2> QED
      BY <2>1, <2>2 DEF SlotMatchesChild
  <1>4. Started'
    BY <1>1 DEF TypeOK, Started
  <1>5. Stopped'
    BY DEF Started, Stopped
  <1>6. Zombies' = Zombies
    BY <1>1 DEF TypeOK, Started, Zombies
  <1>7. Told' /\ Reported'
    BY <1>6 DEF Told, Reported, Coming
  <1>8. Balanced'
    <2>1. \A i \in Slots : given'[i] = 0 /\ ~(i < counter')
      BY <1>1 DEF Started
    <2>2. Live' \subseteq Slots
      BY DEF Live
    <2> QED
      BY <2>1, <2>2 DEF Balanced
  <1> QED
    BY <1>2, <1>3, <1>4, <1>5, <1>7, <1>8 DEF KillsOnlyOwn

\* Steps that leave the table, the children and the words alone.
Quiet == \/ Created \/ Abort \/ StartLoop \/ Connect \/ Wait \/ BatchDone \/ Exit
         \/ \E s \in Sigs : Install(s)

LEMMA QuietOK == IInv /\ Quiet => IInv'
  <1> SUFFICES ASSUME IInv, Quiet PROVE IInv'
    OBVIOUS
  <1> USE DEF IInv
  <1> USE DEF poolVars, loopVars, sigVars, kids, outside
  <1> DEFINE Same == /\ UNCHANGED <<poolVars, child, missed, strays, next, pending,
                                    sigpipe, sigs>>
                     /\ ("sig" \in edges \cup batch) => ("sig" \in edges' \cup batch')
  <1>0. phase \in {"fork", "setup", "wait", "batch", "exit", "abort", "killed"}
    BY DEF TypeOK
  <1>1. Same /\ TypeOK' /\ Started'
    <2>1. CASE Created \/ Abort \/ Exit
      BY <2>1 DEF Created, Abort, Exit, TypeOK, Started
    <2>2. CASE StartLoop \/ Connect
      <3>1. UNCHANGED <<poolVars, loopVars, sigVars, kids, nsigs>>
            /\ edges' \in {edges, edges \cup {"conn"}}
        BY <2>2 DEF StartLoop, Connect
      <3>2. phase' \in {phase, "wait"} /\ (phase' = phase \/ phase = "setup")
            /\ conns' \in Nat
        BY <2>2 DEF StartLoop, Connect, TypeOK
      <3> QED
        BY <1>0, <3>1, <3>2 DEF TypeOK, Started
    <2>3. CASE Wait
      <3>1. Same
        BY <2>3 DEF Wait, Started
      <3>2. TypeOK'
        BY <2>3 DEF Wait, TypeOK
      <3>3. Started'
        BY <2>3 DEF Wait, Started
      <3> QED
        BY <3>1, <3>2, <3>3
    <2>4. CASE BatchDone
      BY <2>4 DEF BatchDone, TypeOK, Started
    <2>5. CASE \E s \in Sigs : Install(s)
      BY <2>5 DEF Install, TypeOK, Started
    <2> QED
      BY <2>1, <2>2, <2>3, <2>4, <2>5 DEF Quiet
  <1> QED
    BY <1>1, SameWord, SameTable

LEMMA SignalOK == ASSUME IInv, NEW s \in Kills, Signal(s) PROVE IInv'
  <1> USE DEF IInv
  <1>1. UNCHANGED <<poolVars, child, missed, strays, next, sigpipe, sigs, edges, batch>>
    BY DEF Signal, poolVars, loopVars, kids
  <1>2. pending \subseteq pending'
    BY DEF Signal
  <1>3. TypeOK'
    <2>1. /\ UNCHANGED <<pid, pipe, stop, counter, given, next, batch, sigs, strays,
                         handled, sigpipe, edges, child, missed, conns>>
          /\ pending' \subseteq pending \cup Sigs /\ phase' \in {phase, "killed"}
          /\ nsigs' = nsigs + 1
      BY DEF Signal, poolVars, loopVars, kids, Sigs
    <2> QED
      BY <2>1 DEF TypeOK
  <1>4. Started'
    BY DEF Signal, poolVars, loopVars, kids, Started
  <1>5. Told' /\ Reported'
    BY <1>1, <1>2, StillComing DEF Told, Reported, Zombies
  <1> QED
    BY <1>1, <1>3, <1>4, <1>5, SameTable

LEMMA ChildEndsOK == ASSUME IInv, NEW i \in Slots, ChildEnds(i) PROVE IInv'
  <1> USE DEF IInv, ChildEnds
  <1>1. UNCHANGED <<phase, poolVars, strays, next, sigpipe, sigs, edges, batch>>
    BY DEF loopVars
  <1>2. TypeOK'
    BY DEF TypeOK, Sigs, poolVars, loopVars, outside
  <1>3. Unreaped' = Unreaped /\ Live' = Live
    BY <1>1 DEF TypeOK, Unreaped, Live, poolVars
  <1>4. SlotMatchesChild' /\ Stopped' /\ Balanced' /\ KillsOnlyOwn'
    BY <1>1, <1>3 DEF SlotMatchesChild, Stopped, Balanced, KillsOnlyOwn, poolVars
  <1>5. Started'
    BY <1>1 DEF TypeOK, Started, poolVars
  <1>6. Reported'
    BY <1>1 DEF Reported
  <1>7. Told'
    <2>1. CASE "CHLD" \in handled
      BY <2>1 DEF Told, Coming
    <2>2. CASE "CHLD" \notin handled
      <3>1. Zombies' = Zombies \cup {i} /\ missed' = missed \cup {i}
        BY <2>2 DEF Zombies, TypeOK
      <3>2. Coming => Coming'
        BY <1>1, <2>2 DEF Coming
      <3> QED
        BY <3>1, <3>2 DEF Told
    <2> QED
      BY <2>1, <2>2
  <1> QED
    BY <1>2, <1>4, <1>5, <1>6, <1>7

LEMMA DeliverOK == ASSUME IInv, NEW s \in Sigs, Deliver(s) PROVE IInv'
  <1> USE DEF IInv, Deliver
  <1>1. UNCHANGED <<phase, poolVars, child, missed, strays, next, sigs, batch>>
    BY DEF loopVars, kids
  <1>2. TypeOK'
    BY DEF TypeOK, poolVars, loopVars, kids, outside
  <1>3. Started'
    BY <1>1 DEF Started, poolVars
  <1>4. Coming => Coming'
    <2>1. CASE s = "CHLD"
      <3>1. sigpipe'[Len(sigpipe')] = "CHLD" /\ Len(sigpipe') \in 1..Len(sigpipe')
        BY <2>1 DEF TypeOK
      <3> QED
        BY <3>1 DEF Coming
    <2>2. CASE s # "CHLD"
      <3>1. \A n \in 1..Len(sigpipe) :
               n \in 1..Len(sigpipe') /\ sigpipe'[n] = sigpipe[n]
        BY DEF TypeOK
      <3>2. "CHLD" \in pending => "CHLD" \in pending'
        BY <2>2
      <3> QED
        BY <1>1, <3>1, <3>2 DEF Coming
    <2> QED
      BY <2>1, <2>2
  <1>5. Told' /\ Reported'
    BY <1>1, <1>4 DEF Told, Reported, Zombies
  <1> QED
    BY <1>1, <1>2, <1>3, <1>5, SameTable

LEMMA RecvSignalsOK == IInv /\ RecvSignals => IInv'
  <1> SUFFICES ASSUME IInv, RecvSignals PROVE IInv'
    OBVIOUS
  <1> USE DEF IInv, RecvSignals
  <1>1. UNCHANGED <<phase, poolVars, child, missed, strays, next, pending>>
    BY DEF kids
  <1>2. TypeOK'
    BY DEF TypeOK, poolVars, kids, outside
  <1>3. Started'
    BY <1>1 DEF Started, poolVars
  <1>4. Coming => Coming'
    BY DEF Coming
  <1>5. Told' /\ Reported'
    BY <1>1, <1>4 DEF Told, Reported, Zombies
  <1> QED
    BY <1>1, <1>2, <1>3, <1>5, SameTable

LEMMA HandleConnOK == IInv /\ HandleConn => IInv'
  <1> SUFFICES ASSUME IInv, HandleConn PROVE IInv'
    OBVIOUS
  <1> USE DEF IInv
  <1>1. /\ UNCHANGED <<phase, pid, pipe, next, strays, child, missed, pending,
                       sigpipe, sigs, handled, edges, conns, nsigs>>
        /\ batch' = batch \ {"conn"} /\ phase = "batch"
    BY DEF HandleConn, sigVars, kids, outside
  <1>2. Live' = Live /\ Unreaped' = Unreaped
    BY <1>1 DEF Live, Unreaped
  <1>3. Told' /\ Reported'
    BY <1>1, SameWord
  <1>4. SlotMatchesChild' /\ KillsOnlyOwn'
    BY <1>1, <1>2 DEF SlotMatchesChild, KillsOnlyOwn
  <1>5. Started'
    BY <1>1 DEF Started
  <1>6. CASE Live = {}
    <2>1. stop' = TRUE /\ UNCHANGED <<counter, given>>
      BY <1>6 DEF HandleConn
    <2>2. TypeOK'
      BY <1>1, <2>1 DEF TypeOK
    <2>3. Stopped' /\ Balanced'
      BY <1>1, <1>2, <1>6, <2>1 DEF Started, Stopped, Balanced
    <2> QED
      BY <1>3, <1>4, <1>5, <2>2, <2>3
  <1>7. CASE Live # {}
    <2> DEFINE c == NextSlot
    <2>1. /\ counter' = IF c = N - 1 THEN 0 ELSE c + 1
          /\ given' = [given EXCEPT ![c] = @ + 1]
          /\ stop' = stop
      BY <1>7 DEF HandleConn
    <2>2. /\ c \in Live
          /\ \A j \in Live : \/ counter <= c /\ (j < counter \/ c <= j)
                             \/ j < counter /\ c <= j
      BY <1>7, Search
    <2> HIDE DEF c
    <2>3. c \in Slots /\ counter' \in Slots
      BY <2>1, <2>2, PoolAssumption DEF Live, Slots
    <2>4. given' \in [Slots -> Nat]
      BY <2>1, <2>3 DEF TypeOK
    <2>5. TypeOK'
      BY <1>1, <2>1, <2>3, <2>4 DEF TypeOK
    <2>6. Stopped'
      BY <1>1, <1>2, <2>1 DEF Stopped
    <2>7. Balanced'
      <3>1. SUFFICES ASSUME NEW i \in Live, NEW j \in Live, i < j
                     PROVE  given'[i] = given'[j]
                              + (IF i < counter' /\ counter' <= j THEN 1 ELSE 0)
        BY <1>2 DEF Balanced
      <3>2. /\ i \in 0..(N - 1) /\ j \in 0..(N - 1) /\ counter \in 0..(N - 1)
            /\ c \in 0..(N - 1) /\ given[i] \in Nat /\ given[j] \in Nat
        BY <2>3 DEF Live, TypeOK, Slots
      <3>3. given[i] = given[j] + (IF i < counter /\ counter <= j THEN 1 ELSE 0)
        BY <3>1 DEF Balanced
      <3>4. /\ given'[i] = IF i = c THEN given[i] + 1 ELSE given[i]
            /\ given'[j] = IF j = c THEN given[j] + 1 ELSE given[j]
        BY <2>1 DEF TypeOK, Live
      <3>5. \A k \in {i, j} : \/ counter <= c /\ (k < counter \/ c <= k)
                              \/ k < counter /\ c <= k
        BY <2>2
      <3>6. c \in Live /\ \A k \in {c} : k \in Slots
        BY <2>2, <2>3
      <3> QED
        BY <2>1, <3>1, <3>2, <3>3, <3>4, <3>5, PoolAssumption
    <2> QED
      BY <1>3, <1>4, <1>5, <2>5, <2>6, <2>7
  <1> QED
    BY <1>6, <1>7

LEMMA ReapOK == ASSUME IInv, NEW p \in Slots, Reap(p) PROVE IInv'
  <1> USE DEF IInv
  <1>1. /\ UNCHANGED <<phase, stop, counter, given, next, batch, sigs, strays,
                       handled, pending, sigpipe, missed, edges, conns, nsigs>>
        /\ child[p] = "ended"
        /\ child' = [child EXCEPT ![p] = "reaped"]
        /\ pid' = [i \in Slots |-> IF pid[i] = p THEN NoPid ELSE pid[i]]
        /\ pipe' = [i \in Slots |-> pipe[i] /\ pid[i] # p]
    BY DEF Reap, Zombies, loopVars, sigVars, outside
  <1>2. TypeOK'
    <2>1. /\ pid' \in [Slots -> Slots \cup {NoPid}]
          /\ child' \in [Slots -> {"none", "run", "ended", "reaped"}]
      BY <1>1 DEF TypeOK
    <2>2. pipe' \in [Slots -> BOOLEAN]
      BY <1>1 DEF TypeOK
    <2> QED
      BY <1>1, <2>1, <2>2 DEF TypeOK
  <1>3. Unreaped' = Unreaped \ {p}
    BY <1>1 DEF TypeOK, Unreaped
  <1>4. \A i \in Slots : pid[i] = p <=> i = p
    BY <1>1, PoolAssumption DEF SlotMatchesChild, Unreaped, NoPid, Slots
  <1>5. SlotMatchesChild'
    <2>1. /\ \A i \in Slots : pid'[i] = IF i = p THEN NoPid ELSE pid[i]
          /\ \A i \in Slots : pipe'[i] <=> pipe[i] /\ i # p
      BY <1>1, <1>4
    <2> QED
      BY <1>3, <2>1 DEF SlotMatchesChild
  <1>6. Live' \subseteq Live
    BY <1>1 DEF Live
  <1>7. Started'
    BY <1>1 DEF TypeOK, Started
  <1>8. Stopped' /\ Balanced' /\ KillsOnlyOwn'
    BY <1>1, <1>6 DEF Stopped, Balanced, KillsOnlyOwn
  <1>9. Zombies' \subseteq Zombies
    BY <1>1 DEF TypeOK, Zombies
  <1>10. Told' /\ Reported'
    BY <1>1, <1>9 DEF Told, Reported, Coming
  <1> QED
    BY <1>2, <1>5, <1>7, <1>8, <1>10

LEMMA AllReapedOK == IInv /\ AllReaped => IInv'
  <1> SUFFICES ASSUME IInv, AllReaped PROVE IInv'
    OBVIOUS
  <1> USE DEF IInv, AllReaped
  <1>1. /\ UNCHANGED <<phase, pid, pipe, counter, given, next, batch, strays,
                       handled, pending, sigpipe, child, missed, edges, conns, nsigs>>
        /\ phase = "batch" /\ sigs # <<>> /\ sigs' = Tail(sigs)
    BY DEF Handling, sigVars, kids, outside
  <1>2. Live' = Live /\ Unreaped' = Unreaped /\ Zombies' = {}
    BY <1>1 DEF Live, Unreaped, Zombies
  <1>3. sigs' \in Seq(Sigs)
    BY <1>1 DEF TypeOK
  <1>4. TypeOK'
    BY <1>1, <1>3 DEF TypeOK
  <1>5. Started' /\ Stopped'
    BY <1>1, <1>2 DEF Started, Stopped
  <1>6. Told' /\ Reported'
    BY <1>1, <1>2 DEF Told, Reported
  <1> QED
    BY <1>1, <1>2, <1>4, <1>5, <1>6 DEF SlotMatchesChild, Balanced, KillsOnlyOwn

LEMMA KillAllOK == IInv /\ KillAll => IInv'
  <1> SUFFICES ASSUME IInv, KillAll PROVE IInv'
    OBVIOUS
  <1> USE DEF IInv
  <1>1. /\ UNCHANGED <<phase, poolVars, next, batch, handled, pending, sigpipe,
                       child, missed, edges, conns, nsigs>>
        /\ phase = "batch" /\ sigs # <<>> /\ sigs' = Tail(sigs) /\ sigs[1] # "CHLD"
        /\ strays' = strays \cup ({pid[i] : i \in Live} \ Unreaped)
    BY DEF KillAll, Handling, Kills, sigVars, kids, outside
  <1>2. strays' = {}
    BY <1>1 DEF KillsOnlyOwn, SlotMatchesChild, Live, NoPid
  <1>3. sigs' \in Seq(Sigs)
    BY <1>1 DEF TypeOK
  <1>4. TypeOK'
    BY <1>1, <1>2, <1>3 DEF TypeOK, poolVars
  <1>5. Live' = Live /\ Unreaped' = Unreaped /\ Zombies' = Zombies
    BY <1>1 DEF Live, Unreaped, Zombies, poolVars
  <1>6. Coming => Coming'
    <2>1. \A n \in 1..Len(sigs) : n # 1 => /\ n - 1 \in 1..Len(sigs')
                                           /\ sigs'[n - 1] = sigs[n]
      BY <1>1 DEF TypeOK
    <2>2. \A n \in 1..Len(sigs) : sigs[n] = "CHLD" => n # 1
      BY <1>1
    <2> QED
      BY <1>1, <2>1, <2>2 DEF Coming
  <1>7. Told' /\ Reported'
    BY <1>1, <1>5, <1>6 DEF Told, Reported
  <1>8. Started' /\ Stopped' /\ SlotMatchesChild' /\ Balanced'
    BY <1>1, <1>5 DEF Started, Stopped, SlotMatchesChild, Balanced, poolVars
  <1> QED
    BY <1>2, <1>4, <1>7, <1>8 DEF KillsOnlyOwn

LEMMA StepOK == IInv /\ [Next]_vars => IInv'
  <1> SUFFICES ASSUME IInv, [Next]_vars PROVE IInv'
    OBVIOUS
  <1>1. CASE UNCHANGED vars
    <2>1. UNCHANGED <<phase, poolVars, loopVars, sigVars, edges, kids, outside>>
      BY <1>1 DEF vars
    <2>2. TypeOK' /\ Started'
      BY <2>1 DEF IInv, TypeOK, Started, poolVars, loopVars, sigVars, kids, outside
    <2>3. Told' /\ Reported'
      BY <2>1, SameWord DEF IInv, loopVars, sigVars, kids
    <2> QED
      BY <2>1, <2>2, <2>3, SameTable DEF IInv, loopVars, kids
  <1>2. CASE Quiet
    BY <1>2, QuietOK
  <1>3. CASE ForkChild \/ RecvSignals \/ HandleConn \/ AllReaped \/ KillAll
    BY <1>3, ForkChildOK, RecvSignalsOK, HandleConnOK, AllReapedOK, KillAllOK
  <1>4. CASE \E s \in Kills : Signal(s)
    BY <1>4, SignalOK
  <1>5. CASE \E s \in Sigs : Deliver(s)
    BY <1>5, DeliverOK
  <1>6. CASE \E i \in Slots : ChildEnds(i) \/ Reap(i)
    BY <1>6, ChildEndsOK, ReapOK
  <1> QED
    BY <1>1, <1>2, <1>3, <1>4, <1>5, <1>6 DEF Next, Parent, Quiet

\* The inductive invariant holds in every reachable state, for any number of
\* children, connections and signals.
THEOREM Invariance == Spec => []IInv
  BY InitOK, StepOK, PTL DEF Spec

\* Type correctness of the process pool.
THEOREM TypeCorrect == Spec => []TypeOK
  <1>1. IInv => TypeOK
    BY DEF IInv
  <1> QED
    BY <1>1, Invariance, PTL

\* The parent's table of slots agrees with the children there are.
THEOREM TableIsTrue == Spec => []SlotMatchesChild
  <1>1. IInv => SlotMatchesChild
    BY DEF IInv
  <1> QED
    BY <1>1, Invariance, PTL

\* Signals merge, and yet the parent is told of every end that comes after its
\* handler, and what is in the signal pipe is reported by epoll.
THEOREM EndsAreTold == Spec => []NoChildForgotten
  <1>1. IInv => NoChildForgotten
    BY DEF IInv, NoChildForgotten, Told, Reported
  <1> QED
    BY <1>1, Invariance, PTL

\* Round robin stays even although slots drop out in any order.
THEOREM RoundRobin == Spec => []Balanced
  <1>1. IInv => Balanced
    BY DEF IInv
  <1> QED
    BY <1>1, Invariance, PTL

\* The parent never signals a process that is not its own unreaped child.
THEOREM KillsAreSafe == Spec => []KillsOnlyOwn
  <1>1. IInv => KillsOnlyOwn
    BY DEF IInv
  <1> QED
    BY <1>1, Invariance, PTL

\* The parent leaves its loop only after it has reaped all N children.
THEOREM StopsLast == Spec => []StopMeansNone
  <1>1. IInv => StopMeansNone
    <2> SUFFICES ASSUME IInv, stop, NEW i \in Slots PROVE child[i] = "reaped"
      BY DEF StopMeansNone
    <2>1. pid[i] = NoPid /\ child[i] # "none"
      BY PoolAssumption DEF IInv, Stopped, Started, Live, Slots
    <2> QED
      <3>1. i \notin Unreaped
        BY <2>1, PoolAssumption DEF IInv, SlotMatchesChild, NoPid, Slots
      <3> QED
        BY <2>1, <3>1 DEF IInv, TypeOK, Unreaped
  <1> QED
    BY <1>1, Invariance, PTL
=============================================================================
