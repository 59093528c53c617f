---------------------------- MODULE TwebsProofs ----------------------------
(***************************************************************************)
(* Proofs about Twebs for any number of connections and any limits: the    *)
(* handler of SIGCHLD always finds a child to reap, the server's           *)
(* descriptors are accounted for, and so the number of connections that it *)
(* can ever serve is bounded.                                              *)
(***************************************************************************)
EXTENDS Twebs, FiniteSetTheorems, TLAPS

\* Sets of connections are finite; their cardinalities are numbers.
LEMMA Finite ==
    ASSUME NEW S \in SUBSET Conns
    PROVE  IsFiniteSet(S) /\ Cardinality(S) \in Nat
  BY TwebsAssumption, FS_Subset, FS_CardinalityType

LEMMA Add ==
    ASSUME NEW S \in SUBSET Conns, NEW c \in Conns, c \notin S
    PROVE  Cardinality(S \cup {c}) = Cardinality(S) + 1
  BY Finite, FS_AddElement

LEMMA Remove ==
    ASSUME NEW S \in SUBSET Conns, NEW c \in S
    PROVE  Cardinality(S \ {c}) = Cardinality(S) - 1
  BY Finite, FS_RemoveElement

LEMMA Empty == Cardinality({}) = 0
  BY FS_EmptySet

\* What the invariant says, without the disjuncts of Next.
LEMMA Sets ==
    ASSUME TypeOK
    PROVE  /\ Zombies \in SUBSET Conns /\ Served \in SUBSET Conns
           /\ Processes \in SUBSET Served
           /\ Cardinality(Zombies) \in Nat /\ Cardinality(Served) \in Nat
           /\ Cardinality(denied) \in Nat /\ Cardinality(held) \in Nat
           /\ Cardinality(Processes) \in Nat
           /\ Cardinality(Processes) <= Cardinality(Served)
  <1>1. /\ Zombies \in SUBSET Conns /\ Served \in SUBSET Conns
        /\ Processes \in SUBSET Served
    BY DEF TypeOK, Zombies, Served, Processes, Alive
  <1>2. Processes \in SUBSET Conns /\ denied \in SUBSET Conns /\ held \in SUBSET Conns
    BY <1>1 DEF TypeOK
  <1>3. Cardinality(Processes) <= Cardinality(Served)
    BY <1>1, Finite, FS_Subset
  <1> QED
    BY <1>1, <1>2, <1>3, Finite

LEMMA InitOK == Init => IInv
  <1> SUFFICES ASSUME Init PROVE IInv
    OBVIOUS
  <1>1. Zombies = {} /\ Served = {}
    BY DEF Init, Zombies, Served
  <1>2. TypeOK
    <2>1. proc \in [Conns -> {"none", "run", "spin", "zombie", "reaped"}]
      BY DEF Init
    <2>2. pending \in BOOLEAN /\ handling \in BOOLEAN
      BY DEF Init
    <2>3. backlog \in Seq(Conns) /\ configs \in Nat
      BY DEF Init
    <2>4. {} \in SUBSET Conns
      OBVIOUS
    <2> QED
      BY <2>1, <2>2, <2>3, <2>4 DEF Init, TypeOK
  <1>3. SignalMeansZombie
    BY <1>1, Empty DEF Init, SignalMeansZombie, Bit
  <1>4. DescriptorAccount
    BY <1>1, Empty, TwebsAssumption DEF Init, DescriptorAccount, Bit, InUse
  <1>5. EndHasCause /\ Fresh
    BY <1>1 DEF Init, EndHasCause, Fresh
  <1> QED
    BY <1>2, <1>3, <1>4, <1>5 DEF IInv

\* Steps that leave the children and the signal alone keep SignalMeansZombie.
LEMMA SameChildren ==
    ASSUME UNCHANGED proc
    PROVE  /\ Zombies' = Zombies /\ Served' = Served /\ Processes' = Processes
  BY DEF Zombies, Served, Processes, Alive

\* exit(0) in a wrapper: the process stops where it is.
LEMMA ExitOK ==
    ASSUME IInv, Up, NEW why \in {"accept", "abort", "config", "rule", "pipe", "fork"}, Exit(why),
           UNCHANGED <<clientVars, proc, sigVars>>,
           LET used == BaseFds + Cardinality(Served) + 2 * Cardinality(denied) IN
             /\ why = "accept" => used >= NoFile
             /\ why = "config" => used + 1 >= NoFile
             /\ why = "fork" => Cardinality(Served) >= MaxProc
             /\ why = "rule" => rule = "bad"
             /\ why = "abort" => backlog # <<>> /\ Head(backlog) \in gone
             /\ why = "pipe" => connfd \in gone
    PROVE  IInv'
  <1>1. /\ Zombies' = Zombies /\ Served' = Served
        /\ UNCHANGED <<backlog, begun, complete, gone, rule, pc, connfd, held, configs,
                       denied, pending, handling, proc>>
        /\ cause' = why
    BY SameChildren DEF Exit, clientVars, sigVars, mainVars
  <1>2. TypeOK'
    BY <1>1 DEF IInv, TypeOK
  <1>3. SignalMeansZombie' /\ DescriptorAccount' /\ Fresh'
    BY <1>1 DEF IInv, SignalMeansZombie, DescriptorAccount, Fresh, InUse
  <1>4. EndHasCause'
    BY <1>1 DEF EndHasCause
  <1> QED
    BY <1>2, <1>3, <1>4 DEF IInv

-----------------------------------------------------------------------------
(* The actions. *)

\* The backlog after a connection joined it or left it.
LEMMA BacklogTail ==
    ASSUME NEW S, NEW q \in Seq(S), q # <<>>
    PROVE  /\ Head(q) \in S /\ Tail(q) \in Seq(S) /\ Head(q) = q[1]
           /\ Len(Tail(q)) = Len(q) - 1 /\ Len(q) \in Nat
           /\ \A i \in 1..Len(Tail(q)) : Tail(q)[i] = q[i + 1]
           /\ 1 \in DOMAIN q
           /\ \A i \in DOMAIN Tail(q) : i \in 1..Len(Tail(q)) /\ i + 1 \in DOMAIN q
  OBVIOUS

LEMMA ConnectOK == ASSUME IInv, NEW c \in Conns, Connect(c) PROVE IInv'
  <1>1. /\ begun' = begun \cup {c} /\ c \notin begun /\ backlog' = Append(backlog, c)
        /\ Up /\ UNCHANGED <<complete, gone, rule, pc, connfd, held, configs, denied, cause, proc,
                       pending, handling>>
    BY DEF Connect, mainVars, sigVars
  <1>2. Zombies' = Zombies /\ Served' = Served
    BY <1>1, SameChildren
  <1>3. /\ backlog' \in Seq(Conns) /\ DOMAIN backlog' = 1..Len(backlog)+1
        /\ DOMAIN backlog = 1..Len(backlog) /\ Len(backlog) \in Nat
        /\ backlog'[Len(backlog) + 1] = c
        /\ \A i \in 1..Len(backlog) : backlog'[i] = backlog[i]
    BY <1>1 DEF IInv, TypeOK
  <1>4. TypeOK'
    <2>1. begun' \in SUBSET Conns
      BY <1>1 DEF IInv, TypeOK
    <2> QED
      BY <1>1, <1>3, <2>1 DEF IInv, TypeOK
  <1>5. SignalMeansZombie' /\ DescriptorAccount' /\ EndHasCause'
    BY <1>1, <1>2 DEF IInv, SignalMeansZombie, DescriptorAccount, EndHasCause, InUse, Up
  <1>6. Fresh'
    <2>1. /\ Served \cup denied \subseteq begun /\ (pc # "accept" => connfd \in begun)
          /\ \A i \in 1..Len(backlog) :
                /\ backlog[i] \in begun \ (Served \cup denied)
                /\ pc # "accept" => backlog[i] # connfd
                /\ \A j \in 1..Len(backlog) : backlog[i] = backlog[j] => i = j
      BY <1>3 DEF IInv, Fresh
    <2>2. \A i \in 1..Len(backlog) : backlog[i] # c
      BY <1>1, <2>1
    <2>3. c \notin Served \cup denied /\ (pc # "accept" => c # connfd)
      BY <1>1, <2>1
    <2>4. \A i \in 1..Len(backlog)+1 : i \in 1..Len(backlog) \/ i = Len(backlog) + 1
      BY <1>3
    <2>5. \A i \in DOMAIN backlog' :
             /\ backlog'[i] \in begun' \ (Served' \cup denied')
             /\ pc' # "accept" => backlog'[i] # connfd'
      BY <1>1, <1>2, <1>3, <2>1, <2>3, <2>4
    <2>6. \A i, j \in DOMAIN backlog' : backlog'[i] = backlog'[j] => i = j
      BY <1>3, <2>1, <2>2, <2>4
    <2> QED
      BY <1>1, <1>2, <2>1, <2>5, <2>6 DEF Fresh
  <1> QED
    BY <1>4, <1>5, <1>6 DEF IInv

\* A client sends or leaves, or config.ini changes.
LEMMA ClientOK ==
    ASSUME IInv, (\E c \in Conns : SendRequest(c) \/ Leave(c)) \/ EditConfig PROVE IInv'
  <1>1. /\ complete' \in SUBSET Conns /\ gone' \in SUBSET Conns /\ gone \subseteq gone'
        /\ rule' \in {"ok", "bad"} /\ (rule' = rule \/ Up)
        /\ UNCHANGED <<backlog, begun, pc, connfd, held, configs, denied, cause, proc,
                       pending, handling>>
    BY DEF SendRequest, Leave, EditConfig, mainVars, sigVars, IInv, TypeOK
  <1>2. Zombies' = Zombies /\ Served' = Served
    BY <1>1, SameChildren
  <1>3. TypeOK'
    BY <1>1 DEF IInv, TypeOK
  <1>4. SignalMeansZombie' /\ DescriptorAccount' /\ Fresh'
    BY <1>1, <1>2 DEF IInv, SignalMeansZombie, DescriptorAccount, Fresh, InUse
  <1>5. EndHasCause'
    BY <1>1, <1>2 DEF IInv, EndHasCause, Up
  <1> QED
    BY <1>3, <1>4, <1>5 DEF IInv

LEMMA AcceptOK == ASSUME IInv, Accept PROVE IInv'
  <1>1. Up /\ pc = "accept" /\ backlog # <<>> /\ held = denied /\ TypeOK
    BY DEF Accept, Running, IInv, DescriptorAccount
  <1>2. configs = Cardinality(Served) + Cardinality(denied)
    BY <1>1, Sets DEF IInv, DescriptorAccount, Bit
  <1>3. CASE ~(InUse < NoFile)
    <2>1. Exit("accept") /\ UNCHANGED <<clientVars, proc, sigVars>>
      BY <1>3 DEF Accept, clientVars
    <2>2. BaseFds + Cardinality(Served) + 2 * Cardinality(denied) >= NoFile
      BY <1>1, <1>2, <1>3, Sets, TwebsAssumption DEF InUse
    <2> QED
      BY <1>1, <2>1, <2>2, ExitOK
  <1>4. CASE InUse < NoFile
    <2> DEFINE c == Head(backlog)
    <2>1. /\ backlog' = Tail(backlog) /\ connfd' = c /\ held' = held \cup {c}
          /\ pc' = "access"
          /\ UNCHANGED <<begun, complete, gone, rule, configs, denied, cause, proc, pending,
                         handling>>
      BY <1>4 DEF Accept, sigVars
    <2>2. Zombies' = Zombies /\ Served' = Served
      BY <2>1, SameChildren
    <2>3. /\ c \in Conns /\ Tail(backlog) \in Seq(Conns) /\ c = backlog[1]
          /\ 1 \in DOMAIN backlog
      BY <1>1, BacklogTail DEF TypeOK
    <2>4. c \in begun \ (Served \cup denied)
      BY <2>3 DEF IInv, Fresh
    <2> HIDE DEF c
    <2>5. TypeOK'
      BY <1>1, <2>1, <2>3 DEF TypeOK
    <2>6. SignalMeansZombie' /\ EndHasCause'
      BY <1>1, <2>1, <2>2 DEF IInv, SignalMeansZombie, EndHasCause, Up
    <2>7. DescriptorAccount'
      <3>1. Cardinality(held') = Cardinality(held) + 1
        BY <1>1, <2>1, <2>3, <2>4, Add DEF TypeOK
      <3>2. InUse' <= NoFile
        BY <1>1, <1>4, <2>1, <3>1, Sets, TwebsAssumption DEF InUse, TypeOK
      <3> QED
        BY <1>1, <1>2, <2>1, <2>2, <2>3, <2>4, <3>2, Sets
           DEF IInv, DescriptorAccount, Bit
    <2>8. Fresh'
      <3>1. \A i \in DOMAIN backlog' :
               /\ i \in Nat /\ i + 1 \in DOMAIN backlog /\ backlog'[i] = backlog[i + 1]
               /\ i + 1 # 1
        BY <1>1, <2>1, BacklogTail DEF TypeOK
      <3>2. \A i \in DOMAIN backlog :
               /\ backlog[i] \in begun \ (Served \cup denied)
               /\ \A j \in DOMAIN backlog : backlog[i] = backlog[j] => i = j
        BY DEF IInv, Fresh
      <3>3. \A i \in DOMAIN backlog' :
               /\ backlog'[i] \in begun \ (Served \cup denied)
               /\ backlog'[i] # c
        BY <2>3, <3>1, <3>2
      <3>4. \A i, j \in DOMAIN backlog' : backlog'[i] = backlog'[j] => i = j
        <4> SUFFICES ASSUME NEW i \in DOMAIN backlog', NEW j \in DOMAIN backlog',
                            backlog'[i] = backlog'[j]
                     PROVE  i = j
          OBVIOUS
        <4>1. i + 1 = j + 1
          BY <3>1, <3>2
        <4> QED
          BY <3>1, <4>1
      <3>5. Served \cup denied \subseteq begun
        BY DEF IInv, Fresh
      <3> QED
        BY <2>1, <2>2, <2>4, <3>3, <3>4, <3>5 DEF Fresh
    <2> QED
      BY <2>5, <2>6, <2>7, <2>8 DEF IInv
  <1> QED
    BY <1>3, <1>4

\* What the main loop knows of the connection in hand.
LEMMA InHand ==
    ASSUME IInv, pc # "accept"
    PROVE  /\ connfd \in Conns /\ connfd \notin denied /\ connfd \in begun
           /\ held = denied \cup {connfd}
           /\ Cardinality(held) = Cardinality(denied) + 1
  <1>1. /\ connfd \in Conns /\ connfd \notin denied /\ connfd \in begun
        /\ held = denied \cup {connfd} /\ denied \in SUBSET Conns
    BY DEF IInv, TypeOK, DescriptorAccount, Fresh
  <1> QED
    BY <1>1, Add

LEMMA AcceptFailsOK == ASSUME IInv, AcceptFails PROVE IInv'
  <1>1. /\ Up /\ backlog # <<>> /\ Head(backlog) \in gone /\ Exit("abort")
        /\ UNCHANGED <<clientVars, proc, sigVars>>
    BY DEF AcceptFails, Running
  <1> QED
    BY <1>1, ExitOK

LEMMA AccessOK == ASSUME IInv, Access PROVE IInv'
  <1>1. Up /\ pc = "access" /\ TypeOK /\ connfd \notin Served
    BY DEF Access, Running, IInv, DescriptorAccount
  <1>2. configs = Cardinality(Served) + Cardinality(denied)
    BY <1>1, Sets DEF IInv, DescriptorAccount, Bit
  <1>3. InUse = BaseFds + Cardinality(Served) + 2 * Cardinality(denied) + 1
    BY <1>1, <1>2, InHand, Sets, TwebsAssumption DEF InUse
  <1>7. (InUse >= NoFile) <=> ~(InUse < NoFile)
    BY <1>1, <1>3, Sets, TwebsAssumption
  <1>4. CASE ~(InUse < NoFile)
    <2>1. Exit("config") /\ UNCHANGED <<clientVars, proc, sigVars>>
      BY <1>4, <1>7 DEF Access
    <2>2. BaseFds + Cardinality(Served) + 2 * Cardinality(denied) + 1 >= NoFile
      BY <1>1, <1>3, <1>4, Sets, TwebsAssumption
    <2> QED
      BY <1>1, <2>1, <2>2, ExitOK
  <1>6. CASE InUse < NoFile /\ rule = "bad"
    <2>1. Exit("rule") /\ UNCHANGED <<clientVars, proc, sigVars>>
      BY <1>6, <1>7 DEF Access
    <2> QED
      BY <1>1, <1>6, <2>1, ExitOK
  <1>5. CASE InUse < NoFile /\ rule # "bad"
    <2>1. /\ configs' = configs + 1 /\ pc' \in {"deny", "fork"}
          /\ UNCHANGED <<backlog, begun, complete, gone, rule, connfd, held, denied, cause, proc,
                         pending, handling>>
      BY <1>5, <1>7 DEF Access, clientVars, sigVars
    <2>2. Zombies' = Zombies /\ Served' = Served
      BY <2>1, SameChildren
    <2>3. TypeOK'
      BY <1>1, <2>1 DEF TypeOK
    <2>4. SignalMeansZombie' /\ EndHasCause'
      BY <1>1, <2>1, <2>2 DEF IInv, SignalMeansZombie, EndHasCause, Up
    <2>5. DescriptorAccount'
      <3>1. InUse' <= NoFile
        BY <1>1, <1>5, <2>1, Sets, TwebsAssumption DEF InUse, TypeOK
      <3>2. configs' = Cardinality(Served) + Cardinality(denied) + 1
        BY <1>2, <2>1
      <3> QED
        BY <1>1, <2>1, <2>2, <3>1, <3>2, InHand DEF IInv, DescriptorAccount, Bit
    <2>6. Fresh'
      BY <1>1, <2>1, <2>2 DEF IInv, Fresh
    <2> QED
      BY <2>3, <2>4, <2>5, <2>6 DEF IInv
  <1> QED
    BY <1>4, <1>5, <1>6

LEMMA DenyOK == ASSUME IInv, Deny PROVE IInv'
  <1>1. Up /\ pc = "deny" /\ TypeOK /\ connfd \notin Served
    BY DEF Deny, Running, IInv, DescriptorAccount
  <1>2. /\ denied' = denied \cup {connfd} /\ pc' = "accept"
        /\ UNCHANGED <<backlog, begun, complete, gone, rule, connfd, held, configs, cause, proc,
                       pending, handling>>
    BY DEF Deny, clientVars, sigVars
  <1>3. Zombies' = Zombies /\ Served' = Served
    BY <1>2, SameChildren
  <1>4. TypeOK'
    BY <1>1, <1>2, InHand DEF TypeOK
  <1>5. SignalMeansZombie' /\ EndHasCause'
    BY <1>1, <1>2, <1>3 DEF IInv, SignalMeansZombie, EndHasCause, Up
  <1>6. DescriptorAccount'
    <2>1. Cardinality(denied') = Cardinality(denied) + 1
      BY <1>1, <1>2, InHand
    <2>2. configs = Cardinality(Served) + Cardinality(denied) + 1
      BY <1>1, Sets DEF IInv, DescriptorAccount, Bit
    <2>3. configs' = Cardinality(Served') + Cardinality(denied')
      BY <1>1, <1>2, <1>3, <2>1, <2>2, Sets
    <2>4. held' = denied' /\ denied' \cap Served' = {}
      BY <1>1, <1>2, <1>3, InHand DEF IInv, DescriptorAccount
    <2>5. InUse' <= NoFile
      BY <1>2 DEF IInv, DescriptorAccount, InUse
    <2>6. Cardinality(Served') + Cardinality(denied') + 0 = configs'
      BY <1>1, <1>2, <1>3, <2>1, <2>3, Sets
    <2> QED
      BY <1>2, <2>4, <2>5, <2>6 DEF DescriptorAccount, Bit
  <1>7. Fresh'
    BY <1>1, <1>2, <1>3, InHand DEF IInv, Fresh
  <1> QED
    BY <1>4, <1>5, <1>6, <1>7 DEF IInv

LEMMA DenyFailsOK == ASSUME IInv, DenyFails PROVE IInv'
  <1>1. /\ Up /\ connfd \in gone /\ Exit("pipe")
        /\ UNCHANGED <<clientVars, proc, sigVars>>
    BY DEF DenyFails, Running
  <1> QED
    BY <1>1, ExitOK

LEMMA ForkOK == ASSUME IInv, Fork PROVE IInv'
  <1>1. Up /\ pc = "fork" /\ TypeOK /\ connfd \notin Served
    BY DEF Fork, Running, IInv, DescriptorAccount
  <1>2. CASE ~(Cardinality(Processes) < MaxProc)
    <2>1. Exit("fork") /\ UNCHANGED <<clientVars, proc, sigVars>>
      BY <1>2 DEF Fork
    <2>2. Cardinality(Served) >= MaxProc
      BY <1>1, <1>2, Sets, TwebsAssumption
    <2> QED
      BY <1>1, <2>1, <2>2, ExitOK
  <1>3. CASE Cardinality(Processes) < MaxProc
    <2>1. /\ proc' = [proc EXCEPT ![connfd] = "run"] /\ pc' = "close"
          /\ UNCHANGED <<backlog, begun, complete, gone, rule, connfd, held, configs, denied, cause,
                         pending, handling>>
      BY <1>3 DEF Fork, clientVars, sigVars
    <2>2. /\ connfd \in Conns /\ connfd \notin denied /\ connfd \in begun
          /\ held = denied \cup {connfd}
      BY <1>1, InHand
    <2>3. Zombies' = Zombies /\ Served' = Served \cup {connfd}
      BY <1>1, <2>1, <2>2 DEF TypeOK, Zombies, Served
    <2>4. TypeOK'
      BY <1>1, <2>1, <2>2 DEF TypeOK
    <2>5. SignalMeansZombie' /\ EndHasCause'
      BY <1>1, <2>1, <2>3 DEF IInv, SignalMeansZombie, EndHasCause, Up
    <2>6. DescriptorAccount'
      <3>1. Cardinality(Served') = Cardinality(Served) + 1
        BY <1>1, <2>2, <2>3, Sets, Add
      <3>2. configs = Cardinality(Served) + Cardinality(denied) + 1
        BY <1>1, Sets DEF IInv, DescriptorAccount, Bit
      <3>3. configs' = Cardinality(Served') + Cardinality(denied') + 0
        BY <1>1, <2>1, <3>1, <3>2, Sets
      <3>4. InUse' <= NoFile /\ denied' \cap Served' = {}
        BY <2>1, <2>2, <2>3 DEF IInv, DescriptorAccount, InUse
      <3> QED
        BY <2>1, <2>2, <2>3, <3>3, <3>4 DEF DescriptorAccount, Bit
    <2>7. Fresh'
      BY <1>1, <2>1, <2>2, <2>3 DEF IInv, Fresh
    <2> QED
      BY <2>4, <2>5, <2>6, <2>7 DEF IInv
  <1> QED
    BY <1>2, <1>3

LEMMA CloseOK == ASSUME IInv, Close PROVE IInv'
  <1>1. Up /\ pc = "close" /\ TypeOK
    BY DEF Close, Running, IInv
  <1>2. /\ held' = held \ {connfd} /\ pc' = "accept"
        /\ UNCHANGED <<backlog, begun, complete, gone, rule, connfd, configs, denied, cause, proc,
                       pending, handling>>
    BY DEF Close, clientVars, sigVars
  <1>3. Zombies' = Zombies /\ Served' = Served
    BY <1>2, SameChildren
  <1>4. TypeOK'
    BY <1>1, <1>2 DEF TypeOK
  <1>5. SignalMeansZombie' /\ EndHasCause'
    BY <1>1, <1>2, <1>3 DEF IInv, SignalMeansZombie, EndHasCause, Up
  <1>6. DescriptorAccount'
    <2>1. held' = denied'
      BY <1>1, <1>2, InHand
    <2>2. InUse <= NoFile /\ denied \cap Served = {}
          /\ configs = Cardinality(Served) + Cardinality(denied) + 0
      BY <1>1 DEF IInv, DescriptorAccount, Bit
    <2>3. InUse' <= NoFile
      <3>1. /\ Cardinality(held) = Cardinality(denied) + 1
            /\ Cardinality(held') = Cardinality(denied')
        <4>1. pc # "accept"
          BY <1>1
        <4>2. Cardinality(held') = Cardinality(denied')
          BY <2>1, Zenon
        <4> QED
          BY <4>1, <4>2, InHand
      <3>2. /\ Cardinality(denied) \in Nat /\ configs \in Nat /\ configs' = configs
            /\ denied' = denied
        BY <1>1, <1>2, Sets DEF TypeOK
      <3> QED
        BY <2>2, <3>1, <3>2, TwebsAssumption DEF InUse
    <2> QED
      BY <1>2, <1>3, <2>1, <2>2, <2>3 DEF DescriptorAccount, Bit
  <1>7. Fresh'
    BY <1>1, <1>2, <1>3 DEF IInv, Fresh
  <1> QED
    BY <1>4, <1>5, <1>6, <1>7 DEF IInv

\* Steps that change neither the server's descriptors nor which connections have
\* (had) a child.
LEMMA SameMain ==
    ASSUME IInv, Served' = Served, UNCHANGED <<clientVars, mainVars, cause>>
    PROVE  DescriptorAccount' /\ EndHasCause' /\ Fresh'
  BY DEF clientVars, mainVars, IInv, DescriptorAccount, EndHasCause, Fresh, InUse

LEMMA DeliverOK == ASSUME IInv, Deliver PROVE IInv'
  <1>1. /\ pending /\ ~handling /\ pending' = FALSE /\ handling' = TRUE
        /\ UNCHANGED <<clientVars, mainVars, cause, proc>>
    BY DEF Deliver, Running
  <1>2. Zombies' = Zombies /\ Served' = Served
    BY <1>1, SameChildren
  <1>3. TypeOK'
    <2>1. pending' \in BOOLEAN /\ handling' \in BOOLEAN
      BY <1>1
    <2> QED
      BY <1>1, <2>1 DEF clientVars, mainVars, IInv, TypeOK
  <1>4. SignalMeansZombie'
    <2>1. Bit(pending) = 1 /\ Bit(handling) = 0 /\ Bit(pending') = 0 /\ Bit(handling') = 1
      BY <1>1 DEF Bit
    <2>2. Cardinality(Zombies) >= Bit(pending) + Bit(handling)
      BY DEF IInv, SignalMeansZombie
    <2>3. Cardinality(Zombies') >= 0 + 1
      BY <1>2, <2>1, <2>2
    <2> QED
      BY <2>1, <2>3 DEF SignalMeansZombie, Bit
  <1> QED
    BY <1>1, <1>2, <1>3, <1>4, SameMain DEF IInv

\* The handler: there is a zombie, by SignalMeansZombie.
LEMMA ReapOK == ASSUME IInv, Reap PROVE IInv'
  <1>1. handling /\ handling' = FALSE /\ UNCHANGED <<clientVars, pending>> /\ TypeOK
    BY DEF Reap, IInv
  <1>2. /\ Bit(pending) \in {0, 1} /\ Bit(handling) = 1
        /\ Bit(handling') = 0 /\ Bit(pending') = Bit(pending)
    BY <1>1 DEF Bit
  <1>3. Cardinality(Zombies) >= Bit(pending) + 1
    BY <1>2 DEF IInv, SignalMeansZombie
  <1>4. Zombies # {}
    BY <1>2, <1>3, Empty
  <1>5. PICK c \in Zombies : proc' = [proc EXCEPT ![c] = "reaped"]
    BY <1>4 DEF Reap
  <1>6. UNCHANGED <<mainVars, cause>>
    BY <1>4 DEF Reap
  <1>7. Zombies' = Zombies \ {c} /\ Served' = Served /\ c \in Conns
    BY <1>1, <1>5 DEF Zombies, Served, TypeOK
  <1>8. SignalMeansZombie'
    <2>1. Cardinality(Zombies') = Cardinality(Zombies) - 1
      BY <1>1, <1>7, Sets, Remove
    <2>2. Cardinality(Zombies') >= Bit(pending) + 0
      BY <1>1, <1>2, <1>3, <2>1, Sets
    <2> QED
      BY <1>2, <2>2 DEF SignalMeansZombie, Bit
  <1>9. TypeOK'
    <2>1. proc' \in [Conns -> {"none", "run", "spin", "zombie", "reaped"}]
      BY <1>1, <1>5 DEF TypeOK
    <2>2. handling' \in BOOLEAN
      BY <1>1
    <2> QED
      BY <1>1, <1>6, <2>1, <2>2 DEF clientVars, mainVars, TypeOK
  <1> QED
    BY <1>1, <1>6, <1>7, <1>8, <1>9, SameMain DEF IInv

LEMMA ChildOK == ASSUME IInv, NEW c \in Conns, Child(c) PROVE IInv'
  <1>1. /\ proc[c] = "run" /\ TypeOK
        /\ UNCHANGED <<clientVars, mainVars, cause, handling>>
    BY DEF Child, ChildEnd, ChildSpins, sigVars, IInv
  <1>2. Cardinality(Zombies) >= Bit(pending) + Bit(handling)
        /\ Bit(pending) \in {0, 1} /\ Bit(handling) \in {0, 1}
    BY DEF IInv, SignalMeansZombie, Bit
  <1>3. CASE ChildEnd(c) /\ Up
    <2>1. proc' = [proc EXCEPT ![c] = "zombie"] /\ pending' = TRUE
      BY <1>3 DEF ChildEnd
    <2>2. Zombies' = Zombies \cup {c} /\ Served' = Served /\ c \notin Zombies
      BY <1>1, <2>1 DEF Zombies, Served, TypeOK
    <2>3. SignalMeansZombie'
      <3>1. Cardinality(Zombies') = Cardinality(Zombies) + 1
        BY <1>1, <2>2, Sets, Add
      <3>2. Bit(pending') = 1 /\ Bit(handling') = Bit(handling)
        BY <1>1, <2>1 DEF Bit
      <3>3. Cardinality(Zombies') >= 1 + Bit(handling)
        BY <1>1, <1>2, <3>1, Sets
      <3> QED
        BY <3>2, <3>3 DEF SignalMeansZombie, Bit
    <2>4. TypeOK'
      <3>1. proc' \in [Conns -> {"none", "run", "spin", "zombie", "reaped"}]
        BY <1>1, <2>1 DEF TypeOK
      <3>2. pending' \in BOOLEAN
        BY <2>1
      <3> QED
        BY <1>1, <3>1, <3>2 DEF clientVars, mainVars, TypeOK
    <2> QED
      BY <1>1, <2>2, <2>3, <2>4, SameMain DEF IInv
  <1>4. CASE ~(ChildEnd(c) /\ Up)
    <2>1. PICK v \in {"reaped", "spin"} :
             proc' = [proc EXCEPT ![c] = v] /\ UNCHANGED pending
      BY <1>4 DEF Child, ChildEnd, ChildSpins, sigVars
    <2>2. Zombies' = Zombies /\ Served' = Served
      BY <1>1, <2>1 DEF Zombies, Served, TypeOK
    <2>3. SignalMeansZombie'
      BY <1>1, <2>1, <2>2 DEF IInv, SignalMeansZombie
    <2>4. proc' \in [Conns -> {"none", "run", "spin", "zombie", "reaped"}]
      BY <1>1, <2>1 DEF TypeOK
    <2>5. TypeOK'
      BY <1>1, <2>1, <2>4 DEF clientVars, mainVars, TypeOK
    <2> QED
      BY <1>1, <2>2, <2>3, <2>5, SameMain DEF IInv
  <1> QED
    BY <1>3, <1>4

-----------------------------------------------------------------------------
(* The theorems. *)

LEMMA StepOK == IInv /\ [Next]_vars => IInv'
  <1> SUFFICES ASSUME IInv, [Next]_vars PROVE IInv'
    OBVIOUS
  <1>1. CASE UNCHANGED vars
    <2>1. UNCHANGED <<clientVars, mainVars, cause, proc, pending, handling>>
      BY <1>1 DEF vars, sigVars
    <2>2. Zombies' = Zombies /\ Served' = Served
      BY <2>1, SameChildren
    <2>3. TypeOK'
      BY <2>1 DEF clientVars, mainVars, IInv, TypeOK
    <2>4. SignalMeansZombie'
      BY <2>1, <2>2 DEF IInv, SignalMeansZombie
    <2> QED
      BY <2>1, <2>2, <2>3, <2>4, SameMain DEF IInv
  <1>2. CASE Quiet
    BY <1>1, <1>2 DEF Quiet
  <1>3. CASE \E c \in Conns : Client(c) \/ Child(c)
    BY <1>3, ConnectOK, ClientOK, ChildOK DEF Client
  <1>4. CASE Main
    BY <1>4, AcceptOK, AcceptFailsOK, AccessOK, DenyOK, DenyFailsOK, ForkOK, CloseOK DEF Main
  <1>5. CASE Deliver \/ Reap \/ EditConfig
    BY <1>5, DeliverOK, ReapOK, ClientOK
  <1> QED
    BY <1>1, <1>2, <1>3, <1>4, <1>5 DEF Next

\* The inductive invariant holds in every reachable state, for any number of
\* connections and any limits.
THEOREM Invariance == Spec => []IInv
  BY InitOK, StepOK, PTL DEF Spec

\* Type correctness of the accept loop, the signal and the children.
THEOREM TypeCorrect == Spec => []TypeOK
  <1>1. IInv => TypeOK
    BY DEF IInv
  <1> QED
    BY <1>1, Invariance, PTL

\* sig_chld_handler reaps at most one child per signal, signals are merged, and
\* yet every run of the handler finds a child to reap: its Waitpid never fails.
THEOREM HandlerFindsChild == Spec => []SignalMeansZombie
  <1>1. IInv => SignalMeansZombie
    BY DEF IInv
  <1> QED
    BY <1>1, Invariance, PTL

\* The descriptors that the server has open are those of the clients it refused,
\* the one in hand, and one config.ini for every connection it looked at.
THEOREM DescriptorsAccounted == Spec => []DescriptorAccount
  <1>1. IInv => DescriptorAccount
    BY DEF IInv
  <1> QED
    BY <1>1, Invariance, PTL

\* What can end the server, and what must have happened before.
THEOREM EndsOnlyForCause == Spec => []EndHasCause
  <1>1. IInv => EndHasCause
    BY DEF IInv
  <1> QED
    BY <1>1, Invariance, PTL

\* The server's life is bounded by its descriptors: each client served uses up
\* one of them for ever (config.ini), each client refused two.
THEOREM Lifetime ==
    Spec => [](BaseFds + Cardinality(Served) + 2 * Cardinality(denied) <= NoFile)
  <1>1. IInv => BaseFds + Cardinality(Served) + 2 * Cardinality(denied) <= NoFile
    <2> SUFFICES ASSUME IInv
                 PROVE  BaseFds + Cardinality(Served) + 2 * Cardinality(denied) <= NoFile
      OBVIOUS
    <2>1. TypeOK /\ InUse <= NoFile
      BY DEF IInv, DescriptorAccount
    <2>2. Cardinality(held) >= Cardinality(denied)
      <3>1. CASE pc = "accept"
        BY <2>1, <3>1, Sets DEF IInv, DescriptorAccount
      <3>2. CASE pc # "accept"
        BY <2>1, <3>2, InHand, Sets
      <3> QED
        BY <3>1, <3>2
    <2>3. configs >= Cardinality(Served) + Cardinality(denied)
      BY <2>1, Sets DEF IInv, DescriptorAccount, Bit
    <2>4. /\ BaseFds + Cardinality(held) + configs <= NoFile
          /\ configs \in Nat /\ BaseFds \in Nat /\ NoFile \in Nat
      BY <2>1, TwebsAssumption DEF InUse, TypeOK
    <2>5. /\ Cardinality(Served) \in Nat /\ Cardinality(denied) \in Nat
          /\ Cardinality(held) \in Nat
      BY <2>1, Sets
    <2> QED
      BY <2>2, <2>3, <2>4, <2>5
  <1> QED
    BY <1>1, Invariance, PTL
=============================================================================
