---------------------------- MODULE ProcessPool ----------------------------
(***************************************************************************)
(* ww/process_pool.hpp and main of ww/cgi_server.cpp: a parent that forks  *)
(* its children, hands them notices of new connections in turn, learns of  *)
(* their ends through SIGCHLD, a pipe and epoll, and ends after them.      *)
(*                                                                         *)
(* A child never enters the loop of RunChild, which runs while stop_ is    *)
(* set: it sets up its pipe and ends, so nothing ever accepts. The child's *)
(* handlers (ProcessNewConnInChild, ProcessSigInChild, CoreRunChild) are   *)
(* out of reach. A SIGTERM from the parent therefore changes nothing: a    *)
(* child may end at any moment with or without it.                         *)
(*                                                                         *)
(* The pid of child i is written i. The signal pipe holds some 270 bytes,  *)
(* more than the signals here, and recv takes 1024.                        *)
(***************************************************************************)
EXTENDS Integers, Sequences, FiniteSets

CONSTANTS N,       \* process_number
          MaxConns,\* connections that can be made: none is accepted, so the
                   \* backlog of listen and one more
          MaxSigs  \* SIGTERM and SIGINT sent to the parent (a bound)

ASSUME PoolAssumption == N \in Nat \ {0} /\ MaxConns \in Nat /\ MaxSigs \in Nat

Slots == 0..(N - 1)
NoPid == -1
Kills == {"TERM", "INT"}
Sigs  == {"CHLD"} \cup Kills

VARIABLES
    \* the parent
    phase,   \* "fork" (constructor), "setup" (SetupSigPipe), "wait"
             \* (epoll_wait), "batch" (its events); "exit", "abort", "killed"
    next,    \* processes forked by the constructor
    pid,     \* sub_process_[i].pid_
    pipe,    \* sub_process_[i].pipefd_[0] is open
    stop,    \* stop_
    counter, \* sub_process_counter
    batch,   \* events of epoll_wait still to be handled: "conn", "sig"
    sigs,    \* signals received from the pipe, still to be handled
    given,   \* of each slot: the notices sent to it
    strays,  \* targets of kill that were not unreaped children
    \* the kernel
    handled, \* signals that have their handler
    pending, \* signals the handler has not run for yet
    sigpipe, \* bytes in the signal pipe
    edges,   \* events the next epoll_wait reports (all are edge-triggered)
    child,   \* of each slot: "none", "run", "ended", "reaped"
    missed,  \* children that ended before SIGCHLD had its handler
    \* the outside
    conns,   \* connections made so far
    nsigs    \* signals sent so far

poolVars == <<pid, pipe, stop, counter, given>>
loopVars == <<next, batch, sigs, strays>>
sigVars  == <<handled, pending, sigpipe>>
outside  == <<conns, nsigs>>
kids == <<child, missed>>
vars == <<phase, poolVars, loopVars, sigVars, edges, kids, outside>>

Init == /\ phase = "fork" /\ next = 0
        /\ pid = [i \in Slots |-> NoPid] /\ pipe = [i \in Slots |-> FALSE]
        /\ stop = FALSE /\ counter = 0
        /\ batch = {} /\ sigs = <<>>
        /\ given = [i \in Slots |-> 0] /\ strays = {}
        /\ handled = {} /\ pending = {} /\ sigpipe = <<>> /\ edges = {}
        /\ child = [i \in Slots |-> "none"] /\ missed = {}
        /\ conns = 0 /\ nsigs = 0

Live    == {i \in Slots : pid[i] # NoPid}
Zombies == {i \in Slots : child[i] = "ended"}
Up      == phase \in {"fork", "setup", "wait", "batch"}

-----------------------------------------------------------------------------
(* The constructor and SetupSigPipe. *)

ForkChild ==
    /\ phase = "fork" /\ next < N
    /\ pid' = [pid EXCEPT ![next] = next]
    /\ pipe' = [pipe EXCEPT ![next] = TRUE]
    /\ child' = [child EXCEPT ![next] = "run"]
    /\ next' = next + 1
    /\ UNCHANGED <<phase, stop, counter, given, batch, sigs, strays, sigVars,
                   missed, edges, outside>>

\* Create returns the pool and main calls Run.
Created ==
    /\ phase = "fork" /\ next = N
    /\ phase' = "setup"
    /\ UNCHANGED <<poolVars, loopVars, sigVars, edges, kids, outside>>

\* An assert on socketpair, fork or epoll_create fails; the children made so
\* far go on alone.
Abort ==
    /\ phase \in {"fork", "setup"} /\ handled = {}
    /\ phase' = "abort"
    /\ UNCHANGED <<poolVars, loopVars, sigVars, edges, kids, outside>>

\* AddSig, for SIGCHLD, SIGTERM and SIGINT in this order. (SIGPIPE, ignored
\* from then on, could only come from the send of HandleConn.)
Install(s) ==
    /\ phase = "setup" /\ s \notin handled
    /\ s # "CHLD" => "CHLD" \in handled
    /\ s = "INT" => "TERM" \in handled
    /\ handled' = handled \cup {s}
    /\ UNCHANGED <<phase, poolVars, loopVars, pending, sigpipe, edges, kids,
                   outside>>

\* AddFD(epollfd_, listenfd_) reports the connections that wait already.
StartLoop ==
    /\ phase = "setup" /\ handled = Sigs
    /\ phase' = "wait"
    /\ edges' = IF conns > 0 THEN edges \cup {"conn"} ELSE edges
    /\ UNCHANGED <<poolVars, loopVars, sigVars, kids, outside>>

-----------------------------------------------------------------------------
(* Signals, the ends of children, and clients. *)

\* Someone sends the parent SIGTERM or SIGINT: without a handler it ends.
Signal(s) ==
    /\ Up /\ nsigs < MaxSigs
    /\ nsigs' = nsigs + 1
    /\ IF s \in handled
       THEN pending' = pending \cup {s} /\ UNCHANGED phase
       ELSE phase' = "killed" /\ UNCHANGED pending
    /\ UNCHANGED <<poolVars, loopVars, handled, sigpipe, edges, kids, conns>>

\* A child ends: at the end of main, by a signal or by an assert. Signals of
\* one kind merge, and one without a handler is discarded.
ChildEnds(i) ==
    /\ child[i] = "run"
    /\ child' = [child EXCEPT ![i] = "ended"]
    /\ IF "CHLD" \in handled
       THEN pending' = pending \cup {"CHLD"} /\ UNCHANGED missed
       ELSE missed' = missed \cup {i} /\ UNCHANGED pending
    /\ UNCHANGED <<phase, poolVars, loopVars, handled, sigpipe, edges, outside>>

\* [mutant] The byte is written before epoll knows the pipe.
DeliverNoEdge(s) ==
    /\ Up /\ s \in pending
    /\ pending' = pending \ {s}
    /\ sigpipe' = Append(sigpipe, s)
    /\ UNCHANGED <<phase, poolVars, loopVars, handled, edges, kids, outside>>

\* SigHandler writes the number of the signal to the pipe.
Deliver(s) ==
    /\ Up /\ s \in pending
    /\ pending' = pending \ {s}
    /\ sigpipe' = Append(sigpipe, s)
    /\ edges' = edges \cup {"sig"}
    /\ UNCHANGED <<phase, poolVars, loopVars, handled, kids, outside>>

Connect ==
    /\ Up /\ conns < MaxConns
    /\ conns' = conns + 1
    /\ edges' = IF phase \in {"wait", "batch"} THEN edges \cup {"conn"} ELSE edges
    /\ UNCHANGED <<phase, poolVars, loopVars, sigVars, kids, nsigs>>

-----------------------------------------------------------------------------
(* The loop of RunParent. *)

Wait ==
    /\ phase = "wait" /\ ~stop /\ edges # {}
    /\ phase' = "batch"
    /\ batch' = edges
    /\ edges' = {}
    /\ UNCHANGED <<poolVars, next, sigs, strays, sigVars, kids, outside>>

Smallest(S) == CHOOSE i \in S : \A j \in S : i <= j

\* The first live slot from the counter on, round the end.
NextSlot == LET on == {i \in Live : i >= counter}
            IN  Smallest(IF on # {} THEN on ELSE Live)

\* [mutant] The slot of the counter is used without a look at its pid.
HandleConnBlind ==
    /\ phase = "batch" /\ sigs = <<>> /\ "conn" \in batch
    /\ batch' = batch \ {"conn"}
    /\ IF pid[counter] = NoPid
       THEN stop' = TRUE /\ UNCHANGED <<counter, given>>
       ELSE /\ counter' = IF counter = N - 1 THEN 0 ELSE counter + 1
            /\ given' = [given EXCEPT ![counter] = @ + 1]
            /\ UNCHANGED stop
    /\ UNCHANGED <<phase, pid, pipe, next, sigs, strays, sigVars, edges, kids,
                   outside>>

\* [mutant] The counter moves on by one, whatever slots were skipped.
HandleConnCounts ==
    /\ phase = "batch" /\ sigs = <<>> /\ "conn" \in batch
    /\ batch' = batch \ {"conn"}
    /\ IF Live = {}
       THEN stop' = TRUE /\ UNCHANGED <<counter, given>>
       ELSE /\ counter' = IF counter = N - 1 THEN 0 ELSE counter + 1
            /\ given' = [given EXCEPT ![NextSlot] = @ + 1]
            /\ UNCHANGED stop
    /\ UNCHANGED <<phase, pid, pipe, next, sigs, strays, sigVars, edges, kids,
                   outside>>

\* ProcessNewConnInParent. Whether the child is still there to read the notice
\* makes no difference to the parent.
HandleConn ==
    /\ phase = "batch" /\ sigs = <<>> /\ "conn" \in batch
    /\ batch' = batch \ {"conn"}
    /\ IF Live = {}
       THEN stop' = TRUE /\ UNCHANGED <<counter, given>>
       ELSE /\ counter' = IF NextSlot = N - 1 THEN 0 ELSE NextSlot + 1
            /\ given' = [given EXCEPT ![NextSlot] = @ + 1]
            /\ UNCHANGED stop
    /\ UNCHANGED <<phase, pid, pipe, next, sigs, strays, sigVars, edges, kids,
                   outside>>

\* ProcessSigInParent receives what the pipe holds; nothing is no harm.
RecvSignals ==
    /\ phase = "batch" /\ sigs = <<>> /\ "sig" \in batch
    /\ batch' = batch \ {"sig"}
    /\ sigs' = sigpipe
    /\ sigpipe' = <<>>
    /\ UNCHANGED <<phase, poolVars, next, strays, handled, pending, edges, kids,
                   outside>>

Handling(S) == phase = "batch" /\ sigs # <<>> /\ Head(sigs) \in S

\* [mutant] The slot is marked free and its end of the pipe is forgotten.
ReapKeepsPipe(p) ==
    /\ Handling({"CHLD"}) /\ p \in Zombies
    /\ child' = [child EXCEPT ![p] = "reaped"]
    /\ pid' = [i \in Slots |-> IF pid[i] = p THEN NoPid ELSE pid[i]]
    /\ UNCHANGED <<phase, pipe, stop, counter, given, loopVars, sigVars, missed,
                   edges, outside>>

\* [mutant] The slot keeps the pid of the child that was reaped.
ReapKeepsPid(p) ==
    /\ Handling({"CHLD"}) /\ p \in Zombies
    /\ child' = [child EXCEPT ![p] = "reaped"]
    /\ pipe' = [i \in Slots |-> pipe[i] /\ pid[i] # p]
    /\ UNCHANGED <<phase, pid, stop, counter, given, loopVars, sigVars, missed,
                   edges, outside>>

\* waitpid returns p: its slot is freed.
Reap(p) ==
    /\ Handling({"CHLD"}) /\ p \in Zombies
    /\ child' = [child EXCEPT ![p] = "reaped"]
    /\ pid' = [i \in Slots |-> IF pid[i] = p THEN NoPid ELSE pid[i]]
    /\ pipe' = [i \in Slots |-> pipe[i] /\ pid[i] # p]
    /\ UNCHANGED <<phase, stop, counter, given, loopVars, sigVars, missed,
                   edges, outside>>

\* [mutant] One waitpid for each SIGCHLD, not as many as there are children.
AllReapedOnce ==
    /\ Handling({"CHLD"})
    /\ stop' = (Live = {})
    /\ sigs' = Tail(sigs)
    /\ UNCHANGED <<phase, pid, pipe, counter, given, next, batch, strays, sigVars,
                   edges, kids, outside>>

\* [mutant] stop_ is left set by the first free slot that is seen.
AllReapedAny ==
    /\ Handling({"CHLD"}) /\ Zombies = {}
    /\ stop' = (Live # Slots)
    /\ sigs' = Tail(sigs)
    /\ UNCHANGED <<phase, pid, pipe, counter, given, next, batch, strays, sigVars,
                   edges, kids, outside>>

\* waitpid has no more: the parent stops if no slot is in use.
AllReaped ==
    /\ Handling({"CHLD"}) /\ Zombies = {}
    /\ stop' = (Live = {})
    /\ sigs' = Tail(sigs)
    /\ UNCHANGED <<phase, pid, pipe, counter, given, next, batch, strays, sigVars,
                   edges, kids, outside>>

Unreaped == {i \in Slots : child[i] \in {"run", "ended"}}

\* [mutant] kill is called for every slot; -1 means every process there is.
KillAllSlots ==
    /\ Handling(Kills)
    /\ strays' = strays \cup ({pid[i] : i \in Slots} \ Unreaped)
    /\ sigs' = Tail(sigs)
    /\ UNCHANGED <<phase, poolVars, next, batch, sigVars, edges, kids, outside>>

\* SIGTERM to every slot in use.
KillAll ==
    /\ Handling(Kills)
    /\ strays' = strays \cup ({pid[i] : i \in Live} \ Unreaped)
    /\ sigs' = Tail(sigs)
    /\ UNCHANGED <<phase, poolVars, next, batch, sigVars, edges, kids, outside>>

BatchDone ==
    /\ phase = "batch" /\ sigs = <<>> /\ batch = {}
    /\ phase' = "wait"
    /\ UNCHANGED <<poolVars, loopVars, sigVars, edges, kids, outside>>

\* The end of RunParent and of main.
Exit ==
    /\ phase = "wait" /\ stop
    /\ phase' = "exit"
    /\ UNCHANGED <<poolVars, loopVars, sigVars, edges, kids, outside>>

Parent == \/ ForkChild \/ Created \/ StartLoop
          \/ \E s \in Sigs : Install(s)
          \/ Wait \/ HandleConn \/ RecvSignals
          \/ \E p \in Slots : Reap(p)
          \/ AllReaped \/ KillAll \/ BatchDone \/ Exit

Next == \/ Parent
        \/ Abort
        \/ \E s \in Kills : Signal(s)
        \/ \E s \in Sigs : Deliver(s)
        \/ \E i \in Slots : ChildEnds(i)
        \/ Connect

Spec == Init /\ [][Next]_vars

\* The parent is scheduled, handlers run, and every child comes to its end.
Fairness == /\ WF_vars(Parent)
            /\ \A s \in Sigs : WF_vars(Deliver(s))
            /\ \A i \in Slots : WF_vars(ChildEnds(i))

FairSpec == Spec /\ Fairness

-----------------------------------------------------------------------------
(* Properties. *)

\* Types.
TypeOK ==
    /\ phase \in {"fork", "setup", "wait", "batch", "exit", "abort", "killed"}
    /\ next \in 0..N /\ counter \in Slots /\ stop \in BOOLEAN
    /\ pid \in [Slots -> Slots \cup {NoPid}]
    /\ pipe \in [Slots -> BOOLEAN]
    /\ given \in [Slots -> Nat] /\ strays \subseteq Int
    /\ batch \subseteq {"conn", "sig"} /\ edges \subseteq {"conn", "sig"}
    /\ handled \subseteq Sigs /\ pending \subseteq Sigs
    /\ sigs \in Seq(Sigs) /\ sigpipe \in Seq(Sigs)
    /\ child \in [Slots -> {"none", "run", "ended", "reaped"}]
    /\ missed \subseteq Slots
    /\ conns \in Nat /\ nsigs \in Nat

\* The table of the parent is never behind the kernel: a slot holds the pid of
\* its own child exactly while that child exists or is a zombie, and the
\* parent's end of its pipe is open for exactly that time (lines 161 to 164,
\* 358 to 361).
SlotMatchesChild ==
    \A i \in Slots : /\ pid[i] = IF i \in Unreaped THEN i ELSE NoPid
                     /\ pipe[i] <=> i \in Unreaped

\* Word of a child's end is on its way to the parent.
Coming == \/ "CHLD" \in pending
          \/ \E n \in 1..Len(sigpipe) : sigpipe[n] = "CHLD"
          \/ \E n \in 1..Len(sigs) : sigs[n] = "CHLD"

\* While the parent runs and SIGCHLD has its handler, a child that has ended
\* and is not reaped is one the handler came too late for, or word of an end is
\* coming, which will have them all reaped, however many signals merged; and
\* what is in the pipe is in a report of epoll that is due or in hand (lines
\* 120 to 125, 188, 191, 351 to 364; the pipe is edge-triggered).
NoChildForgotten ==
    Up /\ "CHLD" \in handled =>
        /\ Zombies \subseteq missed \/ Coming
        /\ sigpipe # <<>> => "sig" \in edges \cup batch

\* The notices are spread evenly over the slots in use, whichever slots have
\* been freed between: those before the counter are one ahead (323 to 339).
Balanced ==
    \A i, j \in Live : i < j =>
        given[i] = given[j] + (IF i < counter /\ counter <= j THEN 1 ELSE 0)

\* kill reaches only children of the pool that have not been reaped: never -1,
\* which is every process, and never a pid that may belong to someone else by
\* now (377 to 380).
KillsOnlyOwn == strays = {}

\* The parent stops only when every child it has made has been reaped (365 to
\* 371, 331): it leaves no zombie and no child behind.
StopMeansNone == stop => \A i \in Slots : child[i] = "reaped"

\* A parent that has its handler of SIGCHLD while some child still runs ends,
\* whatever order the ends, the connections and other signals come in.
ParentEnds ==
    (Up /\ "CHLD" \in handled /\ \E i \in Slots : child[i] = "run") ~> ~Up

=============================================================================
