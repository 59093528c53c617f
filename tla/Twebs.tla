------------------------------- MODULE Twebs -------------------------------
(***************************************************************************)
(* http_main.c: the process that accepts, one child process per            *)
(* connection, and the handler of SIGCHLD that reaps the children.         *)
(*                                                                         *)
(* What a child does with its connection is doit: here it ends once its    *)
(* client has sent a whole request or reset the connection, and never when *)
(* the client ends the stream inside the headers (the loop of              *)
(* get_requesthdrs); module Doit shows both. The programs that children    *)
(* start are not counted.                                                  *)
(***************************************************************************)
EXTENDS Integers, Sequences, FiniteSets

CONSTANTS Conns,    \* the connections that clients make
          NoConn,
          BaseFds,  \* descriptors in use when the loop starts
          NoFile,   \* the limit on descriptors (RLIMIT_NOFILE)
          MaxProc,  \* the limit on processes (RLIMIT_NPROC), zombies included
          Backlog   \* LISTENQ

ASSUME TwebsAssumption ==
    /\ IsFiniteSet(Conns) /\ NoConn \notin Conns
    /\ BaseFds \in Nat /\ NoFile \in Nat /\ BaseFds <= NoFile
    /\ MaxProc \in Nat /\ Backlog \in Nat

VARIABLES
    \* the clients
    backlog,   \* connections that wait for accept, in order
    begun,     \* connections made so far
    complete,  \* those whose request has arrived, as far as doit reads it
    gone,      \* those whose client has left
    \* config.ini, which may be edited while the server runs
    rule,      \* what it has for access_ornot: "ok", or "bad" (see Access)
    \* the server
    pc,        \* "accept", "access", "deny", "fork" or "close"
    connfd,    \* the connection in hand
    held,      \* connections whose descriptor the server has open
    configs,   \* files opened by Getconfig since the loop started
    denied,    \* connections refused by access_ornot
    cause,     \* what ended the process: "no" while it runs
    \* the children
    proc,      \* of each connection: "none", "run", "spin", "zombie", "reaped"
    pending,   \* SIGCHLD is pending for the server
    handling   \* sig_chld_handler has been entered

clientVars == <<backlog, begun, complete, gone, rule>>
mainVars   == <<pc, connfd, held, configs, denied>>
sigVars    == <<pending, handling>>
vars == <<clientVars, mainVars, cause, proc, sigVars>>

Init == /\ backlog = <<>> /\ begun = {} /\ complete = {} /\ gone = {}
        /\ rule \in {"ok", "bad"}
        /\ pc = "accept" /\ connfd = NoConn
        /\ held = {} /\ configs = 0 /\ denied = {}
        /\ cause = "no"
        /\ proc = [c \in Conns |-> "none"]
        /\ pending = FALSE /\ handling = FALSE

Up == cause = "no"

\* unix_error writes a message and calls exit(0).
Exit(why) == cause' = why /\ UNCHANGED mainVars

InUse == BaseFds + Cardinality(held) + configs
Alive(c) == proc[c] \in {"run", "spin"}
Zombies == {c \in Conns : proc[c] = "zombie"}
Processes == {c \in Conns : Alive(c)} \cup Zombies

-----------------------------------------------------------------------------
(* The clients. *)

Connect(c) ==
    /\ Up /\ c \notin begun /\ Len(backlog) < Backlog
    /\ begun' = begun \cup {c}
    /\ backlog' = Append(backlog, c)
    /\ UNCHANGED <<complete, gone, rule, mainVars, cause, proc, sigVars>>

SendRequest(c) ==
    /\ c \in begun \ (complete \cup gone)
    /\ complete' = complete \cup {c}
    /\ UNCHANGED <<backlog, begun, gone, rule, mainVars, cause, proc, sigVars>>

Leave(c) ==
    /\ c \in begun \ gone
    /\ gone' = gone \cup {c}
    /\ UNCHANGED <<backlog, begun, complete, rule, mainVars, cause, proc, sigVars>>

\* Somebody edits, removes or restores config.ini. (Edits after the server's end
\* do not matter.)
EditConfig ==
    /\ Up
    /\ rule' \in {"ok", "bad"} \ {rule}
    /\ UNCHANGED <<backlog, begun, complete, gone, mainVars, cause, proc, sigVars>>

-----------------------------------------------------------------------------
(* The loop of main. The handler interrupts it anywhere. *)

Running == Up /\ ~handling

\* Accept: without a free descriptor it ends the server.
Accept ==
    /\ Running /\ pc = "accept" /\ backlog # <<>>
    /\ IF InUse < NoFile
       THEN /\ backlog' = Tail(backlog)
            /\ connfd' = Head(backlog)
            /\ held' = held \cup {Head(backlog)}
            /\ pc' = "access"
            /\ UNCHANGED <<configs, denied, cause>>
       ELSE Exit("accept") /\ UNCHANGED backlog
    /\ UNCHANGED <<begun, complete, gone, rule, proc, sigVars>>

\* The client whose turn it is has gone: accept may fail with ECONNABORTED.
AcceptFails ==
    /\ Running /\ pc = "accept" /\ backlog # <<>> /\ Head(backlog) \in gone
    /\ Exit("abort")
    /\ UNCHANGED <<clientVars, proc, sigVars>>

\* access_ornot: Getconfig opens config.ini, and nothing closes it. Without a
\* free descriptor Fopen ends the server. So does a bad config.ini: a file that
\* is not there (Fopen), one without a line for mask (exit), and a rule that
\* access_ornot cannot take apart, as a mask with fewer than four parts (strchr
\* finds no dot: SIGSEGV).
Access ==
    /\ Running /\ pc = "access"
    /\ IF InUse >= NoFile THEN Exit("config")
       ELSE IF rule = "bad" THEN Exit("rule")
       ELSE /\ configs' = configs + 1
            /\ pc' \in {"deny", "fork"}
            /\ UNCHANGED <<connfd, held, denied, cause>>
    /\ UNCHANGED <<clientVars, proc, sigVars>>

\* [mutant] The server waits until a refused client has closed.
DenyLingers ==
    /\ Running /\ pc = "deny"
    /\ connfd \in gone
    /\ denied' = denied \cup {connfd}
    /\ pc' = "accept"
    /\ UNCHANGED <<clientVars, connfd, held, configs, cause, proc, sigVars>>

\* A refused client gets an error page from the server itself; connfd stays
\* open.
Deny ==
    /\ Running /\ pc = "deny"
    /\ denied' = denied \cup {connfd}
    /\ pc' = "accept"
    /\ UNCHANGED <<clientVars, connfd, held, configs, cause, proc, sigVars>>

\* The refused client has closed its end: SIGPIPE, or Rio_writen, ends the
\* server.
DenyFails ==
    /\ Running /\ pc = "deny" /\ connfd \in gone
    /\ Exit("pipe")
    /\ UNCHANGED <<clientVars, proc, sigVars>>

\* Fork: without a free process it ends the server.
Fork ==
    /\ Running /\ pc = "fork"
    /\ IF Cardinality(Processes) < MaxProc
       THEN /\ proc' = [proc EXCEPT ![connfd] = "run"]
            /\ pc' = "close"
            /\ UNCHANGED <<connfd, held, configs, denied, cause>>
       ELSE Exit("fork") /\ UNCHANGED proc
    /\ UNCHANGED <<clientVars, sigVars>>

\* [mutant] The parent keeps its copy of the descriptor.
CloseForgotten ==
    /\ Running /\ pc = "close"
    /\ pc' = "accept"
    /\ UNCHANGED <<clientVars, connfd, held, configs, denied, cause, proc,
                   sigVars>>

\* The parent closes its copy of the descriptor.
Close ==
    /\ Running /\ pc = "close"
    /\ held' = held \ {connfd}
    /\ pc' = "accept"
    /\ UNCHANGED <<clientVars, connfd, configs, denied, cause, proc, sigVars>>

-----------------------------------------------------------------------------
(* The signal. *)

\* [mutant] Signal does not set SA_RESTART: accept fails with EINTR.
DeliverNoRestart ==
    /\ Running /\ pending
    /\ pending' = FALSE
    /\ IF pc = "accept" /\ backlog = <<>>
       THEN Exit("intr") /\ UNCHANGED handling
       ELSE handling' = TRUE /\ UNCHANGED <<mainVars, cause>>
    /\ UNCHANGED <<clientVars, proc>>

\* sig_chld_handler is entered; further SIGCHLDs wait (and are merged). An
\* interrupted accept or write is restarted (SA_RESTART).
Deliver ==
    /\ Running /\ pending
    /\ pending' = FALSE
    /\ handling' = TRUE
    /\ UNCHANGED <<clientVars, mainVars, cause, proc>>

\* [mutant] The handler reaps in a loop, until Waitpid finds no ended child.
ReapAll ==
    /\ Up /\ handling
    /\ handling' = FALSE
    /\ proc' = [c \in Conns |-> IF c \in Zombies THEN "reaped" ELSE proc[c]]
    /\ IF \E c \in Conns : Alive(c) THEN UNCHANGED <<mainVars, cause>>
       ELSE Exit("wait")
    /\ UNCHANGED <<clientVars, pending>>

\* Waitpid(-1, NULL, WNOHANG) reaps one child, whichever; it returns 0 when none
\* has ended; without any child it fails and ends the server.
Reap ==
    /\ Up /\ handling
    /\ handling' = FALSE
    /\ IF Zombies # {}
       THEN /\ \E c \in Zombies : proc' = [proc EXCEPT ![c] = "reaped"]
            /\ UNCHANGED <<mainVars, cause>>
       ELSE /\ UNCHANGED proc
            /\ IF \E c \in Conns : Alive(c) THEN UNCHANGED <<mainVars, cause>>
               ELSE Exit("wait")
    /\ UNCHANGED <<clientVars, pending>>

-----------------------------------------------------------------------------
(* The children. *)

\* [mutant] The child goes on with main's loop after doit.
ChildEndStays(c) ==
    /\ proc[c] = "run"
    /\ c \in complete \cup gone
    /\ proc' = [proc EXCEPT ![c] = "spin"]
    /\ UNCHANGED <<clientVars, mainVars, cause, sigVars>>

\* doit returns, or an error ends the child. SIGCHLD is one bit: a second child
\* that ends before the first signal is delivered leaves no trace in it. When
\* the server has ended, another process reaps its children.
ChildEnd(c) ==
    /\ proc[c] = "run"
    /\ c \in complete \cup gone
    /\ IF Up THEN proc' = [proc EXCEPT ![c] = "zombie"] /\ pending' = TRUE
       ELSE proc' = [proc EXCEPT ![c] = "reaped"] /\ UNCHANGED pending
    /\ UNCHANGED <<clientVars, mainVars, cause, handling>>

\* The stream ends inside the headers: Rio_readlineb returns 0 for ever and
\* leaves the last line in the buffer.
ChildSpins(c) ==
    /\ proc[c] = "run"
    /\ c \in gone \ complete
    /\ proc' = [proc EXCEPT ![c] = "spin"]
    /\ UNCHANGED <<clientVars, mainVars, cause, sigVars>>

-----------------------------------------------------------------------------
\* The server has ended, or waits for clients, and nobody comes.
Quiet == /\ ~Up \/ (pc = "accept" /\ backlog = <<>> /\ ~handling /\ ~pending)
         /\ UNCHANGED vars

Client(c) == Connect(c) \/ SendRequest(c) \/ Leave(c)
Main == Accept \/ AcceptFails \/ Access \/ Deny \/ DenyFails \/ Fork \/ Close
Child(c) == ChildEnd(c) \/ ChildSpins(c)

Next == \/ \E c \in Conns : Client(c) \/ Child(c)
        \/ Main \/ Deliver \/ Reap
        \/ EditConfig
        \/ Quiet

Spec == Init /\ [][Next]_vars

\* Processes that can run do run, and a signal is delivered. A child whose
\* client has sent its request ends: the client reads the response or leaves.
\* Nothing is assumed about clients that send nothing.
FairSpec == /\ Spec
            /\ WF_vars(Main) /\ WF_vars(Deliver) /\ WF_vars(Reap)
            /\ \A c \in Conns : WF_vars(Child(c))

-----------------------------------------------------------------------------
(* Properties. *)

TypeOK ==
    /\ backlog \in Seq(Conns)
    /\ begun \in SUBSET Conns /\ complete \in SUBSET Conns
    /\ gone \in SUBSET Conns
    /\ rule \in {"ok", "bad"}
    /\ pc \in {"accept", "access", "deny", "fork", "close"}
    /\ connfd \in Conns \cup {NoConn}
    /\ held \in SUBSET Conns
    /\ configs \in Nat
    /\ denied \in SUBSET Conns
    /\ cause \in {"no", "accept", "abort", "config", "rule", "pipe", "fork", "wait"}
    /\ proc \in [Conns -> {"none", "run", "spin", "zombie", "reaped"}]
    /\ pending \in BOOLEAN /\ handling \in BOOLEAN

Served == {c \in Conns : proc[c] # "none"}
Bit(b) == IF b THEN 1 ELSE 0

\* Every SIGCHLD that is pending or being handled has a child of its own to
\* reap: the handler's Waitpid finds one, and never ends the server because
\* there is none. (The reverse does not hold: merged signals leave zombies.)
SignalMeansZombie ==
    Cardinality(Zombies) >= Bit(pending) + Bit(handling)

\* What the server has open: the refused connections, for ever; the one in
\* hand; and one config.ini per connection it ever looked at. Nothing else: the
\* descriptors of the served are closed.
DescriptorAccount ==
    /\ InUse <= NoFile
    /\ held = denied \cup (IF pc = "accept" THEN {} ELSE {connfd})
    /\ pc # "accept" => connfd \in Conns \ denied
    /\ denied \cap Served = {}
    /\ pc \in {"access", "deny", "fork"} => connfd \notin Served
    /\ pc = "close" => connfd \in Served
    /\ configs = Cardinality(Served) + Cardinality(denied)
                   + Bit(pc \in {"deny", "fork"})

\* The server ends itself only when its descriptors are used up (by the
\* connections it has served and refused, one each and one more each that was
\* refused), when as many children as there may be processes were started, on a
\* config.ini without a rule that it can read, or on a client that has gone
\* before it was accepted or refused. SIGCHLD never ends it. (NoFile and MaxProc
\* are the limits of this process; the system's tables and memory suffice, and
\* nobody kills it.)
EndHasCause ==
    LET used == BaseFds + Cardinality(Served) + 2 * Cardinality(denied) IN
    /\ cause = "accept" => used >= NoFile
    /\ cause = "config" => used + 1 >= NoFile
    /\ cause = "fork" => Cardinality(Served) >= MaxProc
    /\ cause = "rule" => rule = "bad"
    /\ cause = "abort" => backlog # <<>> /\ Head(backlog) \in gone
    /\ cause = "pipe" => connfd \in gone
    /\ cause \notin {"wait", "intr"}

\* Connections are numbered once: a backlog without duplicates, of connections
\* that nobody has looked at.
Fresh ==
    /\ \A i \in DOMAIN backlog :
          /\ backlog[i] \in begun \ (Served \cup denied)
          /\ pc # "accept" => backlog[i] # connfd
          /\ \A j \in DOMAIN backlog : backlog[i] = backlog[j] => i = j
    /\ Served \cup denied \subseteq begun
    /\ pc # "accept" => connfd \in begun

IInv == TypeOK /\ SignalMeansZombie /\ DescriptorAccount /\ EndHasCause /\ Fresh

\* A client that was accepted and has sent its request sees the connection
\* closed: neither its child nor the server keeps a copy of the descriptor.
ServedIsClosed ==
    \A c \in Conns :
        (proc[c] = "run" /\ c \in complete)
            ~> (~Alive(c) /\ (c \notin held \/ ~Up))

\* Whatever other clients do, a client that connects is accepted, or the server
\* has ended.
BacklogIsServed ==
    \A c \in Conns : (\E i \in DOMAIN backlog : backlog[i] = c)
                        ~> (~Up \/ \A i \in DOMAIN backlog : backlog[i] # c)
=============================================================================
