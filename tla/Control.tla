------------------------------ MODULE Control ------------------------------
(***************************************************************************)
(* How twebs is started, runs and is stopped: main of http_main.c up to    *)
(* its loop, parse_option.c, parse_config.c, secure_access.c, write_pid,   *)
(* and the script webserver.sh; several processes and several runs of the  *)
(* script at a time, one file config.ini that may be edited, one pid file. *)
(*                                                                         *)
(* The accept loop is in Twebs and a child in Doit: here a server takes a  *)
(* connection in one step, and a child ends at any moment, or forks the    *)
(* CGI program, which inherits the listening descriptor (none is           *)
(* close-on-exec) but not the name twebs.                                  *)
(***************************************************************************)
EXTENDS Integers, Sequences, FiniteSets

CONSTANTS MaxPid,   \* processes made in all (a bound)
          MaxEdits, \* edits of config.ini (a bound)
          Files,    \* names of the texts that config.ini may have
          Content,  \* of each: its lines
          ArgLists, \* command lines of those who start twebs by hand
          LogPaths, \* log paths that can be opened
          Clients,  \* addresses of clients, four octets each
          Octet,    \* the number of values of an octet
          Scripts   \* runs of webserver.sh

ASSUME ControlAssumption ==
    MaxPid \in Nat /\ MaxEdits \in Nat /\ Octet \in Nat \ {0}

Pids  == 1..MaxPid
NoPid == 0
None  == "none"

VARIABLES
    config,  \* the text config.ini has now
    edits,   \* edits made
    pidFile, \* the pid in pid.file, which is not there at first
    locked,  \* the mode with which pid.file was created forbids to open it
    used,    \* pids used
    pc,      \* of each process: where it is (see TypeOK)
    opts,    \* is_daemon, port_ptr (then port) and log_ptr of its main
    holds,   \* the port whose listening socket the process has open
    doomed,  \* processes sent SIGKILL that are not gone yet
    step,    \* of each script: where it is
    again,   \* it runs restart
    heard,   \* the servers that listened when it looked for processes to stop (of
             \* use to the properties only; forgotten when it starts one)
    targets, \* the processes that its skill has found
    job      \* the process it waits for

procVars   == <<pc, opts, holds>>
fileVars   == <<pidFile, locked>>
scriptVars == <<step, again, heard, targets, job>>
configVars == <<config, edits>>
vars == <<configVars, fileVars, used, procVars, doomed, scriptVars>>

NoOpts == [daemon |-> FALSE, port |-> None, log |-> None]

Init == /\ config \in Files /\ edits = 0
        /\ pidFile = NoPid /\ locked = FALSE
        /\ used = 0
        /\ pc = [p \in Pids |-> "none"]
        /\ opts = [p \in Pids |-> NoOpts] /\ holds = [p \in Pids |-> None]
        /\ doomed = {}
        /\ step = [s \in Scripts |-> "begin"] /\ again = [s \in Scripts |-> FALSE]
        /\ heard = [s \in Scripts |-> {}]
        /\ targets = [s \in Scripts |-> {}] /\ job = [s \in Scripts |-> NoPid]

Over     == {"exited", "launcher", "rule", "killed"}
Early    == {"port", "log", "daemon"}
Starting == Early \cup {"pid", "bind"}
At(p, l) == pc[p] = l /\ p \notin doomed

\* ps shows them under the name twebs; also those that are about to go.
Visible == {p \in Pids : pc[p] \in Starting \cup {"serve", "child"}}

\* Bound: a process is made only if each process that may still call Daemon
\* finds a pid.
Room(n) == used + Cardinality({p \in Pids : pc[p] \in Early}) + n <= MaxPid
Fresh   == used + 1

-----------------------------------------------------------------------------
(* config.ini, the options and the access rule. *)

Smallest(S) == CHOOSE n \in S : \A m \in S : n <= m
Largest(S)  == CHOOSE n \in S : \A m \in S : m <= n

\* The first line that has the key counts, comments aside.
Lines(file, key) == {n \in DOMAIN Content[file] : Content[file][n].key = key}
Value(file, key) == Content[file][Smallest(Lines(file, key))].value
Missing(key) == Lines(config, key) = {}
Getconfig(key) == Value(config, key)

\* parse_option: the last of several values counts; a wrong option, a missing
\* value, -h and -v all end the program.
Given(args, o) == {n \in DOMAIN args : args[n].opt = o}
LastArg(args, o) == IF Given(args, o) = {} THEN None
                    ELSE args[Largest(Given(args, o))].value
Refused(args) == \E o \in {"h", "v", "?", ":"} : Given(args, o) # {}

\* is_daemon has no value before parse_option sets it: without -d it is
\* anything.
Parsed(args) ==
    {[daemon |-> d, port |-> LastArg(args, "p"), log |-> LastArg(args, "l")]
        : d \in IF Given(args, "d") # {} THEN {TRUE} ELSE BOOLEAN}

\* An address with fewer parts than four is filled up with zeros. The mask is
\* not: count still counts the parts of the address.
Padded(ip) == [k \in 1..4 |-> IF k <= Len(ip) THEN ip[k] ELSE 0]

\* The bitwise & of C.
And[x \in Nat] ==
    [y \in Nat |-> IF x = 0 THEN 0
                   ELSE 2 * And[x \div 2][y \div 2] + (x % 2) * (y % 2)]

\* ipadd_to_longlong. (With 32 bits the sum may be negative. Sign extended, & and
\* = answer as they do here.)
Packed(ip) == ((ip[1] * Octet + ip[2]) * Octet + ip[3]) * Octet + ip[4]

\* In a mask with fewer than four parts strchr finds no dot: the process dies.
Crashes(rule) == Len(rule.mask) < 4

Octets == 0..Octet-1
Powers == {1, 2, 4, 8, 16, 32, 64, 128}

\* An octet is some whole bits. Clients have four octets, and the rules are made
\* of octets: atoi would take other numbers, and the sum would mix the parts.
ASSUME AddressAssumption ==
    /\ Octet \in Powers \cup {256}
    /\ Clients \subseteq [1..4 -> Octets]
    /\ \A f \in Files : Lines(f, "mask") # {} =>
          /\ Value(f, "mask").ip \in Seq(Octets)
          /\ Value(f, "mask").mask \in Seq(Octets)

\* [mutant] The mask is laid on the address of the rule.
AnswerMaskedRule(rule, client) ==
    And[Packed(Padded(rule.ip))][Packed(rule.mask)] = Packed(client)

\* access_ornot, otherwise.
Answer(rule, client) ==
    Packed(Padded(rule.ip)) = And[Packed(rule.mask)][Packed(client)]

-----------------------------------------------------------------------------
(* The main program, for a process p. *)

Becomes(p, l) == pc' = [pc EXCEPT ![p] = l] /\ UNCHANGED holds

\* exit, unix_error or a signal: the process, its memory and its socket go.
Ends(p, how) ==
    /\ pc' = [pc EXCEPT ![p] = how]
    /\ opts' = [opts EXCEPT ![p] = NoOpts]
    /\ holds' = [holds EXCEPT ![p] = None]
Exits(p) == Ends(p, "exited")

\* ./twebs with a command line.
Launch(args) ==
    /\ Room(2)
    /\ used' = Fresh
    /\ IF Refused(args)
       THEN Exits(Fresh)
       ELSE /\ Becomes(Fresh, "port")
            /\ \E o \in Parsed(args) : opts' = [opts EXCEPT ![Fresh] = o]

ByHand == /\ \E args \in ArgLists : Launch(args)
          /\ UNCHANGED <<configVars, fileVars, doomed, scriptVars>>

others == <<configVars, doomed, scriptVars>>

\* The port, from -p or from "http" in the file.
ReadPort(p) ==
    /\ At(p, "port")
    /\ IF opts[p].port = None /\ Missing("http") THEN Exits(p)
       ELSE /\ Becomes(p, "log")
            /\ opts' = IF opts[p].port # None THEN opts
                       ELSE [opts EXCEPT ![p].port = Getconfig("http")]
    /\ UNCHANGED <<others, fileVars, used>>

\* Fopen: exits if the file cannot be opened.
Opens(paths) == paths \cap LogPaths # {}

\* initlog. (Then "dir", read in the same step, has only to be there; its value
\* matters in Doit.)
LogPath(p) == IF opts[p].log # None THEN {opts[p].log}
              ELSE IF Missing("log") THEN {} ELSE {Getconfig("log")}
OpenLog(p) ==
    /\ At(p, "log")
    /\ IF ~Opens(LogPath(p)) \/ Missing("dir") THEN Exits(p)
       ELSE Becomes(p, "daemon") /\ UNCHANGED opts
    /\ UNCHANGED <<others, fileVars, used>>

\* [mutant] The pid is written before Daemon, not after it.
BackgroundAfterPid(p) ==
    /\ At(p, "daemon")
    /\ pidFile' = p
    /\ IF opts[p].daemon \/ (~Missing("daemon") /\ Getconfig("daemon") = "yes")
       THEN /\ used' = Fresh
            /\ pc' = [pc EXCEPT ![Fresh] = "bind", ![p] = "launcher"]
            /\ opts' = [opts EXCEPT ![Fresh] = opts[p], ![p] = NoOpts]
            /\ UNCHANGED holds
       ELSE Becomes(p, "bind") /\ UNCHANGED <<used, opts>>
    /\ UNCHANGED <<others, locked>>

\* A new process goes on, the first one exits.
Daemon(p) ==
    /\ Fresh \in Pids
    /\ used' = Fresh
    /\ pc' = [pc EXCEPT ![Fresh] = "pid", ![p] = "launcher"]
    /\ opts' = [opts EXCEPT ![Fresh] = opts[p], ![p] = NoOpts]
    /\ UNCHANGED holds

\* With -d the file is not asked. Daemon exits if it cannot fork.
Background(p) ==
    /\ At(p, "daemon")
    /\ IF ~opts[p].daemon /\ Missing("daemon")
       THEN Exits(p) /\ UNCHANGED used
       ELSE IF opts[p].daemon \/ Getconfig("daemon") = "yes"
       THEN Daemon(p) \/ (Exits(p) /\ UNCHANGED used)
       ELSE Becomes(p, "pid") /\ UNCHANGED <<used, opts>>
    /\ UNCHANGED <<others, fileVars>>

\* write_pid(1). open may fail, and then Close(-1) ends the program. It is given
\* no mode: the file gets any, and then the next open may have to fail.
WritePid(p) ==
    /\ At(p, "pid")
    /\ \/ Exits(p) /\ UNCHANGED fileVars
       \/ /\ ~locked
          /\ Becomes(p, "bind")
          /\ pidFile' = p
          /\ IF pidFile = NoPid THEN locked' \in BOOLEAN ELSE UNCHANGED locked
          /\ UNCHANGED opts
    /\ UNCHANGED <<others, used>>

\* [mutant] The children and CGI programs of a server are overlooked.
InUseByServer(port) == \E q \in Pids : pc[q] = "serve" /\ holds[q] = port

\* bind in open_listenfd: SO_REUSEADDR does not help while a process, of any
\* name, has the listening socket open. (Of two that bind before either listens,
\* the second fails in listen.)
InUse(port) == \E q \in Pids : holds[q] = port

\* Open_listenfd. It may fail for other reasons: a port below 1024 needs root,
\* another program may have it.
Bind(p) ==
    /\ At(p, "bind")
    /\ \/ Exits(p)
       \/ /\ ~InUse(opts[p].port)
          /\ pc' = [pc EXCEPT ![p] = "serve"]
          /\ holds' = [holds EXCEPT ![p] = opts[p].port]
          /\ opts' = [opts EXCEPT ![p] = NoOpts]
    /\ UNCHANGED <<others, fileVars, used>>

\* Accept, Fork, the Fopen of config.ini or the Rio_writen to a refused client
\* fails (Twebs says when); what the server has started keeps the socket.
ServerFails(p) ==
    /\ At(p, "serve")
    /\ Exits(p)
    /\ UNCHANGED <<others, fileVars, used>>

\* One turn of the loop: the mask is read anew for every connection. A refused
\* client leaves nothing behind that shows here.
Connection(p, client) ==
    /\ At(p, "serve") /\ Room(1)
    /\ IF Missing("mask") THEN Ends(p, "rule") /\ UNCHANGED used
       ELSE IF Crashes(Getconfig("mask")) THEN Ends(p, "rule") /\ UNCHANGED used
       ELSE IF Answer(Getconfig("mask"), client)
       THEN /\ used' = Fresh
            /\ pc' = [pc EXCEPT ![Fresh] = "child"]
            /\ holds' = [holds EXCEPT ![Fresh] = holds[p]]
            /\ UNCHANGED opts
       ELSE UNCHANGED <<used, procVars>>
    /\ UNCHANGED <<others, fileVars>>

\* A child starts a CGI program, which keeps the listening socket.
ForkCgi(p) ==
    /\ At(p, "child") /\ Room(1)
    /\ used' = Fresh
    /\ pc' = [pc EXCEPT ![Fresh] = "cgi"]
    /\ holds' = [holds EXCEPT ![Fresh] = holds[p]]
    /\ UNCHANGED <<others, fileVars, opts>>

ChildEnds(p) ==
    /\ At(p, "child") \/ At(p, "cgi")
    /\ Exits(p)
    /\ UNCHANGED <<others, fileVars, used>>

\* A process that was sent SIGKILL goes.
Gone(p) ==
    /\ p \in doomed
    /\ Ends(p, "killed")
    /\ doomed' = doomed \ {p}
    /\ UNCHANGED <<configVars, fileVars, used, scriptVars>>

Edit(f) ==
    /\ edits < MaxEdits /\ f # config
    /\ config' = f /\ edits' = edits + 1
    /\ UNCHANGED <<fileVars, used, procVars, doomed, scriptVars>>

-----------------------------------------------------------------------------
(* webserver.sh. *)

outside == <<configVars, fileVars, used, procVars>>

\* The argument: start, stop, or restart.
Command(s) ==
    /\ step[s] = "begin"
    /\ \/ step' = [step EXCEPT ![s] = "check start"] /\ UNCHANGED again
       \/ step' = [step EXCEPT ![s] = "check stop"] /\ UNCHANGED again
       \/ /\ step' = [step EXCEPT ![s] = "check stop"]
          /\ again' = [again EXCEPT ![s] = TRUE]
    /\ UNCHANGED <<outside, doomed, heard, targets, job>>

\* stop && start: stop always succeeds.
Stopped(s) ==
    /\ step' = [step EXCEPT ![s] = IF again[s] THEN "check start" ELSE "end"]
    /\ again' = [again EXCEPT ![s] = FALSE]

\* stop: run looks for processes; without any there is nothing to do.
CheckStop(s) ==
    /\ step[s] = "check stop"
    /\ IF Visible = {} THEN Stopped(s)
       ELSE step' = [step EXCEPT ![s] = "skill"] /\ UNCHANGED again
    /\ heard' = [heard EXCEPT ![s] = {p \in Pids : pc[p] = "serve"}]
    /\ UNCHANGED <<outside, doomed, targets, job>>

\* [mutant] The process in the pid file is killed.
SkillPidFile(s) ==
    /\ step[s] = "skill"
    /\ step' = [step EXCEPT ![s] = "kill"]
    /\ targets' = [targets EXCEPT ![s] = Visible \cap {pidFile}]
    /\ UNCHANGED <<outside, doomed, again, heard, job>>

\* skill -KILL twebs finds the processes of that name,
Skill(s) ==
    /\ step[s] = "skill"
    /\ step' = [step EXCEPT ![s] = "kill"]
    /\ targets' = [targets EXCEPT ![s] = Visible]
    /\ UNCHANGED <<outside, doomed, again, heard, job>>

\* and sends SIGKILL to one after the other.
SkillOne(s, p) ==
    /\ step[s] = "kill" /\ p \in targets[s]
    /\ targets' = [targets EXCEPT ![s] = @ \ {p}]
    /\ doomed' = IF p \in Visible THEN doomed \cup {p} ELSE doomed
    /\ UNCHANGED <<outside, step, again, heard, job>>

SkillDone(s) ==
    /\ step[s] = "kill" /\ targets[s] = {}
    /\ Stopped(s)
    /\ UNCHANGED <<outside, doomed, heard, targets, job>>

\* start: run looks for processes. It is all the same to it whether one that it
\* sees is a server, a child that outlived it, or about to go.
CheckStart(s) ==
    /\ step[s] = "check start"
    /\ step' = [step EXCEPT ![s] = IF Visible = {} THEN "launch" ELSE "end"]
    /\ UNCHANGED <<outside, doomed, again, heard, targets, job>>

ScriptLaunch(s) ==
    /\ step[s] = "launch"
    /\ Launch(<<>>)
    /\ step' = [step EXCEPT ![s] = "wait"]
    /\ job' = [job EXCEPT ![s] = Fresh]
    /\ heard' = [heard EXCEPT ![s] = {}]
    /\ UNCHANGED <<configVars, fileVars, doomed, again, targets>>

\* The shell waits for ./twebs: for the launcher, if Daemon forks, else as long
\* as the server runs.
Waited(s) ==
    /\ step[s] = "wait" /\ pc[job[s]] \in Over
    /\ step' = [step EXCEPT ![s] = "end"]
    /\ job' = [job EXCEPT ![s] = NoPid]
    /\ UNCHANGED <<outside, doomed, again, heard, targets>>

StartStep(p) == \/ ReadPort(p) \/ OpenLog(p) \/ Background(p)
                \/ WritePid(p) \/ Bind(p)
ScriptStep(s) == \/ CheckStop(s) \/ Skill(s) \/ SkillDone(s)
                 \/ \E p \in Pids : SkillOne(s, p)
                 \/ CheckStart(s) \/ Waited(s)

Next == \/ ByHand
        \/ \E p \in Pids :
              \/ StartStep(p) \/ ServerFails(p) \/ ForkCgi(p) \/ ChildEnds(p) \/ Gone(p)
              \/ \E d \in Clients : Connection(p, d)
        \/ \E f \in Files : Edit(f)
        \/ \E s \in Scripts : Command(s) \/ ScriptStep(s) \/ ScriptLaunch(s)

Spec == Init /\ [][Next]_vars

-----------------------------------------------------------------------------
(* Properties. *)

\* Types.
TypeOK ==
    /\ config \in Files /\ edits \in Nat
    /\ pidFile \in Pids \cup {NoPid} /\ locked \in BOOLEAN
    /\ used \in 0..MaxPid
    /\ pc \in [Pids -> Starting \cup Over \cup {"none", "serve", "child", "cgi"}]
    /\ doomed \subseteq Pids
    /\ step \in [Scripts -> {"begin", "check stop", "skill", "kill",
                             "check start", "launch", "wait", "end"}]
    /\ again \in [Scripts -> BOOLEAN]
    /\ heard \in [Scripts -> SUBSET Pids] /\ targets \in [Scripts -> SUBSET Pids]
    /\ job \in [Scripts -> Pids \cup {NoPid}]

\* pid.file names a process that has its final pid: never a launcher that
\* Daemon leaves behind, a child or a CGI program, whichever starts overlap
\* (http_main.c:55 to 58).
PidIsFinal ==
    pidFile # NoPid => pc[pidFile] \in {"bind", "serve", "exited", "rule", "killed"}

\* Whatever starts, fails, forks and is killed: no two servers have one port, and
\* a new server never shares it with what an older one left running. What else
\* has its socket it, or a child of it, has started (wrap.c:688 to 715).
OneService ==
    \A p, q \in Pids : pc[p] = "serve" /\ q # p /\ holds[q] = holds[p] =>
        q > p /\ pc[q] \in {"child", "cgi"}

\* "if the process is running, the interger in the pid file is the pid"
\* (http_main.c:412). A start that overlaps, and may yet fail for want of the
\* port, overwrites the pid of a server that runs.
PidFileNamesServer == \A p \in Pids : pc[p] = "serve" => pidFile = p

\* A server that listens when webserver.sh stop, or restart, looks for
\* processes has been killed when the script goes on, whatever the pid file
\* says and whoever else starts and stops meanwhile (webserver.sh:33 to 38).
StopReachesServer ==
    \A s \in Scripts : step[s] \in {"check start", "launch", "wait", "end"} =>
        \A p \in heard[s] : p \in doomed \/ pc[p] \in Over

\* The arithmetic of secure_access.c on packed addresses is what its comment
\* (4 to 6) says of the parts: a client is served if and only if its bits
\* under the mask are the address of the rule.
Bits(x) == {b \in Powers : (x \div b) % 2 = 1}
InNetwork(rule, client) ==
    \A k \in 1..4 : Bits(IF k \in DOMAIN rule.ip THEN rule.ip[k] ELSE 0)
                        = Bits(rule.mask[k]) \cap Bits(client[k])
AccessByNetwork ==
    (\E p \in Pids : At(p, "serve")) /\ ~Missing("mask") =>
        LET rule == Getconfig("mask")
        IN  \/ Crashes(rule)
            \/ \A c \in Clients : Answer(rule, c) <=> InNetwork(rule, c)

=============================================================================
