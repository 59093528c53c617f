--------------------------- MODULE ControlProofs ---------------------------
(***************************************************************************)
(* Proofs about Control for any number of processes, scripts and edits,    *)
(* any texts of config.ini and any command lines.                          *)
(***************************************************************************)
EXTENDS Control, FiniteSetTheorems, WellFoundedInduction, TLAPS

Places == Starting \cup Over \cup {"none", "serve", "child", "cgi"}

\* Pids are used in order, and only a process can be killed.
Made == /\ \A p \in Pids : p > used => pc[p] = "none"
        /\ \A p \in doomed : pc[p] # "none"

\* The part of TypeOK that is about scripts.
ScriptTypes ==
    /\ step \in [Scripts -> {"begin", "check stop", "skill", "kill",
                             "check start", "launch", "wait", "end"}]
    /\ again \in [Scripts -> BOOLEAN]
    /\ heard \in [Scripts -> SUBSET Pids] /\ targets \in [Scripts -> SUBSET Pids]
    /\ job \in [Scripts -> Pids \cup {NoPid}]

\* What becomes of the servers that a script saw listening.
Reached(s) ==
    /\ step[s] = "begin" => heard[s] = {}
    /\ step[s] = "skill" =>
          \A p \in heard[s] : p \in doomed \/ pc[p] \in Over \/ pc[p] = "serve"
    /\ step[s] = "kill" =>
          \A p \in heard[s] : \/ p \in doomed \/ pc[p] \in Over
                              \/ pc[p] = "serve" /\ p \in targets[s]
    /\ step[s] \in {"check start", "launch", "wait", "end"} =>
          \A p \in heard[s] : p \in doomed \/ pc[p] \in Over
AllReached == \A s \in Scripts : Reached(s)

IInv == TypeOK /\ Made /\ PidIsFinal /\ AllReached

\* What no step undoes: a process that is over stays so, one that was sent
\* SIGKILL goes, and a server serves until it ends.
Kept == \A p \in Pids :
          /\ pc[p] \in Over => pc'[p] \in Over
          /\ p \in doomed => p \in doomed' \/ pc'[p] \in Over
          /\ pc[p] = "serve" => pc'[p] = "serve" \/ pc'[p] \in Over

\* The part of the invariant that is about processes, after a step.
ProcessesOK == /\ TypeOK' /\ Made' /\ PidIsFinal' /\ Kept

LEMMA CountType == TypeOK => used \in 0..MaxPid
  BY DEF TypeOK

\* Where the bound leaves room there is a pid.
LEMMA RoomForOne ==
    ASSUME TypeOK, NEW n \in Nat \ {0}, Room(n)
    PROVE  Fresh \in Pids
  <1> DEFINE early == {p \in Pids : pc[p] \in Early}
  <1>1. IsFiniteSet(Pids)
    BY FS_Interval, ControlAssumption DEF Pids
  <1>2. Cardinality(early) \in Nat
    BY <1>1, FS_Subset, FS_CardinalityType
  <1> HIDE DEF early
  <1>3. used + Cardinality(early) + n <= MaxPid
    BY DEF Room, early
  <1>4. used \in Nat /\ MaxPid \in Nat
    BY ControlAssumption, CountType
  <1>5. used + 1 <= MaxPid
    BY <1>2, <1>3, <1>4
  <1> QED
    BY <1>4, <1>5 DEF Fresh, Pids

LEMMA InitOK == Init => IInv
  <1> SUFFICES ASSUME Init PROVE IInv
    OBVIOUS
  <1>2. used \in 0..MaxPid /\ NoPid \notin Pids
    BY ControlAssumption DEF Init, Pids, NoPid
  <1>1. TypeOK
    BY <1>2 DEF Init, TypeOK
  <1> QED
    BY <1>1 DEF Init, IInv, Made, PidIsFinal, AllReached, Reached, NoPid

\* A process that ends, for whatever reason but Daemon.
LEMMA EndsOK ==
    ASSUME TypeOK, Made, PidIsFinal,
           NEW p \in Pids, pc[p] # "none",
           NEW how \in {"exited", "rule", "killed"}, Ends(p, how),
           UNCHANGED <<configVars, fileVars, used, scriptVars>>,
           doomed' \in {doomed, doomed \ {p}}
    PROVE  ProcessesOK
  <1> USE DEF Ends, configVars, fileVars, scriptVars, Over
  <1>1. TypeOK'
    BY DEF TypeOK
  <1>2. Made'
    BY DEF TypeOK, Made
  <1>3. PidIsFinal'
    BY DEF TypeOK, PidIsFinal
  <1>4. Kept
    BY DEF TypeOK, Kept
  <1> QED
    BY <1>1, <1>2, <1>3, <1>4 DEF ProcessesOK

\* A new process, after which the one that made it is where it was, or, if it
\* is a launcher, over.
LEMMA NewOK ==
    ASSUME TypeOK, Made, PidIsFinal, Fresh \in Pids, used' = Fresh,
           NEW l \in Places \ {"none"}, NEW p \in Pids,
           \/ pc' = [pc EXCEPT ![Fresh] = l]
           \/ pc[p] = "daemon" /\ pc' = [pc EXCEPT ![Fresh] = l, ![p] = "launcher"],
           UNCHANGED <<configVars, fileVars, doomed>>,
           ScriptTypes'
    PROVE  ProcessesOK
  <1> USE DEF configVars, fileVars, scriptVars
  <1>1. Fresh \in 1..MaxPid /\ Fresh = used + 1 /\ used \in Nat
    BY ControlAssumption, CountType DEF Fresh, Pids
  <1>2. pc[Fresh] = "none"
    BY <1>1 DEF Made, Pids
  <1>3. pc' \in [Pids -> Places]
    BY DEF TypeOK, Places, Over
  <1>8. used' \in 0..MaxPid
    BY <1>1
  <1>4. TypeOK'
    BY <1>3, <1>8 DEF TypeOK, Places, ScriptTypes
  <1>9. \A q \in Pids : q > used' => q > used /\ q # Fresh
    BY <1>1, ControlAssumption DEF Pids
  <1>10. \A q \in Pids : pc[q] # "none" => pc'[q] # "none"
    BY DEF TypeOK, Places
  <1>5. Made'
    <2>1. \A q \in Pids : q > used' => pc'[q] = "none"
      BY <1>9 DEF TypeOK, Made
    <2>2. \A q \in doomed' : pc'[q] # "none"
      BY <1>10 DEF TypeOK, Made
    <2> QED
      BY <2>1, <2>2 DEF Made
  <1>6. PidIsFinal'
    BY <1>2 DEF TypeOK, PidIsFinal
  <1>7. Kept
    BY <1>2 DEF TypeOK, Kept, Over
  <1> QED
    BY <1>4, <1>5, <1>6, <1>7 DEF ProcessesOK

\* A process that starts goes on.
LEMMA BecomesOK ==
    ASSUME TypeOK, Made, PidIsFinal,
           NEW p \in Pids, pc[p] \in Starting, NEW l \in Starting \cup {"serve"},
           pc' = [pc EXCEPT ![p] = l],
           UNCHANGED <<configVars, used, doomed, scriptVars>>,
           (pidFile' = pidFile /\ pidFile # p) \/ (pidFile' = p /\ l \in {"bind", "serve"}),
           locked' \in BOOLEAN
    PROVE  ProcessesOK
  <1> USE DEF configVars, scriptVars, Starting, Early
  <1>1. TypeOK'
    BY DEF TypeOK
  <1>2. Made'
    BY DEF TypeOK, Made
  <1>3. PidIsFinal'
    BY DEF TypeOK, PidIsFinal
  <1>4. Kept
    BY DEF TypeOK, Kept, Over
  <1> QED
    BY <1>1, <1>2, <1>3, <1>4 DEF ProcessesOK

LEMMA ScriptsTyped == TypeOK => ScriptTypes
  BY DEF TypeOK, ScriptTypes

LEMMA ByHandOK == IInv /\ ByHand => ProcessesOK /\ UNCHANGED scriptVars
  <1> SUFFICES ASSUME IInv, ByHand PROVE ProcessesOK /\ UNCHANGED scriptVars
    OBVIOUS
  <1>1. TypeOK /\ Made /\ PidIsFinal
    BY DEF IInv
  <1>2. UNCHANGED <<configVars, fileVars, doomed, scriptVars>>
    BY DEF ByHand
  <1>3. Room(2) /\ used' = Fresh
    BY DEF ByHand, Launch
  <1>4. \E l \in Places \ {"none"} : pc' = [pc EXCEPT ![Fresh] = l]
    BY DEF ByHand, Launch, Exits, Ends, Becomes, Places, Starting, Early, Over
  <1>5. Fresh \in Pids
    BY <1>1, <1>3, RoomForOne
  <1>6. ScriptTypes'
    BY <1>1, <1>2, ScriptsTyped DEF ScriptTypes, scriptVars
  <1> QED
    BY <1>1, <1>2, <1>3, <1>4, <1>5, <1>6, NewOK

\* The steps of a process that starts.
LEMMA StartStepOK ==
    ASSUME IInv, NEW p \in Pids, StartStep(p)
    PROVE  ProcessesOK /\ UNCHANGED scriptVars
  <1>1. TypeOK /\ Made /\ PidIsFinal
    BY DEF IInv
  <1>2. UNCHANGED <<configVars, doomed, scriptVars>>
    BY DEF StartStep, ReadPort, OpenLog, Background, WritePid, Bind, others
  <1>3. pc[p] \in Starting
    BY DEF StartStep, ReadPort, OpenLog, Background, WritePid, Bind, At, Starting, Early
  <1>4. CASE Exits(p) /\ UNCHANGED <<fileVars, used>>
    BY <1>1, <1>2, <1>3, <1>4, EndsOK DEF Exits, Starting, Early
  <1>5. pidFile = p => pc[p] = "bind"
    BY <1>3, ControlAssumption DEF IInv, PidIsFinal, Starting, Early, NoPid, Pids
  <1>6. ASSUME NEW l \in {"log", "daemon", "pid", "serve"},
               pc' = [pc EXCEPT ![p] = l], UNCHANGED <<fileVars, used>>,
               pc[p] = "bind" <=> l = "serve"
        PROVE  ProcessesOK
    <2>1. pidFile' = pidFile /\ locked' \in BOOLEAN
      BY <1>1, <1>6 DEF fileVars, TypeOK
    <2>2. pidFile # p \/ l \in {"bind", "serve"}
      BY <1>5, <1>6
    <2>3. l \in Starting \cup {"serve"}
      BY DEF Starting, Early
    <2>4. (pidFile' = pidFile /\ pidFile # p) \/ (pidFile' = p /\ l \in {"bind", "serve"})
      BY <2>1, <2>2
    <2> QED
      BY <1>1, <1>2, <1>3, <1>6, <2>1, <2>3, <2>4, BecomesOK
  <1>7. CASE ReadPort(p)
    BY <1>2, <1>4, <1>6, <1>7 DEF ReadPort, Becomes, At
  <1>8. CASE OpenLog(p)
    BY <1>2, <1>4, <1>6, <1>8 DEF OpenLog, Becomes, At
  <1>9. CASE Background(p)
    <2>1. CASE /\ Fresh \in Pids /\ used' = Fresh /\ pc[p] = "daemon"
               /\ pc' = [pc EXCEPT ![Fresh] = "pid", ![p] = "launcher"]
      <3>1. ScriptTypes'
        BY <1>1, <1>2, ScriptsTyped DEF ScriptTypes, scriptVars
      <3>2. UNCHANGED fileVars
        BY <1>9 DEF Background
      <3>3. "pid" \in Places \ {"none"}
        BY DEF Places, Starting
      <3> QED
        BY <1>1, <1>2, <2>1, <3>1, <3>2, <3>3, NewOK
    <2> QED
      BY <1>2, <1>4, <1>6, <1>9, <2>1 DEF Background, Daemon, Becomes, At
  <1>10. CASE WritePid(p)
    <2>1. CASE pc' = [pc EXCEPT ![p] = "bind"] /\ pidFile' = p /\ locked' \in BOOLEAN
               /\ used' = used
      <3>1. "bind" \in Starting \cup {"serve"} /\ "bind" \in {"bind", "serve"}
        BY DEF Starting
      <3> QED
        BY <1>1, <1>2, <1>3, <2>1, <3>1, BecomesOK
    <2>2. locked \in BOOLEAN
      BY <1>1 DEF TypeOK
    <2> QED
      BY <1>2, <1>4, <1>10, <2>1, <2>2 DEF WritePid, Becomes, others
  <1>11. CASE Bind(p)
    BY <1>2, <1>4, <1>6, <1>11 DEF Bind, At
  <1> QED
    BY <1>2, <1>7, <1>8, <1>9, <1>10, <1>11 DEF StartStep

\* The steps of a process that serves, of its children, and of SIGKILL.
LEMMA RunStepOK ==
    ASSUME IInv, NEW p \in Pids,
           \/ ServerFails(p) \/ ForkCgi(p) \/ ChildEnds(p) \/ Gone(p)
           \/ \E d \in Clients : Connection(p, d)
    PROVE  ProcessesOK /\ UNCHANGED scriptVars
  <1>1. TypeOK /\ Made /\ PidIsFinal
    BY DEF IInv
  <1>2. UNCHANGED <<configVars, fileVars, scriptVars>>
    BY DEF ServerFails, ForkCgi, ChildEnds, Gone, Connection, others
  <1>3. ScriptTypes'
    BY <1>1, <1>2, ScriptsTyped DEF ScriptTypes, scriptVars
  <1>4. ASSUME Room(1), used' = Fresh, UNCHANGED doomed, NEW l \in {"child", "cgi"},
               pc' = [pc EXCEPT ![Fresh] = l]
        PROVE  ProcessesOK
    <2>1. Fresh \in Pids
      BY <1>1, <1>4, RoomForOne
    <2>2. l \in Places \ {"none"}
      BY DEF Places
    <2> QED
      BY <1>1, <1>2, <1>3, <1>4, <2>1, <2>2, NewOK
  <1>5. CASE ForkCgi(p)
    BY <1>2, <1>4, <1>5 DEF ForkCgi, others
  <1>6. CASE ChildEnds(p)
    BY <1>1, <1>2, <1>6, EndsOK DEF ChildEnds, Exits, At, others
  <1>7. CASE Gone(p)
    BY <1>1, <1>2, <1>7, EndsOK DEF Gone, Made
  <1>9. CASE ServerFails(p)
    BY <1>1, <1>2, <1>9, EndsOK DEF ServerFails, Exits, At, others
  <1>8. ASSUME NEW d \in Clients, Connection(p, d)
        PROVE  ProcessesOK
    <2>1. UNCHANGED doomed /\ pc[p] # "none"
      BY <1>8 DEF Connection, others, At
    <2>2. CASE Ends(p, "rule") /\ UNCHANGED used
      BY <1>1, <1>2, <2>1, <2>2, EndsOK
    <2>3. CASE Room(1) /\ used' = Fresh /\ pc' = [pc EXCEPT ![Fresh] = "child"]
      BY <1>4, <2>1, <2>3
    <2>4. CASE UNCHANGED <<used, procVars>>
      <3> USE <1>1, <1>2, <2>1, <2>4 DEF configVars, fileVars, scriptVars, procVars
      <3>1. TypeOK'
        BY DEF TypeOK
      <3>2. Made'
        BY DEF Made
      <3>3. PidIsFinal'
        BY DEF PidIsFinal
      <3>4. Kept
        BY DEF Kept
      <3> QED
        BY <3>1, <3>2, <3>3, <3>4 DEF ProcessesOK
    <2> QED
      BY <1>8, <2>2, <2>3, <2>4 DEF Connection
  <1> QED
    BY <1>2, <1>5, <1>6, <1>7, <1>8, <1>9

\* What a step of a process keeps is enough for the scripts.
LEMMA ReachedKept ==
    ASSUME TypeOK, AllReached, Kept, UNCHANGED scriptVars
    PROVE  AllReached'
  <1> SUFFICES ASSUME NEW s \in Scripts PROVE Reached(s)'
    BY DEF AllReached
  <1>1. Reached(s) /\ heard[s] \in SUBSET Pids
    BY DEF AllReached, TypeOK
  <1> QED
    BY <1>1 DEF Reached, Kept, scriptVars

\* A process step as a whole.
LEMMA ProcessStepOK ==
    ASSUME IInv, ProcessesOK, UNCHANGED scriptVars
    PROVE  IInv'
  BY ReachedKept DEF IInv, ProcessesOK

\* A step of one script leaves what is known of the others.
LEMMA OthersReached ==
    ASSUME IInv, NEW s \in Scripts, Kept, TypeOK', Made', PidIsFinal', Reached(s)',
           \A r \in Scripts \ {s} : /\ step'[r] = step[r] /\ heard'[r] = heard[r]
                                    /\ targets'[r] = targets[r]
    PROVE  IInv'
  <1> SUFFICES ASSUME NEW r \in Scripts \ {s} PROVE Reached(r)'
    BY DEF IInv, AllReached
  <1>1. Reached(r) /\ heard[r] \in SUBSET Pids
    BY DEF IInv, AllReached, TypeOK
  <1> QED
    BY <1>1 DEF Reached, Kept

\* A step of a script that leaves the processes alone.
LEMMA QuietStep ==
    ASSUME IInv, NEW s \in Scripts, UNCHANGED outside, ScriptTypes',
           doomed \subseteq doomed', doomed' \in SUBSET {p \in Pids : pc[p] # "none"},
           Reached(s)',
           \A r \in Scripts \ {s} : /\ step'[r] = step[r] /\ heard'[r] = heard[r]
                                    /\ targets'[r] = targets[r]
    PROVE  IInv'
  <1> USE DEF outside, configVars, fileVars, procVars
  <1>1. TypeOK'
    BY DEF IInv, TypeOK, ScriptTypes
  <1>2. Made' /\ PidIsFinal'
    BY DEF IInv, Made, PidIsFinal
  <1>3. Kept
    BY DEF Kept
  <1> QED
    BY <1>1, <1>2, <1>3, OthersReached

LEMMA ScriptStepOK ==
    ASSUME IInv, NEW s \in Scripts, Command(s) \/ ScriptStep(s)
    PROVE  IInv'
  <1> DEFINE same == \A r \in Scripts \ {s} : /\ step'[r] = step[r]
                                              /\ heard'[r] = heard[r]
                                              /\ targets'[r] = targets[r]
             made == {p \in Pids : pc[p] # "none"}
  <1>1. TypeOK /\ ScriptTypes /\ Reached(s) /\ doomed \in SUBSET made
    BY ScriptsTyped DEF IInv, AllReached, Made, TypeOK
  <1> USE DEF outside, procVars
  <1>2. CASE Command(s)
    <2> USE <1>1, <1>2 DEF Command
    <2>1. ScriptTypes'
      BY DEF ScriptTypes
    <2>2. same
      BY DEF ScriptTypes
    <2>3. Reached(s)'
      BY DEF ScriptTypes, Reached
    <2> QED
      BY <2>1, <2>2, <2>3, QuietStep
  <1>3. CASE CheckStop(s)
    <2> USE <1>1, <1>3 DEF CheckStop, Stopped
    <2>1. ScriptTypes'
      BY DEF ScriptTypes
    <2>2. same
      BY DEF ScriptTypes
    <2>3. Reached(s)'
      <3>1. heard'[s] = {p \in Pids : pc[p] = "serve"}
        BY DEF ScriptTypes
      <3>2. step'[s] \in {"skill", "check start", "end"}
        BY DEF ScriptTypes
      <3>3. Visible = {} => heard'[s] = {}
        BY <3>1 DEF Visible
      <3>4. step'[s] = "skill" \/ Visible = {}
        BY DEF ScriptTypes
      <3> QED
        BY <3>1, <3>2, <3>3, <3>4 DEF Reached
    <2> QED
      BY <2>1, <2>2, <2>3, QuietStep
  <1>4. CASE Skill(s)
    <2> USE <1>1, <1>4 DEF Skill
    <2>1. ScriptTypes'
      BY DEF ScriptTypes, Visible
    <2>2. same
      BY DEF ScriptTypes
    <2>3. Reached(s)'
      <3>1. /\ targets'[s] = Visible /\ step'[s] = "kill"
            /\ heard'[s] = heard[s] /\ heard[s] \in SUBSET Pids
        BY DEF ScriptTypes
      <3> QED
        BY <3>1 DEF Reached, Visible
    <2> QED
      BY <2>1, <2>2, <2>3, QuietStep
  <1>5. ASSUME NEW p \in Pids, SkillOne(s, p)
        PROVE  IInv'
    <2> USE <1>1, <1>5 DEF SkillOne
    <2>1. ScriptTypes'
      BY DEF ScriptTypes
    <2>2. same
      BY DEF ScriptTypes
    <2>3. Reached(s)'
      <3>1. /\ targets'[s] = targets[s] \ {p} /\ step'[s] = "kill" /\ step[s] = "kill"
            /\ heard'[s] = heard[s]
        BY DEF ScriptTypes
      <3>2. pc[p] = "serve" => p \in doomed'
        BY DEF Visible
      <3>3. doomed \subseteq doomed'
        OBVIOUS
      <3> QED
        BY <3>1, <3>2, <3>3 DEF Reached
    <2>4. doomed \subseteq doomed' /\ doomed' \in SUBSET made
      BY DEF Visible, Starting, Early
    <2> QED
      BY <2>1, <2>2, <2>3, <2>4, QuietStep
  <1>6. CASE SkillDone(s)
    <2> USE <1>1, <1>6 DEF SkillDone, Stopped
    <2>1. ScriptTypes'
      BY DEF ScriptTypes
    <2>2. same
      BY DEF ScriptTypes
    <2>3. Reached(s)'
      <3>1. step'[s] \in {"check start", "end"} /\ heard'[s] = heard[s]
        BY DEF ScriptTypes
      <3> QED
        BY <3>1 DEF Reached
    <2> QED
      BY <2>1, <2>2, <2>3, QuietStep
  <1>7. CASE CheckStart(s)
    <2> USE <1>1, <1>7 DEF CheckStart
    <2>1. ScriptTypes'
      BY DEF ScriptTypes
    <2>2. same
      BY DEF ScriptTypes
    <2>3. Reached(s)'
      BY DEF ScriptTypes, Reached
    <2> QED
      BY <2>1, <2>2, <2>3, QuietStep
  <1>8. CASE Waited(s)
    <2> USE <1>1, <1>8 DEF Waited
    <2>1. ScriptTypes'
      BY DEF ScriptTypes
    <2>2. same
      BY DEF ScriptTypes
    <2>3. Reached(s)'
      BY DEF ScriptTypes, Reached
    <2> QED
      BY <2>1, <2>2, <2>3, QuietStep
  <1> QED
    BY <1>2, <1>3, <1>4, <1>5, <1>6, <1>7, <1>8 DEF ScriptStep

LEMMA ScriptLaunchOK ==
    ASSUME IInv, NEW s \in Scripts, ScriptLaunch(s)
    PROVE  IInv'
  <1>1. TypeOK /\ Made /\ PidIsFinal /\ ScriptTypes
    BY ScriptsTyped DEF IInv
  <1>2. /\ UNCHANGED <<configVars, fileVars, doomed>>
        /\ Room(2) /\ used' = Fresh
    BY DEF ScriptLaunch, Launch
  <1>3. \E l \in Places \ {"none"} : pc' = [pc EXCEPT ![Fresh] = l]
    BY DEF ScriptLaunch, Launch, Exits, Ends, Becomes, Places, Starting, Early, Over
  <1>4. Fresh \in Pids
    BY <1>1, <1>2, RoomForOne
  <1>5. ScriptTypes'
    BY <1>1, <1>4 DEF ScriptLaunch, ScriptTypes
  <1>6. ProcessesOK
    BY <1>1, <1>2, <1>3, <1>4, <1>5, NewOK
  <1>7. \A r \in Scripts \ {s} : /\ step'[r] = step[r] /\ heard'[r] = heard[r]
                                 /\ targets'[r] = targets[r]
    BY <1>1 DEF ScriptLaunch, ScriptTypes
  <1>8. Reached(s)'
    <2>1. heard'[s] = {} /\ step'[s] = "wait"
      BY <1>1 DEF ScriptLaunch, ScriptTypes
    <2> QED
      BY <2>1 DEF Reached
  <1> QED
    BY <1>6, <1>7, <1>8, OthersReached DEF ProcessesOK

LEMMA EditOK ==
    ASSUME IInv, NEW f \in Files, Edit(f)
    PROVE  IInv'
  <1>1. UNCHANGED <<fileVars, used, procVars, doomed, scriptVars>>
    BY DEF Edit
  <1> USE <1>1 DEF fileVars, procVars, scriptVars, IInv
  <1>3. edits' \in Nat /\ config' \in Files
    <2>1. edits \in Nat
      BY DEF TypeOK
    <2>2. edits' = edits + 1 /\ config' = f
      BY DEF Edit
    <2> HIDE DEF IInv
    <2> QED
      BY ONLY <2>1, <2>2, f \in Files
  <1>2. TypeOK'
    BY <1>3 DEF TypeOK
  <1> QED
    BY <1>2 DEF Made, PidIsFinal, AllReached, Reached

LEMMA NextOK == IInv /\ [Next]_vars => IInv'
  <1> SUFFICES ASSUME IInv, [Next]_vars PROVE IInv'
    OBVIOUS
  <1>1. CASE ByHand
    BY <1>1, ByHandOK, ProcessStepOK
  <1>2. ASSUME NEW p \in Pids, StartStep(p) PROVE IInv'
    BY <1>2, StartStepOK, ProcessStepOK
  <1>3. ASSUME NEW p \in Pids,
               \/ ServerFails(p) \/ ForkCgi(p) \/ ChildEnds(p) \/ Gone(p)
               \/ \E d \in Clients : Connection(p, d)
        PROVE  IInv'
    BY <1>3, RunStepOK, ProcessStepOK
  <1>4. ASSUME NEW f \in Files, Edit(f) PROVE IInv'
    BY <1>4, EditOK
  <1>5. ASSUME NEW s \in Scripts, Command(s) \/ ScriptStep(s) PROVE IInv'
    BY <1>5, ScriptStepOK
  <1>6. ASSUME NEW s \in Scripts, ScriptLaunch(s) PROVE IInv'
    BY <1>6, ScriptLaunchOK
  <1>7. CASE UNCHANGED vars
    BY <1>7 DEF vars, configVars, fileVars, procVars, scriptVars, IInv, TypeOK, Made,
                PidIsFinal, AllReached, Reached
  <1> QED
    BY <1>1, <1>2, <1>3, <1>4, <1>5, <1>6, <1>7 DEF Next

-----------------------------------------------------------------------------
(* Who has the port. *)

HasSocket == {"serve", "child", "cgi"}

\* A listening socket is open in servers and in what they have started. So a
\* process on its way to Bind has none, and InUse of no port would be true.
Holding ==
    /\ holds = [p \in Pids |-> holds[p]]
    /\ \A p \in Pids : pc[p] \in HasSocket <=> holds[p] # None

\* Who has a port because of p came after p.
PortInv == Holding /\ OneService

\* What a step does that neither opens nor closes a listening socket.
SocketsStay ==
    /\ holds' = holds
    /\ \A p \in Pids : \/ pc'[p] = pc[p]
                       \/ pc[p] \notin HasSocket /\ pc'[p] \notin HasSocket

LEMMA PortKept ==
    ASSUME PortInv, SocketsStay
    PROVE  PortInv'
  <1>1. Holding'
    BY DEF PortInv, Holding, SocketsStay
  <1>2. OneService'
    BY DEF PortInv, OneService, HasSocket, SocketsStay
  <1> QED
    BY <1>1, <1>2 DEF PortInv

\* A process that ends.
LEMMA PortOfEnd ==
    ASSUME TypeOK, PortInv, NEW p \in Pids, NEW how \in Over, Ends(p, how)
    PROVE  PortInv'
  <1>1. /\ \A q \in Pids \ {p} : pc'[q] = pc[q] /\ holds'[q] = holds[q]
        /\ pc'[p] = how /\ holds'[p] = None
    BY DEF Ends, TypeOK, PortInv, Holding
  <1>2. how \notin HasSocket /\ how # "serve"
    BY DEF Over, HasSocket
  <1>3. Holding'
    <2>1. holds' = [q \in Pids |-> holds'[q]]
      BY DEF Ends, PortInv, Holding
    <2> QED
      BY <1>1, <1>2, <2>1 DEF PortInv, Holding
  <1>4. OneService'
    <2> SUFFICES ASSUME NEW q \in Pids, NEW r \in Pids,
                        pc'[q] = "serve", r # q, holds'[r] = holds'[q]
                 PROVE  r > q /\ pc'[r] \in {"child", "cgi"}
      BY DEF OneService
    <2>1. q # p /\ holds[q] # None /\ pc[q] = "serve" /\ holds'[q] = holds[q]
      BY <1>1, <1>2 DEF PortInv, Holding, HasSocket
    <2>2. r # p
      BY <1>1, <2>1
    <2> QED
      BY <1>1, <2>1, <2>2 DEF PortInv, OneService
  <1> QED
    BY <1>3, <1>4 DEF PortInv

\* A child, or a CGI program, has the socket of the process that forked it.
LEMMA PortOfHeir ==
    ASSUME TypeOK, Made, PortInv, Fresh \in Pids,
           NEW p \in Pids, pc[p] \in HasSocket, NEW l \in {"child", "cgi"},
           pc' = [pc EXCEPT ![Fresh] = l],
           holds' = [holds EXCEPT ![Fresh] = holds[p]]
    PROVE  PortInv'
  <1>1. /\ \A q \in Pids \ {Fresh} : pc'[q] = pc[q] /\ holds'[q] = holds[q]
        /\ pc'[Fresh] = l /\ holds'[Fresh] = holds[p]
    BY DEF TypeOK, PortInv, Holding
  <1>2. used \in Nat /\ Fresh = used + 1
    BY CountType, ControlAssumption DEF Fresh
  <1>3. \A q \in Pids : pc[q] # "none" => q < Fresh
    BY <1>2, ControlAssumption DEF Made, Pids
  <1>4. Holding'
    <2>1. holds' = [q \in Pids |-> holds'[q]]
      BY DEF PortInv, Holding
    <2>2. holds[p] # None /\ l \in HasSocket
      BY DEF PortInv, Holding, HasSocket
    <2> QED
      BY <1>1, <2>1, <2>2 DEF PortInv, Holding
  <1>5. OneService'
    <2> SUFFICES ASSUME NEW q \in Pids, NEW r \in Pids,
                        pc'[q] = "serve", r # q, holds'[r] = holds'[q]
                 PROVE  r > q /\ pc'[r] \in {"child", "cgi"}
      BY DEF OneService
    <2>1. q # Fresh /\ pc[q] = "serve" /\ holds'[q] = holds[q]
      BY <1>1
    <2>2. CASE r = Fresh
      <3>1. q < Fresh
        BY <1>3, <2>1
      <3> QED
        BY <1>1, <1>2, <2>2, <3>1 DEF Pids
    <2>3. CASE r # Fresh
      BY <1>1, <2>1, <2>3 DEF PortInv, OneService
    <2> QED
      BY <2>2, <2>3
  <1> QED
    BY <1>4, <1>5 DEF PortInv

\* A new server gets a port that nobody has.
LEMMA PortOfServer ==
    ASSUME TypeOK, PortInv, NEW p \in Pids, pc[p] = "bind", NEW port,
           ~InUse(port), pc' = [pc EXCEPT ![p] = "serve"],
           holds' = [holds EXCEPT ![p] = port]
    PROVE  PortInv'
  <1>1. /\ \A q \in Pids \ {p} : pc'[q] = pc[q] /\ holds'[q] = holds[q]
        /\ pc'[p] = "serve" /\ holds'[p] = port
    BY DEF TypeOK, PortInv, Holding
  <1>2. port # None /\ \A q \in Pids : holds[q] # port
    BY DEF InUse, PortInv, Holding, HasSocket
  <1>3. Holding'
    <2>1. holds' = [q \in Pids |-> holds'[q]]
      BY DEF PortInv, Holding
    <2> QED
      BY <1>1, <1>2, <2>1 DEF PortInv, Holding, HasSocket
  <1>4. OneService'
    BY <1>1, <1>2 DEF PortInv, OneService
  <1> QED
    BY <1>3, <1>4 DEF PortInv

\* Launch, by hand or by a script.
LEMMA PortOfLaunch ==
    ASSUME TypeOK, Made, PortInv, NEW args, Launch(args)
    PROVE  PortInv'
  <1>1. Fresh \in Pids
    BY RoomForOne DEF Launch
  <1>2. CASE Exits(Fresh)
    BY <1>1, <1>2, PortOfEnd DEF Exits, Over
  <1>3. CASE Becomes(Fresh, "port")
    <2>1. pc[Fresh] = "none"
      BY <1>1, CountType, ControlAssumption DEF Made, Fresh
    <2>2. SocketsStay
      BY <1>1, <1>3, <2>1 DEF SocketsStay, Becomes, HasSocket, TypeOK
    <2> QED
      BY <2>2, PortKept
  <1> QED
    BY <1>2, <1>3 DEF Launch

LEMMA PortNext == IInv /\ PortInv /\ [Next]_vars => PortInv'
  <1> SUFFICES ASSUME IInv, PortInv, [Next]_vars PROVE PortInv'
    OBVIOUS
  <1>1. TypeOK /\ Made
    BY DEF IInv
  <1>2. CASE ByHand
    BY <1>1, <1>2, PortOfLaunch DEF ByHand
  <1>3. ASSUME NEW p \in Pids, Exits(p) PROVE PortInv'
    BY <1>1, <1>3, PortOfEnd DEF Exits, Over
  <1>4. ASSUME NEW p \in Pids, pc[p] \in Starting, NEW l \in Starting, Becomes(p, l)
        PROVE  PortInv'
    <2>1. SocketsStay
      BY <1>1, <1>4 DEF SocketsStay, Becomes, HasSocket, Starting, Early, TypeOK
    <2> QED
      BY <2>1, PortKept
  <1>5. ASSUME NEW p \in Pids, StartStep(p) PROVE PortInv'
    <2>1. pc[p] \in Starting
      BY <1>5 DEF StartStep, ReadPort, OpenLog, Background, WritePid, Bind, At,
                  Starting, Early
    <2>2. "log" \in Starting /\ "daemon" \in Starting /\ "pid" \in Starting
          /\ "bind" \in Starting
      BY DEF Starting, Early
    <2>3. CASE ReadPort(p)
      BY <1>3, <1>4, <2>1, <2>2, <2>3 DEF ReadPort
    <2>4. CASE OpenLog(p)
      BY <1>3, <1>4, <2>1, <2>2, <2>4 DEF OpenLog
    <2>5. CASE Background(p)
      <3>1. CASE Daemon(p)
        <4>1. pc[Fresh] = "none"
          BY <1>1, <3>1, CountType, ControlAssumption DEF Made, Fresh, Daemon
        <4>2. SocketsStay
          BY <1>1, <2>1, <3>1, <4>1
          DEF SocketsStay, Daemon, HasSocket, TypeOK, Starting, Early
        <4> QED
          BY <4>2, PortKept
      <3> QED
        BY <1>3, <1>4, <2>1, <2>2, <2>5, <3>1 DEF Background
    <2>6. CASE WritePid(p)
      BY <1>3, <1>4, <2>1, <2>2, <2>6 DEF WritePid
    <2>7. CASE Bind(p)
      BY <1>1, <1>3, <2>7, PortOfServer DEF Bind, At
    <2> QED
      BY <1>5, <2>3, <2>4, <2>5, <2>6, <2>7 DEF StartStep
  <1>6. ASSUME NEW p \in Pids, ServerFails(p) \/ ChildEnds(p) PROVE PortInv'
    BY <1>3, <1>6 DEF ServerFails, ChildEnds
  <1>7. ASSUME NEW p \in Pids, Gone(p) PROVE PortInv'
    BY <1>1, <1>7, PortOfEnd DEF Gone, Over
  <1>8. Room(1) => Fresh \in Pids
    BY <1>1, RoomForOne
  <1>9. ASSUME NEW p \in Pids, ForkCgi(p) PROVE PortInv'
    BY <1>1, <1>8, <1>9, PortOfHeir DEF ForkCgi, At, HasSocket
  <1>10. ASSUME NEW p \in Pids, NEW d \in Clients, Connection(p, d) PROVE PortInv'
    <2>1. CASE Ends(p, "rule")
      BY <1>1, <2>1, PortOfEnd DEF Over
    <2>2. CASE UNCHANGED procVars
      BY <2>2, PortKept DEF procVars, SocketsStay
    <2>3. CASE /\ pc' = [pc EXCEPT ![Fresh] = "child"]
               /\ holds' = [holds EXCEPT ![Fresh] = holds[p]]
      BY <1>1, <1>8, <1>10, <2>3, PortOfHeir DEF Connection, At, HasSocket
    <2> QED
      BY <1>10, <2>1, <2>2, <2>3 DEF Connection
  <1>11. ASSUME NEW s \in Scripts, ScriptLaunch(s) PROVE PortInv'
    BY <1>1, <1>11, PortOfLaunch DEF ScriptLaunch
  <1>12. CASE UNCHANGED procVars
    BY <1>12, PortKept DEF procVars, SocketsStay
  <1>13. ASSUME NEW f \in Files, Edit(f) PROVE PortInv'
    BY <1>12, <1>13 DEF Edit
  <1>14. ASSUME NEW s \in Scripts, Command(s) \/ ScriptStep(s) PROVE PortInv'
    BY <1>12, <1>14 DEF Command, ScriptStep, CheckStop, Skill, SkillDone, SkillOne,
                        CheckStart, Waited, outside
  <1>15. CASE UNCHANGED vars
    BY <1>12, <1>15 DEF vars
  <1> QED
    BY <1>2, <1>5, <1>6, <1>7, <1>9, <1>10, <1>11, <1>13, <1>14, <1>15 DEF Next

-----------------------------------------------------------------------------
(* The arithmetic of secure_access.c. And is defined by recursion: that such *)
(* a function exists is shown here, step by step.                            *)

\* g is And up to n.
Row(g, x) == [y \in Nat |-> IF x = 0 THEN 0
                           ELSE 2 * g[x \div 2][y \div 2] + (x % 2) * (y % 2)]
Approximates(g, n) == \A x \in 0..n : g[x] = Row(g, x)

\* A set of naturals that is not empty has a least element.
LEMMA LeastNatural ==
    ASSUME NEW S \in SUBSET Nat, S # {}
    PROVE  \E m \in S : \A k \in 0..m-1 : k \notin S
  <1>1. PICK m \in S : \A x \in S : ~(<<x, m>> \in OpToRel(<, Nat))
    BY NatLessThanWellFounded, WFMin
  <1>2. \A x \in S : ~(x < m)
    BY <1>1 DEF OpToRel
  <1> QED
    BY <1>2

LEMMA RowOfHalf ==
    ASSUME NEW x \in Nat, NEW g, NEW h, x # 0 => g[x \div 2] = h[x \div 2]
    PROVE  Row(g, x) = Row(h, x)
  BY DEF Row

\* Two approximations agree.
LEMMA ApproximationsAgree ==
    ASSUME NEW n \in Nat, NEW m \in Nat, NEW g, NEW h,
           Approximates(g, n), Approximates(h, m),
           NEW x \in Nat, x <= n, x <= m
    PROVE  g[x] = h[x]
  <1> DEFINE S == {k \in Nat : k <= n /\ k <= m /\ g[k] # h[k]}
  <1> SUFFICES ASSUME S # {} PROVE FALSE
    OBVIOUS
  <1>1. PICK k \in S : \A j \in 0..k-1 : j \notin S
    <2> S \in SUBSET Nat
      OBVIOUS
    <2> HIDE DEF S
    <2> QED
      BY LeastNatural
  <1>2. k \in Nat /\ k \in 0..n /\ k \in 0..m /\ g[k] # h[k]
    OBVIOUS
  <1>3. k # 0 => g[k \div 2] = h[k \div 2]
    <2> SUFFICES ASSUME k # 0 PROVE g[k \div 2] = h[k \div 2]
      OBVIOUS
    <2>1. k \div 2 \in 0..k-1 /\ k \div 2 \in Nat
      BY <1>2
    <2>2. k \div 2 <= n /\ k \div 2 <= m
      BY <1>2, <2>1
    <2> QED
      BY <1>1, <2>1, <2>2
  <1>4. Row(g, k) = Row(h, k)
    BY <1>2, <1>3, RowOfHalf
  <1> QED
    BY <1>2, <1>4 DEF Approximates

\* There is an approximation up to every n.
LEMMA ApproximationExists ==
    ASSUME NEW n \in Nat
    PROVE  \E g : Approximates(g, n)
  <1> DEFINE S == {k \in Nat : ~\E g : Approximates(g, k)}
  <1> SUFFICES ASSUME S # {} PROVE FALSE
    OBVIOUS
  <1>1. PICK k \in S : \A j \in 0..k-1 : j \notin S
    <2> S \in SUBSET Nat
      OBVIOUS
    <2> HIDE DEF S
    <2> QED
      BY LeastNatural
  <1>2. k \in Nat /\ ~\E g : Approximates(g, k)
    OBVIOUS
  <1>3. CASE k = 0
    <2> DEFINE g == [x \in 0..0 |-> [y \in Nat |-> 0]]
    <2>1. g[0] = Row(g, 0)
      BY DEF Row
    <2>2. Approximates(g, 0)
      BY <2>1 DEF Approximates
    <2> QED
      BY <1>2, <1>3, <2>2
  <1>4. CASE k # 0
    <2>1. k - 1 \in Nat /\ k - 1 \in 0..k-1
      BY <1>2, <1>4
    <2>2. PICK h : Approximates(h, k - 1)
      BY <1>1, <2>1
    <2> DEFINE g == [x \in 0..k |-> IF x = k THEN Row(h, k) ELSE h[x]]
    <2>3. \A x \in 0..k-1 : g[x] = h[x]
      BY <1>2
    <2>4. g[k] = Row(h, k)
      BY <1>2
    <2> HIDE DEF g
    <2>5. ASSUME NEW x \in 0..k PROVE g[x] = Row(g, x)
      <3>1. x \in Nat /\ (x # 0 => x \div 2 \in 0..k-1)
        BY <1>2
      <3>2. Row(g, x) = Row(h, x)
        BY <2>3, <3>1, RowOfHalf
      <3>3. CASE x = k
        BY <2>4, <3>2, <3>3
      <3>4. CASE x # k
        <4>1. x \in 0..k-1 /\ x \in 0..(k - 1)
          BY <1>2, <3>4
        <4>2. h[x] = Row(h, x)
          BY <2>2, <4>1 DEF Approximates
        <4> QED
          BY <2>3, <3>2, <4>1, <4>2
      <3> QED
        BY <3>3, <3>4
    <2>6. Approximates(g, k)
      BY <2>5 DEF Approximates
    <2> QED
      BY <1>2, <2>6
  <1> QED
    BY <1>3, <1>4

\* And is what its definition says.
LEMMA AndIs == And = [x \in Nat |-> Row(And, x)]
  <1> DEFINE A(n) == CHOOSE g : Approximates(g, n)
             G == [x \in Nat |-> A(x)[x]]
  <1>1. ASSUME NEW x \in Nat PROVE Approximates(A(x), x)
    BY ApproximationExists
  <1> HIDE DEF A
  <1>2. ASSUME NEW x \in Nat PROVE G[x] = Row(G, x)
    <2>1. x \in 0..x
      OBVIOUS
    <2>2. G[x] = Row(A(x), x)
      BY <1>1, <2>1 DEF Approximates
    <2>3. x # 0 => A(x)[x \div 2] = G[x \div 2]
      <3> SUFFICES ASSUME x # 0 PROVE A(x)[x \div 2] = G[x \div 2]
        OBVIOUS
      <3> DEFINE z == x \div 2
      <3>1. z \in Nat /\ z <= x /\ z <= z
        OBVIOUS
      <3> HIDE DEF z
      <3>2. Approximates(A(x), x) /\ Approximates(A(z), z)
        BY <1>1, <3>1
      <3>3. A(x)[z] = A(z)[z]
        BY <3>1, <3>2, ApproximationsAgree
      <3>4. G[z] = A(z)[z]
        BY <3>1
      <3> QED
        BY <3>3, <3>4 DEF z
    <2> HIDE DEF G
    <2>4. Row(A(x), x) = Row(G, x)
      BY <2>3, RowOfHalf
    <2> QED
      BY <2>2, <2>4
  <1>3. G = [x \in Nat |-> Row(G, x)]
    <2>1. G = [x \in Nat |-> G[x]]
      OBVIOUS
    <2> HIDE DEF G
    <2>2. [x \in Nat |-> G[x]] = [x \in Nat |-> Row(G, x)]
      BY <1>2
    <2> QED
      BY <2>1, <2>2
  <1> HIDE DEF G
  <1> QED
    BY <1>3 DEF And, Row

\* And works bit by bit.
LEMMA AndType ==
    ASSUME NEW x \in Nat, NEW y \in Nat
    PROVE  And[x][y] \in Nat
  <1> DEFINE S == {k \in Nat : \E z \in Nat : And[k][z] \notin Nat}
  <1> SUFFICES ASSUME S # {} PROVE FALSE
    OBVIOUS
  <1>1. PICK k \in S : \A j \in 0..k-1 : j \notin S
    <2> S \in SUBSET Nat
      OBVIOUS
    <2> HIDE DEF S
    <2> QED
      BY LeastNatural
  <1>2. PICK z \in Nat : And[k][z] \notin Nat
    OBVIOUS
  <1>3. k \in Nat /\ And[k] = Row(And, k)
    BY AndIs
  <1>4. And[k][z] = IF k = 0 THEN 0
                    ELSE 2 * And[k \div 2][z \div 2] + (k % 2) * (z % 2)
    BY <1>3 DEF Row
  <1>5. CASE k = 0
    BY <1>2, <1>4, <1>5
  <1>6. CASE k # 0
    <2>1. k \div 2 \in 0..k-1 /\ k \div 2 \in Nat /\ z \div 2 \in Nat
      BY <1>3, <1>6
    <2>2. And[k \div 2][z \div 2] \in Nat
      BY <1>1, <2>1
    <2>3. k % 2 \in {0, 1} /\ z % 2 \in {0, 1}
      BY <1>3
    <2>4. (k % 2) * (z % 2) \in Nat
      BY <2>3
    <2> QED
      BY <1>2, <1>4, <1>6, <2>2, <2>4
  <1> QED
    BY <1>5, <1>6

LEMMA AndOfZero ==
    ASSUME NEW y \in Nat
    PROVE  And[0][y] = 0
  BY AndIs DEF Row

LEMMA AndOfHalves ==
    ASSUME NEW x \in Nat, NEW y \in Nat
    PROVE  And[x][y] = 2 * And[x \div 2][y \div 2] + (x % 2) * (y % 2)
  <1>1. And[x] = Row(And, x)
    BY AndIs
  <1>2. CASE x # 0
    BY <1>1, <1>2 DEF Row
  <1>3. CASE x = 0
    <2>1. x \div 2 = 0 /\ x % 2 = 0 /\ y \div 2 \in Nat /\ y % 2 \in {0, 1}
      BY <1>3
    <2>2. And[x][y] = 0 /\ And[x \div 2][y \div 2] = 0
      BY <1>3, <2>1, AndOfZero
    <2>3. (x % 2) * (y % 2) = 0
      BY <2>1
    <2> QED
      BY <2>2, <2>3
  <1> QED
    BY <1>2, <1>3

Appended(a, b, i, j) == And[2 * a + i][2 * b + j] = 2 * And[a][b] + i * j

LEMMA AndOfBit ==
    ASSUME NEW a \in Nat, NEW b \in Nat, NEW i \in {0, 1}, NEW j \in {0, 1}
    PROVE  Appended(a, b, i, j)
  <1>1. /\ 2 * a + i \in Nat /\ 2 * b + j \in Nat
        /\ (2 * a + i) \div 2 = a /\ (2 * a + i) % 2 = i
        /\ (2 * b + j) \div 2 = b /\ (2 * b + j) % 2 = j
    OBVIOUS
  <1> QED
    BY <1>1, AndOfHalves DEF Appended

\* An octet of a packed number is a block of bits: And works block by block.
Block(O, a, b, x, y) ==
    /\ And[x][y] \in 0..O-1
    /\ And[O * a + x][O * b + y] = O * And[a][b] + And[x][y]
Blockwise(O) == \A a, b \in Nat : \A x, y \in 0..O-1 : Block(O, a, b, x, y)

LEMMA BlockOfOne == Blockwise(1)
  <1> SUFFICES ASSUME NEW a \in Nat, NEW b \in Nat
               PROVE  /\ And[0][0] \in 0..0
                      /\ And[1 * a + 0][1 * b + 0] = 1 * And[a][b] + And[0][0]
    BY DEF Blockwise, Block
  <1>1. And[0][0] = 0 /\ And[a][b] \in Nat
    BY AndOfZero, AndType
  <1>2. 1 * a + 0 = a /\ 1 * b + 0 = b
    OBVIOUS
  <1> QED
    BY <1>1, <1>2

LEMMA BlockDoubles ==
    ASSUME NEW O \in Nat \ {0}, Blockwise(O)
    PROVE  Blockwise(2 * O)
  <1> SUFFICES ASSUME NEW a \in Nat, NEW b \in Nat,
                      NEW x \in 0..2*O-1, NEW y \in 0..2*O-1
               PROVE  /\ And[x][y] \in 0..2*O-1
                      /\ And[2*O*a + x][2*O*b + y] = 2*O*And[a][b] + And[x][y]
    BY DEF Blockwise, Block
  <1> DEFINE u == x \div 2
             v == y \div 2
             i == x % 2
             j == y % 2
  <1>1. /\ u \in 0..O-1 /\ v \in 0..O-1 /\ u \in Nat /\ v \in Nat
        /\ i \in {0, 1} /\ j \in {0, 1} /\ x = 2 * u + i /\ y = 2 * v + j
    OBVIOUS
  <1> HIDE DEF u, v, i, j
  <1>2. And[u][v] \in 0..O-1 /\ And[O*a + u][O*b + v] = O*And[a][b] + And[u][v]
    <2>1. Block(O, a, b, u, v)
      BY <1>1 DEF Blockwise
    <2> QED
      BY <2>1 DEF Block
  <1>3. And[x][y] = 2 * And[u][v] + i * j
    <2>1. Appended(u, v, i, j)
      BY <1>1, AndOfBit
    <2> QED
      BY <1>1, <2>1 DEF Appended
  <1>4. i * j \in {0, 1}
    BY <1>1
  <1>5. And[x][y] \in 0..2*O-1
    BY <1>2, <1>3, <1>4
  <1>6. O * a \in Nat /\ O * b \in Nat
        /\ 2*O*a + x = 2 * (O*a + u) + i /\ 2*O*b + y = 2 * (O*b + v) + j
    BY <1>1
  <1>7. O*a + u \in Nat /\ O*b + v \in Nat
    BY <1>1, <1>6
  <1>8. And[2*O*a + x][2*O*b + y] = 2 * And[O*a + u][O*b + v] + i * j
    <2>1. Appended(O*a + u, O*b + v, i, j)
      BY <1>1, <1>7, AndOfBit
    <2> QED
      BY <1>6, <2>1, Zenon DEF Appended
  <1>9. And[a][b] \in Nat /\ And[u][v] \in Nat /\ O * And[a][b] \in Nat
    BY <1>1, AndType
  <1>10. 2 * (O*And[a][b] + And[u][v]) + i * j = 2*O*And[a][b] + And[x][y]
    BY <1>3, <1>4, <1>9
  <1> QED
    BY <1>2, <1>5, <1>8, <1>10

LEMMA BlockOfOctet == Blockwise(Octet)
  <1>1. Blockwise(1)
    BY BlockOfOne
  <1>2. Blockwise(2)
    BY <1>1, BlockDoubles, 2 * 1 = 2
  <1>3. Blockwise(4)
    BY <1>2, BlockDoubles, 2 * 2 = 4
  <1>4. Blockwise(8)
    BY <1>3, BlockDoubles, 2 * 4 = 8
  <1>5. Blockwise(16)
    BY <1>4, BlockDoubles, 2 * 8 = 16
  <1>6. Blockwise(32)
    BY <1>5, BlockDoubles, 2 * 16 = 32
  <1>7. Blockwise(64)
    BY <1>6, BlockDoubles, 2 * 32 = 64
  <1>8. Blockwise(128)
    BY <1>7, BlockDoubles, 2 * 64 = 128
  <1>9. Blockwise(256)
    BY <1>8, BlockDoubles, 2 * 128 = 256
  <1> QED
    BY <1>1, <1>2, <1>3, <1>4, <1>5, <1>6, <1>7, <1>8, <1>9, AddressAssumption
    DEF Powers

\* One step of the sum of ipadd_to_longlong: it does not mix the octets.
Join(a, x) == a * Octet + x

Apart(a, b, x, y) == /\ Join(a, x) \in Nat /\ Join(b, y) \in Nat
                     /\ Join(a, x) = Join(b, y) <=> a = b /\ x = y

LEMMA JoinIsOneToOne ==
    ASSUME NEW a \in Nat, NEW b \in Nat, NEW x \in Octets, NEW y \in Octets
    PROVE  Apart(a, b, x, y)
  <1>1. Octet \in Nat \ {0} /\ x \in 0..Octet-1 /\ y \in 0..Octet-1
    BY ControlAssumption DEF Octets
  <1>2. a * Octet \in Nat /\ b * Octet \in Nat
    BY <1>1
  <1>3. ASSUME NEW c \in Nat, NEW d \in Nat, c < d
        PROVE  c * Octet + Octet <= d * Octet
    <2>1. PICK k \in Nat : d = c + 1 + k
      <3>1. d - c - 1 \in Nat /\ d = c + 1 + (d - c - 1)
        BY <1>3
      <3> QED
        BY <3>1
    <2>2. (c + 1 + k) * Octet = c * Octet + Octet + k * Octet
      BY <1>1
    <2>3. k * Octet \in Nat /\ c * Octet \in Nat
      BY <1>1
    <2> QED
      BY <1>1, <2>1, <2>2, <2>3
  <1>4. ASSUME a * Octet + x = b * Octet + y PROVE a = b /\ x = y
    <2>1. a * Octet \in Nat /\ b * Octet \in Nat
      BY <1>1
    <2>2. ~(a < b)
      <3> SUFFICES ASSUME a < b PROVE FALSE
        OBVIOUS
      <3>1. a * Octet + Octet <= b * Octet
        BY <1>3
      <3> QED
        BY <1>1, <1>4, <2>1, <3>1
    <2>3. ~(b < a)
      <3> SUFFICES ASSUME b < a PROVE FALSE
        OBVIOUS
      <3>1. b * Octet + Octet <= a * Octet
        BY <1>3
      <3> QED
        BY <1>1, <1>4, <2>1, <3>1
    <2>4. a = b
      BY <2>2, <2>3
    <2> QED
      BY <1>1, <1>4, <2>1, <2>4
  <1> QED
    BY <1>1, <1>2, <1>4 DEF Apart, Join

\* Halving a number seven times gives its bits one after the other.
LEMMA HalveAgain ==
    ASSUME NEW x \in Nat
    PROVE  /\ x \div 1 = x /\ x \div 2 \in Nat
           /\ x \div 4 = (x \div 2) \div 2 /\ x \div 4 \in Nat
           /\ x \div 8 = (x \div 4) \div 2 /\ x \div 8 \in Nat
           /\ x \div 16 = (x \div 8) \div 2 /\ x \div 16 \in Nat
           /\ x \div 32 = (x \div 16) \div 2 /\ x \div 32 \in Nat
           /\ x \div 64 = (x \div 32) \div 2 /\ x \div 64 \in Nat
           /\ x \div 128 = (x \div 64) \div 2 /\ x \div 128 \in Nat
  OBVIOUS

LEMMA HalfAndRest ==
    ASSUME NEW x \in Nat
    PROVE  x = 2 * (x \div 2) + (x % 2) /\ x % 2 \in {0, 1}
  OBVIOUS

Halved(x, y) == /\ And[x][y] \div 2 = And[x \div 2][y \div 2]
                /\ And[x][y] % 2 = 1 <=> x % 2 = 1 /\ y % 2 = 1

LEMMA AndHalved ==
    ASSUME NEW x \in Nat, NEW y \in Nat
    PROVE  Halved(x, y)
  <1>1. /\ x \div 2 \in Nat /\ y \div 2 \in Nat
        /\ x % 2 \in {0, 1} /\ y % 2 \in {0, 1}
    OBVIOUS
  <1> DEFINE h == And[x \div 2][y \div 2]
             r == (x % 2) * (y % 2)
  <1>2. h \in Nat /\ And[x][y] = 2 * h + r
    BY <1>1, AndType, AndOfHalves
  <1>3. r \in {0, 1} /\ (r = 1 <=> x % 2 = 1 /\ y % 2 = 1)
    BY <1>1
  <1> HIDE DEF h, r
  <1>4. And[x][y] \div 2 = h /\ And[x][y] % 2 = r
    BY <1>2, <1>3
  <1> QED
    BY <1>3, <1>4 DEF h, Halved

\* Each bit of And is the conjunction of the bits.
LEMMA BitsOfAnd ==
    ASSUME NEW x \in Nat, NEW y \in Nat
    PROVE  Bits(And[x][y]) = Bits(x) \cap Bits(y)
  <1> DEFINE D(b) == And[x][y] \div b = And[x \div b][y \div b]
  <1>0. And[x][y] \in Nat
    BY AndType
  <1>1. D(1) /\ D(2)
    <2>1. Halved(x, y)
      BY AndHalved
    <2> QED
      BY <1>0, <2>1, HalveAgain DEF Halved
  <1>2. D(4)
    <2>1. Halved(x \div 2, y \div 2)
      BY HalveAgain, AndHalved
    <2> QED
      BY <1>0, <1>1, <2>1, HalveAgain DEF Halved
  <1>3. D(8)
    <2>1. Halved(x \div 4, y \div 4)
      BY HalveAgain, AndHalved
    <2> QED
      BY <1>0, <1>2, <2>1, HalveAgain DEF Halved
  <1>4. D(16)
    <2>1. Halved(x \div 8, y \div 8)
      BY HalveAgain, AndHalved
    <2> QED
      BY <1>0, <1>3, <2>1, HalveAgain DEF Halved
  <1>5. D(32)
    <2>1. Halved(x \div 16, y \div 16)
      BY HalveAgain, AndHalved
    <2> QED
      BY <1>0, <1>4, <2>1, HalveAgain DEF Halved
  <1>6. D(64)
    <2>1. Halved(x \div 32, y \div 32)
      BY HalveAgain, AndHalved
    <2> QED
      BY <1>0, <1>5, <2>1, HalveAgain DEF Halved
  <1>7. D(128)
    <2>1. Halved(x \div 64, y \div 64)
      BY HalveAgain, AndHalved
    <2> QED
      BY <1>0, <1>6, <2>1, HalveAgain DEF Halved
  <1> HIDE DEF D
  <1>8. ASSUME NEW b \in Powers
        PROVE  (And[x][y] \div b) % 2 = 1
                  <=> (x \div b) % 2 = 1 /\ (y \div b) % 2 = 1
    <2>1. D(b)
      BY <1>1, <1>2, <1>3, <1>4, <1>5, <1>6, <1>7 DEF Powers
    <2>2. x \div b \in Nat /\ y \div b \in Nat
      BY HalveAgain DEF Powers
    <2>3. Halved(x \div b, y \div b)
      BY <2>2, AndHalved
    <2> QED
      BY <2>1, <2>3 DEF D, Halved
  <1> QED
    BY <1>8 DEF Bits

\* An octet is its bits.
LEMMA OctetIsItsBits ==
    ASSUME NEW x \in Octets, NEW y \in Octets, Bits(x) = Bits(y)
    PROVE  x = y
  <1>1. x \in 0..255 /\ y \in 0..255
    BY AddressAssumption DEF Octets, Powers
  <1>2. ASSUME NEW b \in Powers
        PROVE  (x \div b) % 2 = (y \div b) % 2
    <2>1. (x \div b) % 2 = 1 <=> (y \div b) % 2 = 1
      BY <1>2 DEF Bits
    <2>2. x \div b \in Nat /\ y \div b \in Nat
      BY <1>1, HalveAgain DEF Powers
    <2>3. (x \div b) % 2 \in {0, 1} /\ (y \div b) % 2 \in {0, 1}
      BY <2>2, HalfAndRest
    <2> QED
      BY <2>1, <2>3
  <1>3. (x \div 128) % 2 = (y \div 128) % 2 /\ (x \div 64) % 2 = (y \div 64) % 2
        /\ (x \div 32) % 2 = (y \div 32) % 2 /\ (x \div 16) % 2 = (y \div 16) % 2
        /\ (x \div 8) % 2 = (y \div 8) % 2 /\ (x \div 4) % 2 = (y \div 4) % 2
        /\ (x \div 2) % 2 = (y \div 2) % 2 /\ (x \div 1) % 2 = (y \div 1) % 2
    BY <1>2 DEF Powers
  <1>4. x \div 128 = y \div 128
    <2>1. x \div 128 \in {0, 1} /\ y \div 128 \in {0, 1}
      BY <1>1
    <2> QED
      BY <1>3, <2>1
  <1>5. x \div 64 = y \div 64
    BY <1>1, <1>3, <1>4, HalveAgain, HalfAndRest
  <1>6. x \div 32 = y \div 32
    BY <1>1, <1>3, <1>5, HalveAgain, HalfAndRest
  <1>7. x \div 16 = y \div 16
    BY <1>1, <1>3, <1>6, HalveAgain, HalfAndRest
  <1>8. x \div 8 = y \div 8
    BY <1>1, <1>3, <1>7, HalveAgain, HalfAndRest
  <1>9. x \div 4 = y \div 4
    BY <1>1, <1>3, <1>8, HalveAgain, HalfAndRest
  <1>10. x \div 2 = y \div 2
    BY <1>1, <1>3, <1>9, HalveAgain, HalfAndRest
  <1> QED
    BY <1>1, <1>3, <1>10, HalveAgain, HalfAndRest

\* The rule of secure_access.c is the rule of its comment.
LEMMA AnswerIsInNetwork ==
    ASSUME NEW rule, rule.ip \in Seq(Octets), rule.mask \in Seq(Octets),
           ~Crashes(rule), NEW c \in Clients
    PROVE  Answer(rule, c) <=> InNetwork(rule, c)
  <1> DEFINE ip == Padded(rule.ip)
             m  == rule.mask
             n(k) == And[m[k]][c[k]]
  <1>0. Octet \in Nat \ {0} /\ 0 \in Octets /\ Octets \subseteq Nat
    BY ControlAssumption DEF Octets
  <1>1. \A k \in 1..4 : ip[k] \in Octets /\ m[k] \in Octets /\ c[k] \in Octets
    <2>1. \A k \in 1..4 : c[k] \in Octets
      BY AddressAssumption
    <2>2. Len(m) \in Nat /\ ~(Len(m) < 4)
      BY DEF Crashes
    <2>3. \A k \in 1..4 : m[k] \in Octets
      BY <2>2
    <2>4. \A k \in 1..4 : ip[k] \in Octets
      BY <1>0 DEF Padded
    <2> QED
      BY <2>1, <2>3, <2>4
  <1>2. \A k \in 1..4 : ip[k] = IF k \in DOMAIN rule.ip THEN rule.ip[k] ELSE 0
    <2>1. DOMAIN rule.ip = 1..Len(rule.ip) /\ Len(rule.ip) \in Nat
      OBVIOUS
    <2> QED
      BY <2>1 DEF Padded
  <1> HIDE DEF ip, m
  <1>3. \A k \in 1..4 : n(k) \in Octets
    <2> SUFFICES ASSUME NEW k \in 1..4 PROVE n(k) \in Octets
      OBVIOUS
    <2>1. m[k] \in 0..Octet-1 /\ c[k] \in 0..Octet-1
      BY <1>1 DEF Octets
    <2>2. Block(Octet, 0, 0, m[k], c[k])
      BY <2>1, BlockOfOctet DEF Blockwise
    <2> QED
      BY <2>2 DEF Block, Octets
  \* And of two packed numbers, one octet more.
  <1> DEFINE Longer(a, b, k) ==
                 /\ And[Join(a, m[k])][Join(b, c[k])] = Join(And[a][b], n(k))
                 /\ Join(a, m[k]) \in Nat /\ Join(b, c[k]) \in Nat
  <1>4. ASSUME NEW a \in Nat, NEW b \in Nat, NEW k \in 1..4
        PROVE  Longer(a, b, k)
    <2>1. m[k] \in 0..Octet-1 /\ c[k] \in 0..Octet-1
      BY <1>1 DEF Octets
    <2>2. Block(Octet, a, b, m[k], c[k])
      BY <2>1, BlockOfOctet DEF Blockwise
    <2>3. And[a][b] \in Nat
      BY AndType
    <2>4. Octet * a = a * Octet /\ Octet * b = b * Octet
          /\ Octet * And[a][b] = And[a][b] * Octet
      BY <1>0, <2>3
    <2>5. Apart(a, b, m[k], c[k])
      BY <1>1, JoinIsOneToOne
    <2> QED
      BY <2>2, <2>4, <2>5 DEF Block, Apart, Join
  <1>5. 1 \in 1..4 /\ 2 \in 1..4 /\ 3 \in 1..4 /\ 4 \in 1..4
    OBVIOUS
  <1> HIDE DEF n, Longer
  <1>6. m[1] \in Nat /\ c[1] \in Nat /\ And[m[1]][c[1]] = n(1)
    BY <1>0, <1>1, <1>5 DEF n
  <1> DEFINE m2 == Join(m[1], m[2])
             m3 == Join(m2, m[3])
             c2 == Join(c[1], c[2])
             c3 == Join(c2, c[3])
             n2 == Join(n(1), n(2))
             n3 == Join(n2, n(3))
             i2 == Join(ip[1], ip[2])
             i3 == Join(i2, ip[3])
  <1>7. And[m2][c2] = n2 /\ m2 \in Nat /\ c2 \in Nat
    <2>1. Longer(m[1], c[1], 2)
      BY <1>4, <1>5, <1>6
    <2> QED
      BY <1>6, <2>1 DEF Longer
  <1> HIDE DEF m2, c2
  <1>8. And[m3][c3] = n3 /\ m3 \in Nat /\ c3 \in Nat
    <2>1. Longer(m2, c2, 3)
      BY <1>4, <1>5, <1>7
    <2> QED
      BY <1>7, <2>1 DEF Longer
  <1> HIDE DEF m3, c3
  <1>9. And[Join(m3, m[4])][Join(c3, c[4])] = Join(n3, n(4))
    <2>1. Longer(m3, c3, 4)
      BY <1>4, <1>5, <1>8
    <2> QED
      BY <1>8, <2>1 DEF Longer
  \* The packed masked address is the packed rule's when the octets are equal.
  <1>10. Join(n3, n(4)) = Join(i3, ip[4]) <=> \A k \in 1..4 : n(k) = ip[k]
    <2>1. n(1) \in Nat /\ ip[1] \in Nat
      BY <1>0, <1>1, <1>3, <1>5
    <2>2. Apart(n(1), ip[1], n(2), ip[2])
      BY <1>1, <1>3, <1>5, <2>1, JoinIsOneToOne
    <2>3. Apart(n2, i2, n(3), ip[3])
      <3>1. n2 \in Nat /\ i2 \in Nat
        BY <2>2 DEF Apart
      <3> HIDE DEF n2, i2
      <3> QED
        BY <1>1, <1>3, <1>5, <3>1, JoinIsOneToOne
    <2>4. Apart(n3, i3, n(4), ip[4])
      <3>1. n3 \in Nat /\ i3 \in Nat
        BY <2>3 DEF Apart
      <3> HIDE DEF n3, i3
      <3> QED
        BY <1>1, <1>3, <1>5, <3>1, JoinIsOneToOne
    <2>5. (\A k \in 1..4 : n(k) = ip[k])
             <=> n(1) = ip[1] /\ n(2) = ip[2] /\ n(3) = ip[3] /\ n(4) = ip[4]
      OBVIOUS
    <2> QED
      BY <2>2, <2>3, <2>4, <2>5 DEF Apart
  <1>11. Answer(rule, c) <=> \A k \in 1..4 : n(k) = ip[k]
    <2>1. Packed(m) = Join(m3, m[4]) /\ Packed(c) = Join(c3, c[4])
          /\ Packed(ip) = Join(i3, ip[4])
      BY DEF Packed, Join, m2, m3, c2, c3
    <2> HIDE DEF n3, i3
    <2> QED
      BY <1>9, <1>10, <2>1 DEF Answer, m, ip
  <1>12. ASSUME NEW k \in 1..4
         PROVE  n(k) = ip[k] <=> Bits(ip[k]) = Bits(m[k]) \cap Bits(c[k])
    <2>1. Bits(n(k)) = Bits(m[k]) \cap Bits(c[k])
      BY <1>0, <1>1, BitsOfAnd DEF n
    <2>2. Bits(n(k)) = Bits(ip[k]) => n(k) = ip[k]
      BY <1>1, <1>3, OctetIsItsBits
    <2> QED
      BY <2>1, <2>2
  <1> QED
    BY <1>2, <1>11, <1>12 DEF InNetwork, m

-----------------------------------------------------------------------------
(* The theorems. *)

\* The invariant holds however many servers, scripts and editors there are.
THEOREM Invariance == Spec => []IInv
  BY InitOK, NextOK, PTL DEF Spec

\* Types (the state of http_main.c's processes and of webserver.sh).
THEOREM TypeCorrect == Spec => []TypeOK
  BY Invariance, PTL DEF IInv

\* pid.file never names a launcher, a child or a CGI program (http_main.c:55
\* to 58, 411 to 423).
THEOREM PidFileNamesServers == Spec => []PidIsFinal
  BY Invariance, PTL DEF IInv

\* stop and restart go on only when every server that listened when they
\* looked is over or has been sent SIGKILL (webserver.sh:33 to 38).
THEOREM StopIsThorough == Spec => []StopReachesServer
  <1>1. IInv => StopReachesServer
    BY DEF IInv, AllReached, Reached, StopReachesServer
  <1> QED
    BY <1>1, Invariance, PTL

\* A port has one server, whatever starts, fails and is killed: the others that
\* have its socket are younger, and children or CGI programs (wrap.c:688 to 715).
THEOREM OneServer == Spec => []OneService
  <1>1. Init => PortInv
    BY DEF Init, PortInv, Holding, HasSocket, OneService
  <1> QED
    BY <1>1, PortNext, Invariance, PTL DEF Spec, PortInv

\* A client is let in if and only if the bits of its address under the mask
\* are those of the rule's address (secure_access.c:4 to 6): the sum in a long
\* long and the one & do what the comment says octet by octet, for any rule
\* and client made of octets.
THEOREM AccessIsByNetwork == Spec => []AccessByNetwork
  <1>1. TypeOK => AccessByNetwork
    <2> SUFFICES ASSUME TypeOK, ~Missing("mask"), ~Crashes(Getconfig("mask")),
                        NEW c \in Clients
                 PROVE  Answer(Getconfig("mask"), c)
                           <=> InNetwork(Getconfig("mask"), c)
      BY DEF AccessByNetwork
    <2>1. /\ Getconfig("mask").ip \in Seq(Octets)
          /\ Getconfig("mask").mask \in Seq(Octets)
      <3>1. config \in Files
        BY DEF TypeOK
      <3> QED
        BY <3>1, AddressAssumption DEF Missing, Getconfig
    <2> QED
      BY <2>1, AnswerIsInNetwork
  <1> QED
    BY <1>1, TypeCorrect, PTL
=============================================================================
