----------------------------- MODULE DoitProofs -----------------------------
(***************************************************************************)
(* Proofs about Doit for any requests, files and file systems, however     *)
(* often the file changes: one answer per client, the body of a POST       *)
(* reaches its program intact, and a child ends early only for a reason.   *)
(***************************************************************************)
EXTENDS Doit, TLAPS

-----------------------------------------------------------------------------
(* What the parts of the actions do to the types. *)

LEMMA Requested ==
    ASSUME ClientType
    PROVE  /\ req.method \in Methods /\ req.uri \in Uris \cup {"none"}
           /\ Lines \in Seq(Items) /\ Len(Lines) \in Nat /\ File \in Files
  BY DoitAssumption DEF ClientType, Lines, File

LEMMA EndType ==
    ASSUME ProcType, NEW r \in Reasons, End(r) PROVE ProcType'
  BY DEF ProcType, End, Places

LEMMA GoToType ==
    ASSUME ProcType, NEW p \in Places, GoTo(p) PROVE ProcType'
  BY DEF ProcType, GoTo, workers

LEMMA SendType ==
    ASSUME out \in Seq(Pieces), NEW w \in {"head", "body"},
           NEW c \in {200, 403, 404, 501}, NEW n \in Int, Send(w, c, n)
    PROVE  out' \in Seq(Pieces)
  <1>1. [what |-> w, code |-> c, len |-> n] \in Pieces
    BY DEF Pieces
  <1> QED
    BY <1>1 DEF Send

LEMMA WriteType ==
    ASSUME TypeOK, NEW w \in {"head", "body"}, NEW c \in {200, 403, 404, 501}, NEW n \in Int,
           \/ \E p \in Places : Write(w, c, n, GoTo(p))
           \/ \E r \in Reasons : Write(w, c, n, End(r))
    PROVE  ProcType' /\ out' \in Seq(Pieces)
  <1>1. "gone" \in Reasons
    BY DEF Reasons
  <1>2. CASE peer = "rst"
    BY <1>1, <1>2, EndType DEF Write, TypeOK
  <1>3. CASE peer # "rst"
    BY <1>3, EndType, GoToType, SendType DEF Write, TypeOK
  <1> QED
    BY <1>2, <1>3

\* The parts of the state that an action leaves alone.
LEMMA SameClient == ASSUME ClientType, UNCHANGED <<client, files>> PROVE ClientType'
  BY DEF ClientType, client, files, Lines
LEMMA SameParsed ==
    ASSUME ParsedType, UNCHANGED <<client, pos, parsed>> PROVE ParsedType'
  BY DEF ParsedType, client, parsed
LEMMA SameProc == ASSUME ProcType, UNCHANGED <<pc, why, workers>> PROVE ProcType'
  BY DEF ProcType, workers

-----------------------------------------------------------------------------
(* TypeOK, one group of actions at a time. *)

LEMMA PeerType == ASSUME TypeOK, PeerSend \/ PeerLeave \/ FileChange PROVE TypeOK'
  <1>1. ClientType' /\ ParsedType'
    <2>1. CASE PeerSend \/ PeerLeave
      BY <2>1, Requested, SMTT(30)
         DEF PeerSend, PeerLeave, files, parsed, TypeOK, ClientType, ParsedType, Lines
    <2>2. CASE FileChange
      <3>1. PICK f \in Files : fs' = [fs EXCEPT ![IF Static THEN "root" ELSE "cwd"] = f]
        BY <2>2 DEF FileChange
      <3>2. fs' \in [{"root", "cwd"} -> Files]
        BY <3>1 DEF TypeOK, ClientType
      <3>3. changes' \in 0..MaxChanges
        BY <2>2, DoitAssumption DEF FileChange, TypeOK, ClientType
      <3> QED
        BY <2>2, <3>2, <3>3 DEF FileChange, client, parsed, TypeOK, ClientType, ParsedType, Lines
    <2> QED
      BY <2>1, <2>2
  <1>2. UNCHANGED <<pc, why, workers, out>>
    BY DEF PeerSend, PeerLeave, FileChange
  <1> QED
    BY <1>1, <1>2, SameProc DEF TypeOK

LEMMA ReadsType == ASSUME TypeOK, Reads PROVE TypeOK'
  <1>1. /\ UNCHANGED <<client, files, out>>
        /\ Places = Places /\ {"error", "lookup", "fork", "cgi", "open", "spin"} \subseteq Places
        /\ {"garbage", "gone"} \subseteq Reasons
    BY DEF Reads, ReadRequest, RequestEof, ReadHeader, HeaderEof, ReadFails, Places, Reasons
  <1>2. ClientType'
    BY <1>1, SameClient DEF TypeOK
  <1>3. ParsedType' /\ ProcType'
    <2>1. CASE ReadRequest \/ RequestEof
      <3>1. \/ Garbage
            \/ \E m \in Methods, u \in Uris : Parsed(m, u)
        BY <2>1, Requested DEF ReadRequest, RequestEof, TypeOK
      <3>2. pos' \in 0..sent' /\ sent' = sent
        BY <2>1, <1>1, Requested DEF ReadRequest, RequestEof, client, TypeOK, ClientType, ParsedType
      <3>3. CASE Garbage
        BY <1>1, <3>2, <3>3, EndType DEF Garbage, parsed, TypeOK, ParsedType
      <3>4. ASSUME NEW m \in Methods, NEW u \in Uris, Parsed(m, u)
            PROVE  ParsedType' /\ ProcType'
        <4>1. ParsedType'
          BY <3>2, <3>4 DEF Parsed, TypeOK, ParsedType
        <4> QED
          BY <1>1, <3>4, <4>1, GoToType DEF Parsed, TypeOK
      <3> QED
        BY <3>1, <3>3, <3>4
    <2>2. CASE ReadHeader
      <3>1. pos' \in 0..sent' /\ length' \in {0, BodyLen} /\ UNCHANGED <<method, uri, st>>
        BY <2>2, <1>1 DEF ReadHeader, client, TypeOK, ClientType, ParsedType
      <3>2. \/ UNCHANGED <<code, pc, why, workers>>
            \/ Error(403)
            \/ UNCHANGED code /\ \E p \in {"fork", "cgi", "open"} : GoTo(p)
        BY <2>2 DEF ReadHeader, HeadersRead
      <3>3. ParsedType'
        BY <3>1, <3>2 DEF Error, TypeOK, ParsedType
      <3>4. ProcType'
        BY <1>1, <3>2, GoToType, SameProc DEF Error, TypeOK
      <3> QED
        BY <3>3, <3>4
    <2>3. CASE HeaderEof
      BY <1>1, <2>3, SameParsed, GoToType DEF HeaderEof, TypeOK
    <2>4. CASE ReadFails
      BY <1>1, <2>4, SameParsed, EndType DEF ReadFails, TypeOK
    <2> QED
      BY <2>1, <2>2, <2>3, <2>4 DEF Reads
  <1> QED
    BY <1>1, <1>2, <1>3 DEF TypeOK

LEMMA LooksType == ASSUME TypeOK, Looks PROVE TypeOK'
  <1>1. /\ UNCHANGED <<client, files, out, pos>>
        /\ {"error", "dir", "headers"} \subseteq Places /\ "config" \in Reasons
    BY DEF Looks, ConfigFails, WrongRoot, Lookup, Places, Reasons
  <1>2. ClientType'
    BY <1>1, SameClient DEF TypeOK
  <1>3. CASE ConfigFails
    BY <1>1, <1>2, <1>3, SameParsed, EndType DEF ConfigFails, TypeOK
  <1>4. CASE WrongRoot \/ Lookup
    <2>1. /\ UNCHANGED <<method, uri, length>> /\ st' \in Files
          /\ \/ Error(404) \/ Error(403)
             \/ UNCHANGED code /\ \E p \in {"dir", "headers"} : GoTo(p)
      BY <1>4, Requested DEF WrongRoot, Lookup, TypeOK, ParsedType
    <2>2. ParsedType'
      BY <1>1, <2>1 DEF Error, client, TypeOK, ParsedType
    <2>3. ProcType'
      BY <1>1, <2>1, GoToType DEF Error, TypeOK
    <2> QED
      BY <1>1, <1>2, <2>2, <2>3 DEF TypeOK
  <1> QED
    BY <1>3, <1>4 DEF Looks

LEMMA AnswersType ==
    ASSUME TypeOK, Answers, pc \in {"error", "errbody"} => code \in {403, 404, 501}
    PROVE  TypeOK'
  <1>1. /\ UNCHANGED <<client, files, pos, parsed>>
        /\ {"errbody", "dirhead", "dirbody", "head", "body"} \subseteq Places
        /\ {"done", "dir", "open", "fault"} \subseteq Reasons
    BY DEF Answers, ErrorHead, ErrorBody, ServeDir, DirHead, DirBody, OpenFile, FileHead,
           FileBody, Places, Reasons
  <1>2. ClientType' /\ ParsedType'
    BY <1>1, SameClient, SameParsed DEF TypeOK
  <1>3. ErrHead \in Int /\ ErrBody \in Int /\ DirLen \in Int /\ st.size \in Int
    BY DoitAssumption DEF TypeOK, ParsedType
  <1>4. ProcType' /\ out' \in Seq(Pieces)
    <2>1. CASE ErrorHead \/ ErrorBody
      BY <1>1, <1>3, <2>1, WriteType DEF ErrorHead, ErrorBody
    <2>2. CASE DirHead \/ DirBody \/ FileHead
      BY <1>1, <1>3, <2>2, WriteType DEF DirHead, DirBody, FileHead
    <2>3. CASE ServeDir \/ OpenFile
      BY <1>1, <2>3, EndType, GoToType DEF ServeDir, OpenFile, TypeOK
    <2>4. CASE FileBody
      <3>1. CASE Write("body", 200, st.size, End("done"))
        BY <1>1, <1>3, <3>1, WriteType
      <3>2. CASE Partly /\ End("fault")
        <4>1. ProcType'
          BY <1>1, <3>2, EndType DEF TypeOK
        <4>2. PICK n \in 0..st.size-1 : UNCHANGED out \/ Send("body", 200, n)
          BY <3>2 DEF Partly
        <4>3. out' \in Seq(Pieces)
          BY <4>2, SendType DEF TypeOK
        <4> QED
          BY <4>1, <4>3
      <3> QED
        BY <2>4, <3>1, <3>2 DEF FileBody
    <2> QED
      BY <2>1, <2>2, <2>3, <2>4 DEF Answers
  <1> QED
    BY <1>2, <1>4 DEF TypeOK

LEMMA DynamicType == ASSUME TypeOK, Dynamic PROVE TypeOK'
  <1>1. /\ UNCHANGED <<client, files, pos, parsed>>
        /\ {"grand", "end", "posthead", "dup", "exec", "program"} \subseteq Places
        /\ {"done", "fork", "exec"} \subseteq Reasons
    BY DEF Dynamic, CgiHead, ForkCgi, ForkHelper, PostHead, CloseEnds, PostExec, PostRun,
           Places, Reasons
  <1>2. ClientType' /\ ParsedType'
    BY <1>1, SameClient, SameParsed DEF TypeOK
  <1>3. ProcType' /\ out' \in Seq(Pieces)
    <2>1. CASE CgiHead \/ PostHead \/ PostRun
      BY <1>1, <2>1, WriteType DEF CgiHead, PostHead, PostRun
    <2>2. CASE PostExec
      BY <1>1, <2>2, EndType, GoToType DEF PostExec, TypeOK
    <2>3. CASE ForkCgi
      BY <1>1, <2>3, EndType DEF ForkCgi, TypeOK, ProcType
    <2>4. CASE ForkHelper
      BY <1>1, <2>4, EndType DEF ForkHelper, TypeOK, ProcType
    <2>5. CASE CloseEnds
      BY <1>1, <2>5 DEF CloseEnds, TypeOK, ProcType
    <2> QED
      BY <2>1, <2>2, <2>3, <2>4, <2>5 DEF Dynamic
  <1> QED
    BY <1>2, <1>3 DEF TypeOK

LEMMA WorkersType == ASSUME TypeOK, Grand \/ Helper PROVE TypeOK'
  <1>1. ClientType' /\ UNCHANGED <<client, files, parsed>>
    BY SameClient DEF Grand, Helper, GrandExec, GrandRun, HelperRead, HelperHas, HelperFails,
                      HelperWrite, TypeOK
  <1>2. ParsedType'
    <2>1. pos' \in 0..sent
      BY DEF Grand, Helper, GrandExec, GrandRun, HelperRead, HelperHas, HelperFails,
             HelperWrite, TypeOK, ParsedType, ClientType
    <2> QED
      BY <1>1, <2>1 DEF client, parsed, TypeOK, ParsedType
  <1>3. ProcType' /\ out' \in Seq(Pieces)
    <2>1. CASE Grand
      <3>1. out' \in Seq(Pieces)
        <4>1. UNCHANGED out \/ Send("body", 200, -1)
          BY <2>1 DEF Grand, GrandExec, GrandRun
        <4> QED
          BY <4>1, SendType DEF TypeOK
      <3>2. ProcType'
        BY <2>1 DEF Grand, GrandExec, GrandRun, TypeOK, ProcType
      <3> QED
        BY <3>1, <3>2
    <2>2. CASE HelperRead
      BY <2>2 DEF HelperRead, TypeOK, ProcType, ParsedType
    <2>3. CASE HelperHas \/ HelperFails
      BY <2>3 DEF HelperHas, HelperFails, HelperEnds, TypeOK, ProcType
    <2>4. CASE HelperWrite
      <3>1. /\ length \in Nat /\ Len(data) \in Nat /\ data \in Seq(Nat) /\ pipe \in Seq(Nat)
        BY DoitAssumption DEF TypeOK, ProcType, ParsedType
      <3>2. [i \in 1..length |-> IF i <= Len(data) THEN data[i] ELSE 0] \in Seq(Nat)
        BY <3>1
      <3>3. pipe' \in Seq(Nat)
        BY <2>4, <3>1, <3>2 DEF HelperWrite
      <3> QED
        BY <2>4, <3>3 DEF HelperWrite, HelperEnds, TypeOK, ProcType
    <2> QED
      BY <2>1, <2>2, <2>3, <2>4 DEF Helper
  <1> QED
    BY <1>1, <1>2, <1>3 DEF TypeOK

-----------------------------------------------------------------------------
(* The other parts of the invariant, one action at a time. *)

LEMMA Counts == ASSUME TypeOK PROVE /\ changes \in Nat /\ pos \in Nat /\ sent \in Nat
                                    /\ length \in Nat /\ Len(data) \in Nat
                                    /\ pos <= sent /\ Len(Lines) \in Nat
  BY Requested, DoitAssumption DEF TypeOK, ClientType, ParsedType, ProcType

\* What the header loops have seen.
LEMMA ScanStep ==
    ASSUME TypeOK, Scan, Handover, [Next]_vars PROVE Scan'
  <1>1. CASE PeerSend
    BY <1>1 DEF PeerSend, client, files, parsed, workers, Scan, IsHeadEnd, Lines,
       Handover, PostPlaces, TypeOK, ClientType, ParsedType, Places
  <1>2. CASE PeerLeave
    BY <1>2 DEF PeerLeave, client, files, parsed, workers, Scan, IsHeadEnd, Lines,
       Handover, PostPlaces, TypeOK, ClientType, ParsedType, Places
  <1>3. CASE FileChange
    BY <1>3 DEF FileChange, client, files, parsed, workers, Scan, IsHeadEnd, Lines,
       Handover, PostPlaces, TypeOK, ClientType, ParsedType, Places
  <1>4. CASE ReadRequest
    BY <1>4 DEF ReadRequest, Parsed, Garbage, End, GoTo, client, files, parsed, workers,
       Scan, IsHeadEnd, Lines, Handover, PostPlaces, TypeOK, ClientType, ParsedType,
       Places
  <1>5. CASE RequestEof
    BY <1>5 DEF RequestEof, AtEnd, Parsed, Garbage, End, GoTo, client, files, parsed,
       workers, Scan, IsHeadEnd, Lines, Handover, PostPlaces, TypeOK, ClientType,
       ParsedType, Places
  <1>6. CASE ReadHeader
    BY <1>6 DEF ReadHeader, HeadersRead, Error, GoTo, TakesBody, client, files, parsed,
       workers, Scan, IsHeadEnd, Lines, Handover, PostPlaces, TypeOK, ClientType,
       ParsedType, Places
  <1>7. CASE HeaderEof
    BY <1>7 DEF HeaderEof, AtEnd, GoTo, client, files, parsed, workers, Scan, IsHeadEnd,
       Lines, Handover, PostPlaces, TypeOK, ClientType, ParsedType, Places
  <1>8. CASE ReadFails
    BY <1>8 DEF ReadFails, End, client, files, parsed, workers, Scan, IsHeadEnd, Lines,
       Handover, PostPlaces, TypeOK, ClientType, ParsedType, Places
  <1>9. CASE ConfigFails
    BY <1>9 DEF ConfigFails, End, client, files, parsed, workers, Scan, IsHeadEnd, Lines,
       Handover, PostPlaces, TypeOK, ClientType, ParsedType, Places
  <1>10. CASE WrongRoot
    BY <1>10 DEF WrongRoot, Error, GoTo, client, files, parsed, workers, Scan, IsHeadEnd,
       Lines, Handover, PostPlaces, TypeOK, ClientType, ParsedType, Places
  <1>11. CASE Lookup
    BY <1>11 DEF Lookup, Error, GoTo, client, files, parsed, workers, Scan, IsHeadEnd,
       Lines, Handover, PostPlaces, TypeOK, ClientType, ParsedType, Places
  <1>12. CASE ErrorHead
    BY <1>12 DEF ErrorHead, Write, Send, End, GoTo, client, files, parsed, workers, Scan,
       IsHeadEnd, Lines, Handover, PostPlaces, TypeOK, ClientType, ParsedType, Places
  <1>13. CASE ErrorBody
    BY <1>13 DEF ErrorBody, Write, Send, End, GoTo, client, files, parsed, workers, Scan,
       IsHeadEnd, Lines, Handover, PostPlaces, TypeOK, ClientType, ParsedType, Places
  <1>14. CASE ServeDir
    BY <1>14 DEF ServeDir, End, GoTo, client, files, parsed, workers, Scan, IsHeadEnd,
       Lines, Handover, PostPlaces, TypeOK, ClientType, ParsedType, Places
  <1>15. CASE DirHead
    BY <1>15 DEF DirHead, Write, Send, End, GoTo, client, files, parsed, workers, Scan,
       IsHeadEnd, Lines, Handover, PostPlaces, TypeOK, ClientType, ParsedType, Places
  <1>16. CASE DirBody
    BY <1>16 DEF DirBody, Write, Send, End, client, files, parsed, workers, Scan,
       IsHeadEnd, Lines, Handover, PostPlaces, TypeOK, ClientType, ParsedType, Places
  <1>17. CASE OpenFile
    BY <1>17 DEF OpenFile, End, GoTo, client, files, parsed, workers, Scan, IsHeadEnd,
       Lines, Handover, PostPlaces, TypeOK, ClientType, ParsedType, Places
  <1>18. CASE FileHead
    BY <1>18 DEF FileHead, Write, Send, End, GoTo, client, files, parsed, workers, Scan,
       IsHeadEnd, Lines, Handover, PostPlaces, TypeOK, ClientType, ParsedType, Places
  <1>19. CASE FileBody
    BY <1>19 DEF FileBody, Write, Send, End, client, files, parsed, workers, Scan,
       IsHeadEnd, Lines, Handover, PostPlaces, TypeOK, ClientType, ParsedType, Places
  <1>20. CASE CgiHead
    BY <1>20 DEF CgiHead, Write, Send, End, GoTo, client, files, parsed, workers, Scan,
       IsHeadEnd, Lines, Handover, PostPlaces, TypeOK, ClientType, ParsedType, Places
  <1>21. CASE ForkCgi
    BY <1>21 DEF ForkCgi, End, client, files, parsed, workers, Scan, IsHeadEnd, Lines,
       Handover, PostPlaces, TypeOK, ClientType, ParsedType, Places
  <1>22. CASE ForkHelper
    BY <1>22 DEF ForkHelper, End, client, files, parsed, workers, Scan, IsHeadEnd, Lines,
       Handover, PostPlaces, TypeOK, ClientType, ParsedType, Places
  <1>23. CASE PostHead
    BY <1>23, SMTT(30) DEF PostHead, Write, Send, End, GoTo, client, files, parsed, workers, Scan,
       IsHeadEnd, Lines, Handover, PostPlaces, TypeOK, ClientType, ParsedType, Places
  <1>24. CASE CloseEnds
    BY <1>24 DEF CloseEnds, client, files, parsed, workers, Scan, IsHeadEnd, Lines,
       Handover, PostPlaces, TypeOK, ClientType, ParsedType, Places
  <1>25. CASE PostExec
    BY <1>25, SMTT(30) DEF PostExec, End, GoTo, client, files, parsed, workers, Scan, IsHeadEnd,
       Lines, Handover, PostPlaces, TypeOK, ClientType, ParsedType, Places
  <1>26. CASE PostRun
    BY <1>26, SMTT(30) DEF PostRun, Write, Send, End, client, files, parsed, workers, Scan,
       IsHeadEnd, Lines, Handover, PostPlaces, TypeOK, ClientType, ParsedType, Places
  <1>27. CASE GrandExec
    <2>1. UNCHANGED <<client, pc, why, pos>>
      BY <1>27 DEF GrandExec
    <2> QED
      BY <2>1 DEF Scan, IsHeadEnd, Lines, client
  <1>28. CASE GrandRun
    BY <1>28 DEF GrandRun, Send, client, files, parsed, workers, Scan, IsHeadEnd, Lines,
       Handover, PostPlaces, TypeOK, ClientType, ParsedType, Places
  <1>29. CASE HelperRead
    BY <1>29 DEF HelperRead, client, files, parsed, workers, Scan, IsHeadEnd, Lines,
       Handover, PostPlaces, TypeOK, ClientType, ParsedType, Places
  <1>30. CASE HelperHas
    BY <1>30 DEF HelperHas, AtEnd, client, files, parsed, workers, Scan, IsHeadEnd, Lines,
       Handover, PostPlaces, TypeOK, ClientType, ParsedType, Places
  <1>31. CASE HelperFails
    BY <1>31 DEF HelperFails, HelperEnds, client, files, parsed, workers, Scan, IsHeadEnd,
       Lines, Handover, PostPlaces, TypeOK, ClientType, ParsedType, Places
  <1>32. CASE HelperWrite
    BY <1>32 DEF HelperWrite, HelperEnds, client, files, parsed, workers, Scan, IsHeadEnd,
       Lines, Handover, PostPlaces, TypeOK, ClientType, ParsedType, Places
  <1>33. CASE UNCHANGED vars
    BY <1>33 DEF vars, client, files, parsed, workers, Scan, IsHeadEnd, Lines, Handover,
       PostPlaces, TypeOK, ClientType, ParsedType, Places
  <1> QED
    BY <1>1, <1>2, <1>3, <1>4, <1>5, <1>6, <1>7, <1>8, <1>9, <1>10, <1>11, <1>12, <1>13,
       <1>14, <1>15, <1>16, <1>17, <1>18, <1>19, <1>20, <1>21, <1>22, <1>23, <1>24, <1>25,
       <1>26, <1>27, <1>28, <1>29, <1>30, <1>31, <1>32, <1>33 DEF Next, Child, Reads,
       Looks, Answers, Dynamic, Grand, Helper, Over

\* What EndHasReason says apart from the answer.
ReasonHolds ==
    /\ why = "gone" => peer = "rst"
    /\ why = "fault" => changes > 0
    /\ why = "garbage" => req.uri = "none" \/ pos = 0
    /\ pc = "spin" => peer # "open" /\ ~ \E i \in 2..sent : Lines[i] = "blank"

\* Why a child ends.
LEMMA ReasonStep ==
    ASSUME TypeOK, ReasonHolds, Scan, Handover, [Next]_vars PROVE ReasonHolds'
  <1>1. CASE PeerSend
    BY <1>1, Counts DEF PeerSend, client, files, parsed, workers, ReasonHolds, Scan,
       Handover, PostPlaces, Lines
  <1>2. CASE PeerLeave
    BY <1>2, Counts DEF PeerLeave, client, files, parsed, workers, ReasonHolds, Scan,
       Handover, PostPlaces, Lines
  <1>3. CASE FileChange
    BY <1>3, Counts DEF FileChange, client, files, parsed, workers, ReasonHolds, Scan,
       Handover, PostPlaces, Lines
  <1>4. CASE ReadRequest
    BY <1>4, Counts DEF ReadRequest, Parsed, Garbage, End, GoTo, client, files, parsed,
       workers, ReasonHolds, Scan, Handover, PostPlaces, Lines
  <1>5. CASE RequestEof
    BY <1>5, Counts DEF RequestEof, AtEnd, Parsed, Garbage, End, GoTo, client, files,
       parsed, workers, ReasonHolds, Scan, Handover, PostPlaces, Lines
  <1>6. CASE ReadHeader
    BY <1>6, Counts DEF ReadHeader, HeadersRead, Error, GoTo, TakesBody, client, files,
       parsed, workers, ReasonHolds, Scan, Handover, PostPlaces, Lines
  <1>7. CASE HeaderEof
    BY <1>7, Counts DEF HeaderEof, AtEnd, GoTo, client, files, parsed, workers,
       ReasonHolds, Scan, Handover, PostPlaces, Lines
  <1>8. CASE ReadFails
    BY <1>8, Counts DEF ReadFails, End, client, files, parsed, workers, ReasonHolds,
       Scan, Handover, PostPlaces, Lines
  <1>9. CASE ConfigFails
    BY <1>9, Counts DEF ConfigFails, End, client, files, parsed, workers, ReasonHolds,
       Scan, Handover, PostPlaces, Lines
  <1>10. CASE WrongRoot
    BY <1>10, Counts DEF WrongRoot, Error, GoTo, client, files, parsed, workers,
       ReasonHolds, Scan, Handover, PostPlaces, Lines
  <1>11. CASE Lookup
    BY <1>11, Counts DEF Lookup, Error, GoTo, client, files, parsed, workers,
       ReasonHolds, Scan, Handover, PostPlaces, Lines
  <1>12. CASE ErrorHead
    BY <1>12, Counts DEF ErrorHead, Write, Send, End, GoTo, client, files, parsed,
       workers, ReasonHolds, Scan, Handover, PostPlaces, Lines
  <1>13. CASE ErrorBody
    BY <1>13, Counts DEF ErrorBody, Write, Send, End, GoTo, client, files, parsed,
       workers, ReasonHolds, Scan, Handover, PostPlaces, Lines
  <1>14. CASE ServeDir
    BY <1>14, Counts DEF ServeDir, End, GoTo, client, files, parsed, workers,
       ReasonHolds, Scan, Handover, PostPlaces, Lines
  <1>15. CASE DirHead
    BY <1>15, Counts DEF DirHead, Write, Send, End, GoTo, client, files, parsed, workers,
       ReasonHolds, Scan, Handover, PostPlaces, Lines
  <1>16. CASE DirBody
    BY <1>16, Counts DEF DirBody, Write, Send, End, client, files, parsed, workers,
       ReasonHolds, Scan, Handover, PostPlaces, Lines
  <1>17. CASE OpenFile
    BY <1>17, Counts DEF OpenFile, End, GoTo, client, files, parsed, workers, ReasonHolds,
       Scan, Handover, PostPlaces, Lines
  <1>18. CASE FileHead
    BY <1>18, Counts DEF FileHead, Write, Send, End, GoTo, client, files, parsed, workers,
       ReasonHolds, Scan, Handover, PostPlaces, Lines
  <1>19. CASE FileBody
    BY <1>19, Counts DEF FileBody, Write, Send, End, client, files, parsed, workers,
       ReasonHolds, Scan, Handover, PostPlaces, Lines
  <1>20. CASE CgiHead
    BY <1>20, Counts DEF CgiHead, Write, Send, End, GoTo, client, files, parsed, workers,
       ReasonHolds, Scan, Handover, PostPlaces, Lines
  <1>21. CASE ForkCgi
    BY <1>21, Counts DEF ForkCgi, End, client, files, parsed, workers, ReasonHolds, Scan,
       Handover, PostPlaces, Lines
  <1>22. CASE ForkHelper
    BY <1>22, Counts DEF ForkHelper, End, client, files, parsed, workers, ReasonHolds,
       Scan, Handover, PostPlaces, Lines
  <1>23. CASE PostHead
    BY <1>23, Counts DEF PostHead, Write, Send, End, GoTo, client, files, parsed, workers,
       ReasonHolds, Scan, Handover, PostPlaces, Lines
  <1>24. CASE CloseEnds
    BY <1>24, Counts DEF CloseEnds, client, files, parsed, workers, ReasonHolds, Scan,
       Handover, PostPlaces, Lines
  <1>25. CASE PostExec
    BY <1>25, Counts DEF PostExec, End, GoTo, client, files, parsed, workers,
       ReasonHolds, Scan, Handover, PostPlaces, Lines
  <1>26. CASE PostRun
    BY <1>26, Counts DEF PostRun, Write, Send, End, client, files, parsed, workers,
       ReasonHolds, Scan, Handover, PostPlaces, Lines
  <1>27. CASE GrandExec
    BY <1>27, Counts DEF GrandExec, client, files, parsed, workers, ReasonHolds, Scan,
       Handover, PostPlaces, Lines
  <1>28. CASE GrandRun
    BY <1>28, Counts DEF GrandRun, Send, client, files, parsed, workers, ReasonHolds,
       Scan, Handover, PostPlaces, Lines
  <1>29. CASE HelperRead
    BY <1>29, Counts DEF HelperRead, client, files, parsed, workers, ReasonHolds, Scan,
       Handover, PostPlaces, Lines
  <1>30. CASE HelperHas
    BY <1>30, Counts DEF HelperHas, AtEnd, client, files, parsed, workers, ReasonHolds,
       Scan, Handover, PostPlaces, Lines
  <1>31. CASE HelperFails
    BY <1>31, Counts DEF HelperFails, HelperEnds, client, files, parsed, workers,
       ReasonHolds, Scan, Handover, PostPlaces, Lines
  <1>32. CASE HelperWrite
    BY <1>32, Counts DEF HelperWrite, HelperEnds, client, files, parsed, workers,
       ReasonHolds, Scan, Handover, PostPlaces, Lines
  <1>33. CASE UNCHANGED vars
    BY <1>33, Counts DEF vars, client, files, parsed, workers, ReasonHolds, Scan,
       Handover, PostPlaces, Lines
  <1> QED
    BY <1>1, <1>2, <1>3, <1>4, <1>5, <1>6, <1>7, <1>8, <1>9, <1>10, <1>11, <1>12, <1>13,
       <1>14, <1>15, <1>16, <1>17, <1>18, <1>19, <1>20, <1>21, <1>22, <1>23, <1>24, <1>25,
       <1>26, <1>27, <1>28, <1>29, <1>30, <1>31, <1>32, <1>33 DEF Next, Child, Reads,
       Looks, Answers, Dynamic, Grand, Helper, Over

\* A head is written where nothing was, and the child goes on.
LEMMA HeadStep ==
    ASSUME Progress, out = <<>>, grand = "none", NEW x, NEW c, NEW n,
           Send("head", c, n), GoTo(x), UNCHANGED parsed,
           \/ x = "errbody" /\ c = code /\ n = ErrBody /\ code \in {403, 404, 501}
           \/ x = "dirbody" /\ c = 200 /\ n = DirLen /\ code = 0
           \/ x = "body" /\ c = 200 /\ n = st.size /\ code = 0
           \/ x \in {"grand", "dup"} /\ c = 200 /\ n = -1 /\ code = 0
    PROVE  Progress' /\ OneAnswer'
  <1>1. /\ out' = <<[what |-> "head", code |-> c, len |-> n]>>
        /\ Len(out') = 1 /\ out'[1].what = "head"
    BY DEF Send
  <1>2. pc' = x /\ grand' = "none" /\ code' = code /\ st' = st
    BY DEF GoTo, workers, parsed
  <1>3. Progress'
    BY <1>1, <1>2 DEF Progress, Unanswered, HeadSent
  <1>4. OneAnswer'
    BY <1>1, <1>2 DEF OneAnswer
  <1> QED
    BY <1>3, <1>4

LEMMA SecondPiece ==
    ASSUME NEW h, NEW b, NEW s, s = <<h>>
    PROVE  Len(Append(s, b)) = 2 /\ Append(s, b)[1] = h /\ Append(s, b)[2] = b
  <1> DEFINE S == {h, b}
  <1>1. s \in Seq(S) /\ b \in S /\ Len(s) = 1 /\ s[1] = h
    OBVIOUS
  <1> HIDE DEF S
  <1> QED
    BY <1>1

\* The body is written behind its head, and the child ends.
LEMMA BodyStep ==
    ASSUME Progress, NEW c, NEW n, NEW m, HeadSent(c, n), Send("body", c, m),
           c = 200 => m = n \/ (m < n /\ why' = "fault" /\ changes' > 0),
           pc' = "end", grand \in {"none", "run"},
           grand' \in {"none", "end"}
    PROVE  Progress' /\ OneAnswer'
  <1> DEFINE h == [what |-> "head", code |-> c, len |-> n]
             b == [what |-> "body", code |-> c, len |-> m]
  <1>1. out = <<h>> /\ out' = Append(out, b)
    BY DEF Send, HeadSent
  <1>2. /\ h.what = "head" /\ h.code = c /\ h.len = n
        /\ b.what = "body" /\ b.code = c /\ b.len = m
    OBVIOUS
  <1> HIDE DEF h, b
  <1>3. Len(Append(out, b)) = 2 /\ Append(out, b)[1] = h /\ Append(out, b)[2] = b
    BY <1>1, SecondPiece
  <1>4. Len(out') = 2 /\ out'[1] = h /\ out'[2] = b
    BY <1>1, <1>3
  <1>5. OneAnswer'
    BY <1>2, <1>4 DEF OneAnswer
  <1>6. Progress'
    BY DEF Progress, Unanswered
  <1> QED
    BY <1>5, <1>6

\* The child ends behind its head.
LEMMA Interrupted ==
    ASSUME NEW c, NEW n, HeadSent(c, n), UNCHANGED <<out, grand>>, grand = "none",
           pc' = "end", why' # "done"
    PROVE  Progress' /\ OneAnswer'
  <1>1. Len(out') = 1 /\ out'[1].what = "head"
    BY DEF HeadSent
  <1> QED
    BY <1>1 DEF OneAnswer, Progress, Unanswered

\* One answer, head first.
LEMMA AnswerStep ==
    ASSUME TypeOK, Scan, Progress, OneAnswer, [Next]_vars PROVE Progress' /\ OneAnswer'
  <1>1. CASE PeerSend
    BY <1>1 DEF PeerSend, client, files, parsed, workers, OneAnswer, Progress, Unanswered,
       HeadSent
  <1>2. CASE PeerLeave
    BY <1>2 DEF PeerLeave, client, files, parsed, workers, OneAnswer, Progress,
       Unanswered, HeadSent
  <1>3. CASE FileChange
    BY <1>3, Counts DEF FileChange, client, files, parsed, workers, OneAnswer, Progress,
       Unanswered, HeadSent
  <1>4. CASE ReadRequest
    BY <1>4 DEF ReadRequest, Parsed, Garbage, End, GoTo, client, files, parsed, workers,
       OneAnswer, Progress, Unanswered, HeadSent
  <1>5. CASE RequestEof
    BY <1>5 DEF RequestEof, AtEnd, Parsed, Garbage, End, GoTo, client, files, parsed,
       workers, OneAnswer, Progress, Unanswered, HeadSent
  <1>6. CASE ReadHeader
    BY <1>6 DEF ReadHeader, HeadersRead, Error, GoTo, TakesBody, client, files, parsed,
       workers, OneAnswer, Progress, Unanswered, HeadSent
  <1>7. CASE HeaderEof
    BY <1>7 DEF HeaderEof, AtEnd, GoTo, client, files, parsed, workers, OneAnswer,
       Progress, Unanswered, HeadSent
  <1>8. CASE ReadFails
    BY <1>8 DEF ReadFails, End, client, files, parsed, workers, OneAnswer, Progress,
       Unanswered, HeadSent
  <1>9. CASE ConfigFails
    BY <1>9 DEF ConfigFails, End, client, files, parsed, workers, OneAnswer, Progress,
       Unanswered, HeadSent
  <1>10. CASE WrongRoot
    BY <1>10 DEF WrongRoot, Error, GoTo, client, files, parsed, workers, OneAnswer,
       Progress, Unanswered, HeadSent
  <1>11. CASE Lookup
    BY <1>11 DEF Lookup, Error, GoTo, client, files, parsed, workers, OneAnswer, Progress,
       Unanswered, HeadSent
  <1>12. CASE ErrorHead
    <2>1. CASE peer = "rst"
      BY <1>12, <2>1 DEF ErrorHead, Write, End, GoTo, client, files, parsed, workers, OneAnswer,
                        Progress, Unanswered, HeadSent
    <2>2. CASE peer # "rst"
      <3>1. /\ out = <<>> /\ grand = "none"
            /\ Send("head", code, ErrBody) /\ GoTo("errbody") /\ UNCHANGED parsed /\ code \in {403, 404, 501}
        BY <1>12, <2>2 DEF ErrorHead, Write, Progress, Unanswered
      <3> QED
        BY <3>1, HeadStep
    <2> QED
      BY <2>1, <2>2
  <1>13. CASE ErrorBody
    <2>1. CASE peer = "rst"
      BY <1>13, <2>1 DEF ErrorBody, Write, End, GoTo, client, files, parsed, workers, OneAnswer,
                        Progress, Unanswered, HeadSent
    <2>2. CASE peer # "rst"
      <3>1. /\ HeadSent(code, ErrBody) /\ code # 200 /\ Send("body", code, ErrHead)
            /\ pc' = "end" /\ grand = "none" /\ grand' = "none"
        BY <1>13, <2>2 DEF ErrorBody, Write, End, Progress
      <3> QED
        BY <3>1, BodyStep
    <2> QED
      BY <2>1, <2>2
  <1>14. CASE ServeDir
    BY <1>14 DEF ServeDir, End, GoTo, client, files, parsed, workers, OneAnswer, Progress,
       Unanswered, HeadSent
  <1>15. CASE DirHead
    <2>1. CASE peer = "rst"
      BY <1>15, <2>1 DEF DirHead, Write, End, GoTo, client, files, parsed, workers, OneAnswer,
                        Progress, Unanswered, HeadSent
    <2>2. CASE peer # "rst"
      <3>1. /\ out = <<>> /\ grand = "none"
            /\ Send("head", 200, DirLen) /\ GoTo("dirbody") /\ UNCHANGED parsed /\ code = 0
        BY <1>15, <2>2 DEF DirHead, Write, Progress, Unanswered
      <3> QED
        BY <3>1, HeadStep
    <2> QED
      BY <2>1, <2>2
  <1>16. CASE DirBody
    <2>1. CASE peer = "rst"
      BY <1>16, <2>1, Interrupted DEF DirBody, Write, End, Progress
    <2>2. CASE peer # "rst"
      <3>1. /\ HeadSent(200, DirLen) /\ Send("body", 200, DirLen)
            /\ pc' = "end" /\ grand = "none" /\ grand' = "none"
        BY <1>16, <2>2 DEF DirBody, Write, End, Progress
      <3> QED
        BY <3>1, BodyStep
    <2> QED
      BY <2>1, <2>2
  <1>17. CASE OpenFile
    BY <1>17 DEF OpenFile, End, GoTo, client, files, parsed, workers, OneAnswer, Progress,
       Unanswered, HeadSent
  <1>18. CASE FileHead
    <2>1. CASE peer = "rst"
      BY <1>18, <2>1 DEF FileHead, Write, End, GoTo, client, files, parsed, workers, OneAnswer,
                        Progress, Unanswered, HeadSent
    <2>2. CASE peer # "rst"
      <3>1. /\ out = <<>> /\ grand = "none"
            /\ Send("head", 200, st.size) /\ GoTo("body") /\ UNCHANGED parsed /\ code = 0
        BY <1>18, <2>2 DEF FileHead, Write, Progress, Unanswered
      <3> QED
        BY <3>1, HeadStep
    <2> QED
      BY <2>1, <2>2
  <1>19. CASE FileBody
    <2>1. CASE changes > 0 /\ Partly /\ End("fault")
      <3>1. PICK n \in 0..st.size-1 : IF n = 0 THEN UNCHANGED out ELSE Send("body", 200, n)
        BY <2>1 DEF Partly
      <3>2. CASE UNCHANGED out
        BY <1>19, <2>1, <3>2 DEF FileBody, End, client, files, parsed, OneAnswer, Progress,
                                Unanswered, HeadSent
      <3>3. CASE Send("body", 200, n)
        <4>1. /\ HeadSent(200, st.size) /\ pc' = "end" /\ grand = "none" /\ grand' = "none"
              /\ why' = "fault" /\ changes' > 0
          BY <1>19, <2>1 DEF FileBody, End, files, Progress
        <4>2. n < st.size
          BY DoitAssumption DEF TypeOK, ParsedType
        <4> QED
          BY <3>3, <4>1, <4>2, BodyStep
      <3> QED
        BY <3>1, <3>2, <3>3
    <2>2. CASE Write("body", 200, st.size, End("done")) /\ peer = "rst"
      BY <1>19, <2>2, Interrupted DEF FileBody, Write, End, Progress
    <2>3. CASE Write("body", 200, st.size, End("done")) /\ peer # "rst"
      <3>1. /\ HeadSent(200, st.size) /\ Send("body", 200, st.size)
            /\ pc' = "end" /\ grand = "none" /\ grand' = "none"
        BY <1>19, <2>3 DEF FileBody, Write, End, Progress
      <3> QED
        BY <3>1, BodyStep
    <2> QED
      BY <1>19, <2>1, <2>2, <2>3 DEF FileBody
  <1>20. CASE CgiHead
    <2>1. CASE peer = "rst"
      BY <1>20, <2>1 DEF CgiHead, Write, End, GoTo, client, files, parsed, workers, OneAnswer,
                        Progress, Unanswered, HeadSent
    <2>2. CASE peer # "rst"
      <3>1. /\ out = <<>> /\ grand = "none"
            /\ Send("head", 200, -1) /\ GoTo("grand") /\ UNCHANGED parsed /\ code = 0
        BY <1>20, <2>2 DEF CgiHead, Write, Progress, Unanswered
      <3> QED
        BY <3>1, HeadStep
    <2> QED
      BY <2>1, <2>2
  <1>21. CASE ForkCgi
    BY <1>21 DEF ForkCgi, End, client, files, parsed, workers, OneAnswer, Progress,
       Unanswered, HeadSent
  <1>22. CASE ForkHelper
    BY <1>22 DEF ForkHelper, End, client, files, parsed, workers, OneAnswer, Progress,
       Unanswered, HeadSent
  <1>23. CASE PostHead
    <2>1. CASE peer = "rst"
      BY <1>23, <2>1 DEF PostHead, Write, End, GoTo, client, files, parsed, workers, OneAnswer,
                        Progress, Unanswered, HeadSent
    <2>2. CASE peer # "rst"
      <3>1. /\ out = <<>> /\ grand = "none"
            /\ Send("head", 200, -1) /\ GoTo("dup") /\ UNCHANGED parsed /\ code = 0
        BY <1>23, <2>2 DEF PostHead, Write, Progress, Unanswered
      <3> QED
        BY <3>1, HeadStep
    <2> QED
      BY <2>1, <2>2
  <1>24. CASE CloseEnds
    BY <1>24 DEF CloseEnds, client, files, parsed, workers, OneAnswer, Progress,
       Unanswered, HeadSent
  <1>25. CASE PostExec
    <2>1. CASE End("exec")
      BY <1>25, <2>1, Interrupted DEF PostExec, End, Progress
    <2>2. CASE GoTo("program")
      <3>1. /\ pc = "exec" /\ pc' = "program"
            /\ UNCHANGED <<why, workers, files, parsed, out>>
        BY <1>25, <2>2 DEF PostExec, GoTo
      <3> QED
        BY <3>1 DEF files, parsed, workers, OneAnswer, Progress, Unanswered, HeadSent
    <2> QED
      BY <1>25, <2>1, <2>2 DEF PostExec
  <1>26. CASE PostRun
    <2>1. CASE peer = "rst"
      BY <1>26, <2>1, Interrupted DEF PostRun, Write, End, Progress
    <2>2. CASE peer # "rst"
      <3>1. /\ HeadSent(200, -1) /\ Send("body", 200, -1)
            /\ pc' = "end" /\ grand = "none" /\ grand' = "none"
        BY <1>26, <2>2 DEF PostRun, Write, End, Progress
      <3> QED
        BY <3>1, BodyStep
    <2> QED
      BY <2>1, <2>2
  <1>27. CASE GrandExec
    <2>1. /\ grand = "exec" /\ grand' \in {"run", "end"}
          /\ UNCHANGED <<pc, why, files, parsed, out>>
      BY <1>27 DEF GrandExec
    <2> QED
      BY <2>1 DEF files, parsed, OneAnswer, Progress, Unanswered, HeadSent
  <1>28. CASE GrandRun
    BY <1>28 DEF GrandRun, Send, client, files, parsed, workers, OneAnswer, Progress,
       Unanswered, HeadSent
  <1>29. CASE HelperRead
    BY <1>29 DEF HelperRead, client, files, parsed, workers, OneAnswer, Progress,
       Unanswered, HeadSent
  <1>30. CASE HelperHas
    BY <1>30 DEF HelperHas, AtEnd, client, files, parsed, workers, OneAnswer, Progress,
       Unanswered, HeadSent
  <1>31. CASE HelperFails
    BY <1>31 DEF HelperFails, HelperEnds, client, files, parsed, workers, OneAnswer,
       Progress, Unanswered, HeadSent
  <1>32. CASE HelperWrite
    BY <1>32 DEF HelperWrite, HelperEnds, client, files, parsed, workers, OneAnswer,
       Progress, Unanswered, HeadSent
  <1>33. CASE UNCHANGED vars
    BY <1>33 DEF vars, client, files, parsed, workers, OneAnswer, Progress, Unanswered,
       HeadSent
  <1> QED
    BY <1>1, <1>2, <1>3, <1>4, <1>5, <1>6, <1>7, <1>8, <1>9, <1>10, <1>11, <1>12, <1>13,
       <1>14, <1>15, <1>16, <1>17, <1>18, <1>19, <1>20, <1>21, <1>22, <1>23, <1>24, <1>25,
       <1>26, <1>27, <1>28, <1>29, <1>30, <1>31, <1>32, <1>33 DEF Next, Child, Reads,
       Looks, Answers, Dynamic, Grand, Helper, Over

\* A child that ends leaves nothing, a head, or a head and a body.
LEMMA FitsEnd ==
    ASSUME pc' = "end",
           \/ /\ out' = <<>> /\ why' \in {"garbage", "config", "gone", "dir", "open", "fork"}
              /\ code' = 0 \/ why' = "gone"
           \/ /\ Len(out') = 1 /\ why' \in {"gone", "fault", "fork", "exec"}
              /\ code' = 0 \/ why' = "gone"
           \/ /\ Len(out') = 1 /\ why' = "done" /\ code' = 0 /\ grand' # "none"
           \/ /\ Len(out') = 2 /\ why' \in {"done", "fault"}
    PROVE  AnswerFits'
  BY DEF AnswerFits

LEMMA WriteEnds ==
    ASSUME Progress, NEW n, NEW c, NEW m, HeadSent(c, m), UNCHANGED code, pc # "end",
           Write("body", c, n, End("done"))
    PROVE  AnswerFits'
  <1>1. Len(out) = 1
    BY DEF HeadSent
  <1>2. CASE peer = "rst"
    BY <1>1, <1>2, FitsEnd DEF Write, End
  <1>3. CASE peer # "rst"
    <2>1. Len(out') = 2
      BY <1>3, SecondPiece DEF Write, Send, HeadSent
    <2> QED
      BY <1>3, <2>1, FitsEnd DEF Write, End
  <1> QED
    BY <1>2, <1>3

LEMMA FitsStep ==
    ASSUME TypeOK, Progress, OneAnswer, AnswerFits, [Next]_vars PROVE AnswerFits'
  <1>1. CASE pc' # "end"
    BY <1>1 DEF AnswerFits
  <1>2. CASE UNCHANGED <<pc, why, code, out>> /\ (grand # "none" => grand' # "none")
    BY <1>2 DEF AnswerFits
  <1>3. CASE PeerSend \/ PeerLeave \/ FileChange \/ Helper \/ GrandExec \/ UNCHANGED vars
    BY <1>2, <1>3 DEF PeerSend, PeerLeave, FileChange, Helper, HelperRead, HelperHas,
       HelperFails, HelperWrite, GrandExec, parsed, workers, vars
  <1>4. CASE GrandRun
    <2>1. HeadSent(200, -1) /\ pc = "end"
      BY <1>4 DEF GrandRun, Progress
    <2>2. CASE UNCHANGED out
      BY <1>2, <1>4, <2>2 DEF GrandRun, parsed
    <2>3. CASE Send("body", 200, -1)
      <3>1. Len(out') = 2 /\ Len(out) = 1
        BY <2>1, <2>3, SecondPiece DEF Send, HeadSent
      <3>2. UNCHANGED <<pc, why, code>>
        BY <1>4 DEF GrandRun, parsed
      <3>3. out # <<>>
        BY <3>1
      <3> QED
        BY <2>1, <3>1, <3>2, <3>3 DEF AnswerFits
    <2> QED
      BY <1>4, <2>2, <2>3 DEF GrandRun
  <1>5. CASE Child /\ pc' = "end"
    <2>1. CASE ReadRequest \/ RequestEof
      <3>1. pc = "request" /\ UNCHANGED <<code, out>> /\ why' = "garbage"
        BY <1>5, <2>1 DEF ReadRequest, RequestEof, Parsed, Garbage, End, GoTo, parsed
      <3>2. out = <<>> /\ code = 0
        BY <3>1 DEF Progress, Unanswered
      <3> QED
        BY <1>5, <3>1, <3>2, FitsEnd
    <2>2. CASE ReadFails \/ ConfigFails \/ ServeDir \/ OpenFile \/ ForkHelper
      <3>1. /\ pc \in {"request", "headers", "spin", "lookup", "dir", "open", "fork"}
            /\ UNCHANGED <<code, out>> /\ why' \in {"gone", "config", "dir", "open", "fork"}
        BY <1>5, <2>2 DEF ReadFails, ConfigFails, ServeDir, OpenFile, ForkHelper, End, GoTo, parsed
      <3>2. out = <<>> /\ code = 0
        BY <3>1 DEF Progress, Unanswered
      <3> QED
        BY <1>5, <3>1, <3>2, FitsEnd
    <2>3. CASE ErrorHead \/ DirHead \/ FileHead \/ CgiHead \/ PostHead
      <3>1. /\ pc \in {"error", "dirhead", "head", "cgi", "posthead"}
            /\ UNCHANGED out /\ why' = "gone"
        BY <1>5, <2>3 DEF ErrorHead, DirHead, FileHead, CgiHead, PostHead, Write, End, GoTo
      <3>2. out = <<>>
        BY <3>1 DEF Progress, Unanswered
      <3> QED
        BY <1>5, <3>1, <3>2, FitsEnd
    <2>4. CASE ErrorBody \/ DirBody \/ PostRun
      <3>1. UNCHANGED code /\ pc # "end"
        BY <2>4 DEF ErrorBody, DirBody, PostRun, parsed
      <3>2. \E c, m, n : HeadSent(c, m) /\ Write("body", c, n, End("done"))
        BY <2>4 DEF ErrorBody, DirBody, PostRun, Progress
      <3> QED
        BY <3>1, <3>2, WriteEnds
    <2>5. CASE FileBody
      <3>1. UNCHANGED code /\ pc # "end" /\ HeadSent(200, st.size) /\ code = 0
        BY <2>5 DEF FileBody, parsed, Progress
      <3>2. CASE Write("body", 200, st.size, End("done"))
        BY <3>1, <3>2, WriteEnds
      <3>3. CASE Partly /\ End("fault")
        <4>1. UNCHANGED out \/ \E n : Send("body", 200, n)
          BY <3>3 DEF Partly
        <4>2. CASE UNCHANGED out
          BY <1>5, <3>1, <3>3, <4>2, FitsEnd DEF End, HeadSent
        <4>3. CASE \E n : Send("body", 200, n)
          <5>1. Len(out') = 2
            BY <3>1, <4>3, SecondPiece DEF Send, HeadSent
          <5> QED
            BY <1>5, <3>3, <5>1, FitsEnd DEF End
        <4> QED
          BY <4>1, <4>2, <4>3
      <3> QED
        BY <2>5, <3>2, <3>3 DEF FileBody
    <2>6. CASE ForkCgi \/ PostExec
      <3>1. /\ pc \in {"grand", "exec"} /\ UNCHANGED <<code, out>>
            /\ why' \in {"fork", "exec"} \/ (why' = "done" /\ grand' = "exec")
        BY <1>5, <2>6 DEF ForkCgi, PostExec, End, GoTo, parsed
      <3>2. Len(out) = 1 /\ code = 0
        BY <3>1 DEF Progress, HeadSent
      <3> QED
        BY <1>5, <3>1, <3>2, FitsEnd
    <2>7. CASE ReadHeader \/ HeaderEof \/ WrongRoot \/ Lookup \/ CloseEnds
      BY <1>5, <2>7 DEF ReadHeader, HeadersRead, HeaderEof, WrongRoot, Lookup, CloseEnds, Error,
                       GoTo
    <2> QED
      BY <1>5, <2>1, <2>2, <2>3, <2>4, <2>5, <2>6, <2>7 DEF Child, Reads, Looks, Answers, Dynamic
  <1> QED
    BY <1>1, <1>3, <1>4, <1>5 DEF Next, Grand, Over

\* Steps of the child after the fork leave the body to the helper.
LEMMA SameHandover ==
    ASSUME Handover, UNCHANGED <<client, pos, length, helper, data, pipe>>,
           pc \in PostPlaces, pc' \in PostPlaces \cup {"end"}, why' # "garbage",
           "helper" \in writers => "helper" \in writers'
    PROVE  Handover'
  BY DEF Handover, PostPlaces, client, IsHeadEnd, Lines

\* The body on its way.
LEMMA HandoverStep ==
    ASSUME TypeOK, Scan, Handover, [Next]_vars PROVE Handover'
  <1>1. CASE PeerSend
    BY <1>1 DEF PeerSend, client, files, parsed, workers, Handover, PostPlaces, Scan,
       IsHeadEnd, Lines, TypeOK, ClientType, ParsedType, ProcType
  <1>2. CASE PeerLeave
    BY <1>2 DEF PeerLeave, client, files, parsed, workers, Handover, PostPlaces, Scan,
       IsHeadEnd, Lines, TypeOK, ClientType, ParsedType, ProcType
  <1>3. CASE FileChange
    BY <1>3 DEF FileChange, client, files, parsed, workers, Handover, PostPlaces, Scan,
       IsHeadEnd, Lines, TypeOK, ClientType, ParsedType, ProcType
  <1>4. CASE ReadRequest
    BY <1>4 DEF ReadRequest, Parsed, Garbage, End, GoTo, client, files, parsed, workers,
       Handover, PostPlaces, Scan, IsHeadEnd, Lines, TypeOK, ClientType, ParsedType,
       ProcType
  <1>5. CASE RequestEof
    BY <1>5 DEF RequestEof, AtEnd, Parsed, Garbage, End, GoTo, client, files, parsed,
       workers, Handover, PostPlaces, Scan, IsHeadEnd, Lines, TypeOK, ClientType,
       ParsedType, ProcType
  <1>6. CASE ReadHeader
    BY <1>6 DEF ReadHeader, HeadersRead, Error, GoTo, TakesBody, client, files, parsed,
       workers, Handover, PostPlaces, Scan, IsHeadEnd, Lines, TypeOK, ClientType,
       ParsedType, ProcType
  <1>7. CASE HeaderEof
    BY <1>7 DEF HeaderEof, AtEnd, GoTo, client, files, parsed, workers, Handover,
       PostPlaces, Scan, IsHeadEnd, Lines, TypeOK, ClientType, ParsedType, ProcType
  <1>8. CASE ReadFails
    BY <1>8 DEF ReadFails, End, client, files, parsed, workers, Handover, PostPlaces,
       Scan, IsHeadEnd, Lines, TypeOK, ClientType, ParsedType, ProcType
  <1>9. CASE ConfigFails
    BY <1>9 DEF ConfigFails, End, client, files, parsed, workers, Handover, PostPlaces,
       Scan, IsHeadEnd, Lines, TypeOK, ClientType, ParsedType, ProcType
  <1>10. CASE WrongRoot
    BY <1>10 DEF WrongRoot, Error, GoTo, client, files, parsed, workers, Handover,
       PostPlaces, Scan, IsHeadEnd, Lines, TypeOK, ClientType, ParsedType, ProcType
  <1>11. CASE Lookup
    BY <1>11 DEF Lookup, Error, GoTo, client, files, parsed, workers, Handover,
       PostPlaces, Scan, IsHeadEnd, Lines, TypeOK, ClientType, ParsedType, ProcType
  <1>12. CASE ErrorHead
    BY <1>12 DEF ErrorHead, Write, Send, End, GoTo, client, files, parsed, workers,
       Handover, PostPlaces, Scan, IsHeadEnd, Lines, TypeOK, ClientType, ParsedType,
       ProcType
  <1>13. CASE ErrorBody
    BY <1>13 DEF ErrorBody, Write, Send, End, GoTo, client, files, parsed, workers,
       Handover, PostPlaces, Scan, IsHeadEnd, Lines, TypeOK, ClientType, ParsedType,
       ProcType
  <1>14. CASE ServeDir
    BY <1>14 DEF ServeDir, End, GoTo, client, files, parsed, workers, Handover,
       PostPlaces, Scan, IsHeadEnd, Lines, TypeOK, ClientType, ParsedType, ProcType
  <1>15. CASE DirHead
    BY <1>15 DEF DirHead, Write, Send, End, GoTo, client, files, parsed, workers,
       Handover, PostPlaces, Scan, IsHeadEnd, Lines, TypeOK, ClientType, ParsedType,
       ProcType
  <1>16. CASE DirBody
    BY <1>16 DEF DirBody, Write, Send, End, client, files, parsed, workers, Handover,
       PostPlaces, Scan, IsHeadEnd, Lines, TypeOK, ClientType, ParsedType, ProcType
  <1>17. CASE OpenFile
    BY <1>17 DEF OpenFile, End, GoTo, client, files, parsed, workers, Handover,
       PostPlaces, Scan, IsHeadEnd, Lines, TypeOK, ClientType, ParsedType, ProcType
  <1>18. CASE FileHead
    BY <1>18 DEF FileHead, Write, Send, End, GoTo, client, files, parsed, workers,
       Handover, PostPlaces, Scan, IsHeadEnd, Lines, TypeOK, ClientType, ParsedType,
       ProcType
  <1>19. CASE FileBody
    BY <1>19 DEF FileBody, Write, Send, End, client, files, parsed, workers, Handover,
       PostPlaces, Scan, IsHeadEnd, Lines, TypeOK, ClientType, ParsedType, ProcType
  <1>20. CASE CgiHead
    BY <1>20 DEF CgiHead, Write, Send, End, GoTo, client, files, parsed, workers,
       Handover, PostPlaces, Scan, IsHeadEnd, Lines, TypeOK, ClientType, ParsedType,
       ProcType
  <1>21. CASE ForkCgi
    BY <1>21 DEF ForkCgi, End, client, files, parsed, workers, Handover, PostPlaces, Scan,
       IsHeadEnd, Lines, TypeOK, ClientType, ParsedType, ProcType
  <1>22. CASE ForkHelper
    <2>1. /\ IsHeadEnd(pos)' /\ helper = "none" /\ data = <<>> /\ data' = <<>> /\ pipe' = <<>>
          /\ pos' = pos /\ length' = length
      BY <1>22 DEF ForkHelper, End, Handover, PostPlaces, Scan, client, parsed, IsHeadEnd, Lines
    <2>2. Len(data') = 0 /\ pos' - Len(data') = pos' /\ Len(data') <= length'
      BY <2>1, Counts
    <2> QED
      BY <1>22, <2>1, <2>2 DEF ForkHelper, End, Handover, PostPlaces, Scan
  <1>23. CASE PostHead
    <2>1. /\ UNCHANGED <<client, pos, length, helper, data, pipe>> /\ pc \in PostPlaces
          /\ pc' \in PostPlaces \cup {"end"}
          /\ "helper" \in writers => "helper" \in writers'
      BY <1>23 DEF PostHead, Write, End, GoTo, parsed, workers, PostPlaces
    <2>2. why' # "garbage"
      BY <1>23 DEF PostHead, Write, End, GoTo, Scan
    <2> QED
      BY <2>1, <2>2, SameHandover
  <1>24. CASE CloseEnds
    <2>1. /\ UNCHANGED <<client, pos, length, helper, data, pipe>> /\ pc \in PostPlaces
          /\ pc' \in PostPlaces \cup {"end"}
          /\ "helper" \in writers => "helper" \in writers'
      BY <1>24 DEF CloseEnds, parsed, workers, PostPlaces
    <2>2. why' # "garbage"
      BY <1>24 DEF CloseEnds, Scan
    <2> QED
      BY <2>1, <2>2, SameHandover
  <1>25. CASE PostExec
    <2>1. /\ UNCHANGED <<client, pos, length, helper, data, pipe>> /\ pc \in PostPlaces
          /\ pc' \in PostPlaces \cup {"end"}
          /\ "helper" \in writers => "helper" \in writers'
      BY <1>25 DEF PostExec, End, GoTo, parsed, workers, PostPlaces
    <2>2. why' # "garbage"
      BY <1>25 DEF PostExec, End, GoTo, Scan
    <2> QED
      BY <2>1, <2>2, SameHandover
  <1>26. CASE PostRun
    <2>1. /\ UNCHANGED <<client, pos, length, helper, data, pipe>> /\ pc \in PostPlaces
          /\ pc' \in PostPlaces \cup {"end"}
          /\ "helper" \in writers => "helper" \in writers'
      BY <1>26 DEF PostRun, Write, End, parsed, workers, PostPlaces
    <2>2. why' # "garbage"
      BY <1>26 DEF PostRun, Write, End, Scan
    <2> QED
      BY <2>1, <2>2, SameHandover
  <1>27. CASE GrandExec
    BY <1>27 DEF GrandExec, client, files, parsed, workers, Handover, PostPlaces, Scan,
       IsHeadEnd, Lines, TypeOK, ClientType, ParsedType, ProcType
  <1>28. CASE GrandRun
    BY <1>28 DEF GrandRun, Send, client, files, parsed, workers, Handover, PostPlaces,
       Scan, IsHeadEnd, Lines, TypeOK, ClientType, ParsedType, ProcType
  <1>29. CASE HelperRead
    <2>1. /\ pos' = pos + 1 /\ data' = Append(data, pos + 1) /\ helper = "read"
          /\ Len(data) < length
          /\ UNCHANGED <<client, pc, why, length, helper, pipe, writers>>
      BY <1>29 DEF HelperRead, parsed
    <2>2. /\ Len(data') = Len(data) + 1 /\ data'[Len(data) + 1] = pos + 1
          /\ \A i \in 1..Len(data) : data'[i] = data[i]
      BY <2>1 DEF TypeOK, ProcType
    <2>3. pos' - Len(data') = pos - Len(data) /\ Len(data') <= length
      BY <2>1, <2>2, Counts
    <2>4. IsHeadEnd(pos - Len(data))'
      BY <2>1, <2>3 DEF Handover, IsHeadEnd, Lines, client
    <2>5. \A i \in 1..Len(data') : data'[i] = pos' - Len(data') + i
      <3> SUFFICES ASSUME NEW i \in 1..Len(data') PROVE data'[i] = pos - Len(data) + i
        BY <2>3
      <3>1. CASE i \in 1..Len(data)
        BY <2>1, <2>2, <3>1 DEF Handover
      <3>2. CASE i = Len(data) + 1
        BY <2>1, <2>2, <3>2, Counts
      <3> QED
        BY <2>2, <3>1, <3>2, Counts
    <2> QED
      BY <2>1, <2>3, <2>4, <2>5 DEF Handover, PostPlaces
  <1>30. CASE HelperHas
    BY <1>30 DEF HelperHas, AtEnd, client, files, parsed, workers, Handover, PostPlaces,
       Scan, IsHeadEnd, Lines, TypeOK, ClientType, ParsedType, ProcType
  <1>31. CASE HelperFails
    BY <1>31 DEF HelperFails, HelperEnds, client, files, parsed, workers, Handover,
       PostPlaces, Scan, IsHeadEnd, Lines, TypeOK, ClientType, ParsedType, ProcType
  <1>32. CASE HelperWrite
    BY <1>32 DEF HelperWrite, HelperEnds, client, files, parsed, workers, Handover,
       PostPlaces, Scan, IsHeadEnd, Lines, TypeOK, ClientType, ParsedType, ProcType
  <1>33. CASE UNCHANGED vars
    BY <1>33 DEF vars, client, files, parsed, workers, Handover, PostPlaces, Scan,
       IsHeadEnd, Lines, TypeOK, ClientType, ParsedType, ProcType
  <1> QED
    BY <1>1, <1>2, <1>3, <1>4, <1>5, <1>6, <1>7, <1>8, <1>9, <1>10, <1>11, <1>12, <1>13,
       <1>14, <1>15, <1>16, <1>17, <1>18, <1>19, <1>20, <1>21, <1>22, <1>23, <1>24, <1>25,
       <1>26, <1>27, <1>28, <1>29, <1>30, <1>31, <1>32, <1>33 DEF Next, Child, Reads,
       Looks, Answers, Dynamic, Grand, Helper, Over

\* What the pipe holds does not change.
LEMMA PipeStep ==
    ASSUME TypeOK, Handover, PipeHolds, [Next]_vars PROVE PipeHolds'
  <1>1. CASE PeerSend
    BY <1>1 DEF PeerSend, client, files, parsed, workers, PipeHolds, Handover, PostPlaces
  <1>2. CASE PeerLeave
    BY <1>2 DEF PeerLeave, client, files, parsed, workers, PipeHolds, Handover, PostPlaces
  <1>3. CASE FileChange
    BY <1>3 DEF FileChange, client, files, parsed, workers, PipeHolds, Handover,
       PostPlaces
  <1>4. CASE ReadRequest
    BY <1>4 DEF ReadRequest, Parsed, Garbage, End, GoTo, client, files, parsed, workers,
       PipeHolds, Handover, PostPlaces
  <1>5. CASE RequestEof
    BY <1>5 DEF RequestEof, AtEnd, Parsed, Garbage, End, GoTo, client, files, parsed,
       workers, PipeHolds, Handover, PostPlaces
  <1>6. CASE ReadHeader
    BY <1>6 DEF ReadHeader, HeadersRead, Error, GoTo, TakesBody, client, files, parsed,
       workers, PipeHolds, Handover, PostPlaces
  <1>7. CASE HeaderEof
    BY <1>7 DEF HeaderEof, AtEnd, GoTo, client, files, parsed, workers, PipeHolds,
       Handover, PostPlaces
  <1>8. CASE ReadFails
    BY <1>8 DEF ReadFails, End, client, files, parsed, workers, PipeHolds, Handover,
       PostPlaces
  <1>9. CASE ConfigFails
    BY <1>9 DEF ConfigFails, End, client, files, parsed, workers, PipeHolds, Handover,
       PostPlaces
  <1>10. CASE WrongRoot
    BY <1>10 DEF WrongRoot, Error, GoTo, client, files, parsed, workers, PipeHolds,
       Handover, PostPlaces
  <1>11. CASE Lookup
    BY <1>11 DEF Lookup, Error, GoTo, client, files, parsed, workers, PipeHolds, Handover,
       PostPlaces
  <1>12. CASE ErrorHead
    BY <1>12 DEF ErrorHead, Write, Send, End, GoTo, client, files, parsed, workers,
       PipeHolds, Handover, PostPlaces
  <1>13. CASE ErrorBody
    BY <1>13 DEF ErrorBody, Write, Send, End, GoTo, client, files, parsed, workers,
       PipeHolds, Handover, PostPlaces
  <1>14. CASE ServeDir
    BY <1>14 DEF ServeDir, End, GoTo, client, files, parsed, workers, PipeHolds, Handover,
       PostPlaces
  <1>15. CASE DirHead
    BY <1>15 DEF DirHead, Write, Send, End, GoTo, client, files, parsed, workers,
       PipeHolds, Handover, PostPlaces
  <1>16. CASE DirBody
    BY <1>16 DEF DirBody, Write, Send, End, client, files, parsed, workers, PipeHolds,
       Handover, PostPlaces
  <1>17. CASE OpenFile
    BY <1>17 DEF OpenFile, End, GoTo, client, files, parsed, workers, PipeHolds, Handover,
       PostPlaces
  <1>18. CASE FileHead
    BY <1>18 DEF FileHead, Write, Send, End, GoTo, client, files, parsed, workers,
       PipeHolds, Handover, PostPlaces
  <1>19. CASE FileBody
    BY <1>19 DEF FileBody, Write, Send, End, client, files, parsed, workers, PipeHolds,
       Handover, PostPlaces
  <1>20. CASE CgiHead
    BY <1>20 DEF CgiHead, Write, Send, End, GoTo, client, files, parsed, workers,
       PipeHolds, Handover, PostPlaces
  <1>21. CASE ForkCgi
    BY <1>21 DEF ForkCgi, End, client, files, parsed, workers, PipeHolds, Handover,
       PostPlaces
  <1>22. CASE ForkHelper
    BY <1>22 DEF ForkHelper, End, client, files, parsed, workers, PipeHolds, Handover,
       PostPlaces
  <1>23. CASE PostHead
    BY <1>23 DEF PostHead, Write, Send, End, GoTo, client, files, parsed, workers,
       PipeHolds, Handover, PostPlaces
  <1>24. CASE CloseEnds
    BY <1>24 DEF CloseEnds, client, files, parsed, workers, PipeHolds, Handover,
       PostPlaces
  <1>25. CASE PostExec
    BY <1>25 DEF PostExec, End, GoTo, client, files, parsed, workers, PipeHolds, Handover,
       PostPlaces
  <1>26. CASE PostRun
    BY <1>26 DEF PostRun, Write, Send, End, client, files, parsed, workers, PipeHolds,
       Handover, PostPlaces
  <1>27. CASE GrandExec
    BY <1>27 DEF GrandExec, client, files, parsed, workers, PipeHolds, Handover,
       PostPlaces
  <1>28. CASE GrandRun
    BY <1>28 DEF GrandRun, Send, client, files, parsed, workers, PipeHolds, Handover,
       PostPlaces
  <1>29. CASE HelperRead
    BY <1>29 DEF HelperRead, client, files, parsed, workers, PipeHolds, Handover,
       PostPlaces
  <1>30. CASE HelperHas
    BY <1>30 DEF HelperHas, AtEnd, client, files, parsed, workers, PipeHolds, Handover,
       PostPlaces
  <1>31. CASE HelperFails
    BY <1>31 DEF HelperFails, HelperEnds, client, files, parsed, workers, PipeHolds,
       Handover, PostPlaces
  <1>32. CASE HelperWrite
    <2>1. /\ UNCHANGED <<client, pos, length, data>> /\ pipe = <<>>
          /\ Len(data) = length \/ (pos = sent /\ peer # "open")
      BY <1>32 DEF HelperWrite, Handover, parsed
    <2>2. CASE pc = "end"
      BY <1>32, <2>1, <2>2 DEF HelperWrite, PipeHolds
    <2>3. CASE pc # "end"
      <3>1. pipe' = [i \in 1..length |-> IF i <= Len(data) THEN data[i] ELSE 0]
        BY <1>32, <2>3 DEF HelperWrite
      <3>2. Len(pipe') = length
        BY <3>1, Counts
      <3>3. \A i \in 1..length : IF i <= Len(data) THEN pipe'[i] = data[i]
                                ELSE pipe'[i] = 0 /\ peer # "open" /\ pos = sent
        BY <2>1, <3>1, Counts
      <3> QED
        BY <2>1, <3>2, <3>3 DEF PipeHolds, client
    <2> QED
      BY <2>2, <2>3
  <1>33. CASE UNCHANGED vars
    BY <1>33 DEF vars, client, files, parsed, workers, PipeHolds, Handover, PostPlaces
  <1> QED
    BY <1>1, <1>2, <1>3, <1>4, <1>5, <1>6, <1>7, <1>8, <1>9, <1>10, <1>11, <1>12, <1>13,
       <1>14, <1>15, <1>16, <1>17, <1>18, <1>19, <1>20, <1>21, <1>22, <1>23, <1>24, <1>25,
       <1>26, <1>27, <1>28, <1>29, <1>30, <1>31, <1>32, <1>33 DEF Next, Child, Reads,
       Looks, Answers, Dynamic, Grand, Helper, Over

\* The body is intact whenever the handover is.
LEMMA BodyFromHandover == ASSUME TypeOK, Handover, PipeHolds PROVE BodyIntact
  <1>1. \A i \in 1..Len(data) : BodyByte(i, data[i])
    <2> SUFFICES ASSUME NEW i \in 1..Len(data) PROVE BodyByte(i, data[i])
      OBVIOUS
    <2>1. helper # "none"
      BY DEF Handover
    <2>2. IsHeadEnd(pos - Len(data)) /\ data[i] = pos - Len(data) + i
      BY <2>1 DEF Handover
    <2>3. pos - Len(data) \in 2..Len(Lines)
      BY <2>2 DEF IsHeadEnd
    <2> QED
      BY <2>2, <2>3 DEF BodyByte
  <1>2. pc = "program" /\ writers = {} /\ peer = "open" => Len(pipe) = length
    BY DEF Handover, PostPlaces, TypeOK, ProcType
  <1> QED
    BY <1>1, <1>2 DEF BodyIntact

-----------------------------------------------------------------------------
(* The theorems. *)

LEMMA InitOK == Init => IInv
  <1> SUFFICES ASSUME Init PROVE IInv
    OBVIOUS
  <1>1. TypeOK
    <2>1. ClientType
      BY Requested, DoitAssumption DEF Init, ClientType, Lines
    <2>2. ParsedType
      BY DoitAssumption DEF Init, ParsedType, Methods, Uris
    <2>3. ProcType /\ out \in Seq(Pieces)
      BY DEF Init, ProcType, Places, Reasons
    <2> QED
      BY <2>1, <2>2, <2>3 DEF TypeOK
  <1>2. OneAnswer /\ Progress
    BY DEF Init, OneAnswer, Progress, Unanswered
  <1>3. PipeHolds /\ Handover
    BY DEF Init, PipeHolds, Handover, PostPlaces
  <1>4. EndHasReason /\ Scan
    BY DEF Init, EndHasReason, AnswerFits, Scan
  <1> QED
    BY <1>1, <1>2, <1>3, <1>4, BodyFromHandover DEF IInv

LEMMA StepOK == IInv /\ [Next]_vars => IInv'
  <1> SUFFICES ASSUME IInv, [Next]_vars PROVE IInv'
    OBVIOUS
  <1>1. /\ TypeOK /\ OneAnswer /\ ReasonHolds /\ AnswerFits /\ PipeHolds
        /\ Progress /\ Scan /\ Handover
    BY DEF IInv, BodyIntact, EndHasReason, ReasonHolds
  <1>2. TypeOK'
    <2>1. CASE UNCHANGED vars
      BY <1>1, <2>1, SameClient, SameParsed, SameProc DEF vars, client, files, TypeOK
    <2>2. pc \in {"error", "errbody"} => code \in {403, 404, 501}
      BY <1>1 DEF Progress
    <2> QED
      BY <1>1, <2>1, <2>2, PeerType, ReadsType, LooksType, AnswersType, DynamicType,
         WorkersType DEF Next, Child, Over
  <1>3. Scan' /\ Handover' /\ PipeHolds'
    BY <1>1, ScanStep, HandoverStep, PipeStep
  <1>4. Progress' /\ OneAnswer'
    BY <1>1, AnswerStep
  <1>6. EndHasReason'
    BY <1>1, ReasonStep, FitsStep DEF EndHasReason, ReasonHolds
  <1>5. BodyIntact'
    BY <1>2, <1>3, BodyFromHandover, PTL
  <1> QED
    BY <1>2, <1>3, <1>4, <1>5, <1>6 DEF IInv

\* The inductive invariant holds in every reachable state of every child.
THEOREM Invariance == Spec => []IInv
  BY InitOK, StepOK, PTL DEF Spec

\* Type correctness of a child and its helpers.
THEOREM TypeCorrect == Spec => []TypeOK
  <1>1. IInv => TypeOK
    BY DEF IInv
  <1> QED
    BY <1>1, Invariance, PTL

\* The client sees at most one answer, a head and the body that belongs to it,
\* whatever happens to the file and in whatever order the processes run.
THEOREM AnswersOnce == Spec => []OneAnswer
  <1>1. IInv => OneAnswer
    BY DEF IInv
  <1> QED
    BY <1>1, Invariance, PTL

\* The CGI program of a POST reads the body of the request, and only that.
THEOREM ProgramReadsBody == Spec => []BodyIntact
  <1>1. IInv => BodyIntact
    BY DEF IInv
  <1> QED
    BY <1>1, Invariance, PTL

\* A child that ends without a whole answer, or loops in the headers, does so for
\* one of the listed reasons.
THEOREM EndsForAReason == Spec => []EndHasReason
  <1>1. IInv => EndHasReason
    BY DEF IInv
  <1> QED
    BY <1>1, Invariance, PTL
=============================================================================
