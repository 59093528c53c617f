-------------------------------- MODULE Doit --------------------------------
(***************************************************************************)
(* http_main.c: doit, the life of one child of twebs. It reads a request   *)
(* from its client, looks up what is asked for, and answers with a file, a *)
(* directory, an error page or the output of a CGI program, which for POST *)
(* takes the body from a helper process over a pipe. Files change under it *)
(* between one system call and the next, and the client may leave.         *)
(*                                                                         *)
(* A request is a sequence of lines and, behind the empty line, of bytes;  *)
(* Rio gives them to the callers one by one (module ByteReader). A write is*)
(* one step: Rio_writen returns when all is written.                       *)
(***************************************************************************)
EXTENDS Integers, Sequences

CONSTANTS Requests,    \* what clients send: [method, uri, lines]
          Files,       \* what lstat may find: [kind, read, exec, size], read and
                       \* exec being the owner's bits
          Absent,      \* in Files: there is nothing
          Worlds,      \* what the URI may name below the root and below cwd
          ShowDir,     \* is_show_dir
          BodyLen,     \* the number in the header Content-Length
          DirLen,      \* the size of a directory's page
          ErrHead,     \* the size of the head of an error page
          ErrBody,     \* the size of its body
          MaxChanges   \* bound: how often the file changes

Methods == {"GET", "POST", "other"}
\* "page": a path that does not contain cig-bin; "cgi": one below /cgi-bin;
\* "cig": one that contains cig-bin. "none": there is no second word.
Uris == {"page", "cgi", "cig"}
Items == {"req", "hdr", "len", "blank", "part", "byte"}

ASSUME DoitAssumption ==
    /\ Requests \subseteq [method : Methods, uri : Uris \cup {"none"}, lines : Seq(Items)]
    /\ Files \subseteq [kind : {"none", "dir", "reg", "other"}, read : BOOLEAN,
                        exec : BOOLEAN, size : Nat]
    /\ Absent \in Files /\ Absent.kind = "none"
    /\ Worlds \subseteq [{"root", "cwd"} -> Files]
    /\ ShowDir \in BOOLEAN
    /\ BodyLen \in Nat /\ DirLen \in Nat /\ MaxChanges \in Nat
    /\ ErrHead \in Nat /\ ErrBody \in Nat

VARIABLES
    \* the client
    req, sent, peer,
    \* the file system: what the URI names below the root and below cwd
    fs, changes,
    \* the child
    pc, why,        \* where it is; how it ended
    pos,            \* what it, or its helper, has read of the request
    method, uri,    \* as sscanf found them
    st,             \* status
    code,           \* of the error page
    length,         \* content_length
    \* its children
    grand,          \* the CGI program of a GET
    helper, data,   \* the process that reads the body of a POST
    pipe, writers,  \* the pipe: its contents, who has its writing end open
    \* the connection
    out

client  == <<req, sent, peer>>
files   == <<fs, changes>>
parsed  == <<method, uri, st, code, length>>
workers == <<grand, helper, data, pipe, writers>>
vars == <<client, files, pc, why, pos, parsed, workers, out>>

Init == /\ req \in Requests /\ sent = 0 /\ peer = "open"
        /\ fs \in Worlds /\ changes = 0
        /\ pc = "request" /\ why = "none" /\ pos = 0
        /\ method = "other" /\ uri = "page" /\ st = Absent /\ code = 0 /\ length = 0
        /\ grand = "none" /\ helper = "none" /\ data = <<>>
        /\ pipe = <<>> /\ writers = {}
        /\ out = <<>>

Lines == req.lines
AtEnd == peer = "fin" /\ pos = sent
Static == uri # "cig"
File == fs[IF Static THEN "root" ELSE "cwd"]

\* exit, or a signal: the child's descriptors are closed.
End(reason) == /\ pc' = "end" /\ why' = reason
               /\ writers' = writers \ {"child"}
               /\ UNCHANGED <<grand, helper, data, pipe>>
GoTo(place) == pc' = place /\ UNCHANGED <<why, workers>>

\* Rio_writen: to a client that has gone it ends the process (or SIGPIPE does).
Send(what, c, n) == out' = Append(out, [what |-> what, code |-> c, len |-> n])
Write(what, c, n, next) ==
    IF peer = "rst" THEN End("gone") /\ UNCHANGED out
    ELSE Send(what, c, n) /\ next

-----------------------------------------------------------------------------
(* The client and the file system. *)

PeerSend  == /\ peer = "open"
             /\ sent' \in sent+1..Len(Lines)
             /\ UNCHANGED <<req, peer, files, pc, why, pos, parsed, workers, out>>
PeerLeave == /\ peer # "rst"
             /\ peer' \in {"fin", "rst"} \ {peer}
             /\ UNCHANGED <<req, sent, files, pc, why, pos, parsed, workers, out>>

\* Somebody replaces, truncates, removes, creates or chmods it.
FileChange == /\ changes < MaxChanges
              /\ changes' = changes + 1
              /\ \E f \in Files \ {File} :
                   fs' = [fs EXCEPT ![IF Static THEN "root" ELSE "cwd"] = f]
              /\ UNCHANGED <<client, pc, why, pos, parsed, workers, out>>

-----------------------------------------------------------------------------
(* The request line. *)

\* sscanf has found m and u.
Parsed(m, u) == /\ method' = m /\ uri' = u
                /\ IF m = "other" THEN code' = 501 /\ GoTo("error")
                                  ELSE UNCHANGED code /\ GoTo("lookup")
                /\ UNCHANGED <<st, length>>

\* The buffers uri (and method) are not initialized: without a word for them
\* they hold anything.
Garbage == End("garbage") /\ UNCHANGED parsed

ReadRequest ==
    /\ pc = "request" /\ pos < sent
    /\ pos' = pos + 1
    /\ IF req.uri # "none" THEN Parsed(req.method, req.uri)
       ELSE Garbage \/ \E u \in Uris : Parsed(req.method, u)
    /\ UNCHANGED <<client, files, out>>

RequestEof ==
    /\ pc = "request" /\ AtEnd
    /\ Garbage \/ \E m \in Methods, u \in Uris : Parsed(m, u)
    /\ UNCHANGED <<client, files, pos, out>>

-----------------------------------------------------------------------------
(* parse_uri, lstat and what follows from the status. *)

Error(c) == code' = c /\ GoTo("error")

\* Getconfig("root") finds no free descriptor (the server has leaked them), no
\* config.ini, or no root in it.
ConfigFails == /\ pc = "lookup" /\ Static
               /\ End("config")
               /\ UNCHANGED <<client, files, pos, parsed, out>>

\* temp_cwd is not initialized: what it holds is put before the root.
WrongRoot == /\ pc = "lookup" /\ Static
             /\ Error(404)
             /\ UNCHANGED <<client, files, pos, method, uri, st, length, out>>

Lookup ==
    /\ pc = "lookup"
    /\ st' = File
    /\ IF File.kind = "none" THEN Error(404)
       ELSE IF File.kind = "dir" /\ ShowDir THEN UNCHANGED code /\ GoTo("dir")
       ELSE IF ~Static /\ ~(File.kind = "reg" /\ File.exec) THEN Error(403)
       ELSE UNCHANGED code /\ GoTo("headers")
    /\ UNCHANGED <<client, files, pos, method, uri, length, out>>

-----------------------------------------------------------------------------
(* get_requesthdrs and post_requesthdrs. *)

TakesBody == ~Static /\ method = "POST"

\* The empty line has been read.
HeadersRead ==
    IF TakesBody THEN UNCHANGED code /\ GoTo("fork")
    ELSE IF ~Static THEN UNCHANGED code /\ GoTo("cgi")
    ELSE IF st.kind = "reg" /\ st.read THEN UNCHANGED code /\ GoTo("open")
    ELSE Error(403)

\* [mutant] The first line is read and not compared with the empty line.
ReadHeaderSkips ==
    /\ pc = "headers" /\ pos < sent
    /\ pos' = pos + 1
    /\ length' = IF TakesBody /\ Lines[pos + 1] = "len" /\ pos > 1
                 THEN BodyLen ELSE length
    /\ IF Lines[pos + 1] = "blank" /\ pos > 1 THEN HeadersRead
       ELSE UNCHANGED <<code, pc, why, workers>>
    /\ UNCHANGED <<client, files, method, uri, st, out>>

\* The first line is only compared with the empty line: a Content-Length there
\* is not seen.
ReadHeader ==
    /\ pc = "headers" /\ pos < sent
    /\ pos' = pos + 1
    /\ length' = IF TakesBody /\ Lines[pos + 1] = "len" /\ pos > 1
                 THEN BodyLen ELSE length
    /\ IF Lines[pos + 1] = "blank" THEN HeadersRead
       ELSE UNCHANGED <<code, pc, why, workers>>
    /\ UNCHANGED <<client, files, method, uri, st, out>>

\* The stream ends inside the headers: Rio_readlineb returns 0 and leaves buf as
\* it is, again and again.
HeaderEof ==
    /\ pc = "headers" /\ AtEnd
    /\ GoTo("spin")
    /\ UNCHANGED <<client, files, pos, parsed, out>>

\* Rio_readlineb fails.
ReadFails ==
    /\ pc \in {"request", "headers", "spin"} /\ peer = "rst"
    /\ End("gone")
    /\ UNCHANGED <<client, files, pos, parsed, out>>

-----------------------------------------------------------------------------
(* The answers of the child itself. *)

\* client_error: as much of the body is sent as the head is long.
ErrorHead == /\ pc = "error"
             /\ Write("head", code, ErrBody, GoTo("errbody"))
             /\ UNCHANGED <<client, files, pos, parsed>>
ErrorBody == /\ pc = "errbody"
             /\ Write("body", code, ErrHead, End("done"))
             /\ UNCHANGED <<client, files, pos, parsed>>

\* serve_dir: readdir of something that is no directory any more crashes; Stat
\* of a name that leads nowhere ends the process.
ServeDir == /\ pc = "dir"
            /\ \/ End("dir")
               \/ File.kind = "dir" /\ GoTo("dirhead")
            /\ UNCHANGED <<client, files, pos, parsed, out>>
DirHead == /\ pc = "dirhead"
           /\ Write("head", 200, DirLen, GoTo("dirbody"))
           /\ UNCHANGED <<client, files, pos, parsed>>

DirBody == /\ pc = "dirbody"
           /\ Write("body", 200, DirLen, End("done"))
           /\ UNCHANGED <<client, files, pos, parsed>>

\* What open and execve may succeed on: also what a link points to ("other").
\* The owner's bits do not decide it for them, as the process may be another's.
Opens == File.kind \in {"reg", "other"}

\* serve_static: Open and Mmap. Either may fail whatever lstat found (EACCES for
\* another user, EMFILE), and Mmap does for a length of 0.
OpenFile == /\ pc = "open"
            /\ \/ End("open")
               \/ Opens /\ st.size > 0 /\ GoTo("head")
            /\ UNCHANGED <<client, files, pos, parsed, out>>

FileHead == /\ pc = "head"
            /\ Write("head", 200, st.size, GoTo("body"))
            /\ UNCHANGED <<client, files, pos, parsed>>

\* [mutant] What is sent is as long as the file is by now.
FileBodyNow == /\ pc = "body"
               /\ Write("body", 200, File.size, End("done"))
               /\ UNCHANGED <<client, files, pos, parsed>>

\* Pages that a cut file has lost cannot be written: write transfers what comes
\* before them, or nothing, then fails with EFAULT.
Partly == \E n \in 0..st.size-1 :
             IF n = 0 THEN UNCHANGED out ELSE Send("body", 200, n)

FileBody == /\ pc = "body"
            /\ \/ Write("body", 200, st.size, End("done"))
               \/ changes > 0 /\ peer # "rst" /\ Partly /\ End("fault")
            /\ UNCHANGED <<client, files, pos, parsed>>

-----------------------------------------------------------------------------
(* get_dynamic. *)

CgiHead == /\ pc = "cgi"
           /\ Write("head", 200, -1, GoTo("grand"))
           /\ UNCHANGED <<client, files, pos, parsed>>

\* Fork; the child returns from doit and exits.
ForkCgi == /\ pc = "grand"
           /\ \/ grand' = "exec" /\ pc' = "end" /\ why' = "done"
                 /\ UNCHANGED <<helper, data, pipe, writers>>
              \/ End("fork")
           /\ UNCHANGED <<client, files, pos, parsed, out>>

\* Execve may fail whatever lstat found: EACCES for another user, ENOEXEC.
GrandExec == /\ grand = "exec"
             /\ \/ grand' = "end"
                \/ Opens /\ grand' = "run"
             /\ UNCHANGED <<client, files, pc, why, pos, parsed, helper, data, pipe,
                            writers, out>>
\* The CGI program writes the rest of the response.
GrandRun == /\ grand = "run"
            /\ grand' = "end"
            /\ IF peer = "rst" THEN UNCHANGED out ELSE Send("body", 200, -1)
            /\ UNCHANGED <<client, files, pc, why, pos, parsed, helper, data, pipe, writers>>

-----------------------------------------------------------------------------
(* post_dynamic. *)

\* Pipe and Fork, either of which may fail.
ForkHelper == /\ pc = "fork"
              /\ \/ helper' = "read" /\ writers' = {"child", "helper"}
                    /\ pc' = "posthead" /\ UNCHANGED <<why, grand, data, pipe>>
                 \/ End("fork")
              /\ UNCHANGED <<client, files, pos, parsed, out>>

HelperEnds == /\ helper' = "end"
              /\ writers' = writers \ {"helper"}

\* The helper has the child's rio_t: it goes on where the headers ended. (data
\* has MAXLINE bytes. Only a length from 0 to MAXLINE is modelled: with another
\* Rio_readnb writes beyond data.)
HelperRead == /\ helper = "read" /\ Len(data) < length /\ pos < sent
              /\ pos' = pos + 1
              /\ data' = Append(data, pos + 1)
              /\ UNCHANGED <<client, files, pc, why, parsed, grand, helper, pipe, writers, out>>
HelperHas == /\ helper = "read" /\ (Len(data) = length \/ AtEnd)
             /\ helper' = "write"
             /\ UNCHANGED <<client, files, pc, why, pos, parsed, grand, data, pipe, writers, out>>
HelperFails == /\ helper = "read" /\ peer = "rst" /\ Len(data) < length
               /\ HelperEnds
               /\ UNCHANGED <<client, files, pc, why, pos, parsed, grand, data, pipe, out>>

\* [mutant] The helper writes what it has read.
HelperWriteShort ==
    /\ helper = "write"
    /\ pipe' = IF pc = "end" THEN pipe ELSE data
    /\ HelperEnds
    /\ UNCHANGED <<client, files, pc, why, pos, parsed, grand, data, out>>

\* It writes content_length bytes, zeros (0) for those that did not come, and
\* exits. Without a reader it dies.
HelperWrite ==
    /\ helper = "write"
    /\ pipe' = IF pc = "end" THEN pipe
               ELSE [i \in 1..length |-> IF i <= Len(data) THEN data[i] ELSE 0]
    /\ HelperEnds
    /\ UNCHANGED <<client, files, pc, why, pos, parsed, grand, data, out>>

PostHead == /\ pc = "posthead"
            /\ Write("head", 200, -1, GoTo("dup"))
            /\ UNCHANGED <<client, files, pos, parsed>>

\* [mutant] The child keeps the pipe's writing end, and so does the program.
CloseEndsKeeps == /\ pc = "dup"
                  /\ GoTo("exec")
                  /\ UNCHANGED <<client, files, pos, parsed, out>>

\* The pipe becomes stdin, the connection stdout; the pipe's ends are closed.
CloseEnds == /\ pc = "dup"
             /\ pc' = "exec"
             /\ writers' = writers \ {"child"}
             /\ UNCHANGED <<client, files, why, pos, parsed, grand, helper, data, pipe, out>>

PostExec == /\ pc = "exec"
            /\ \/ End("exec")
               \/ Opens /\ GoTo("program")
            /\ UNCHANGED <<client, files, pos, parsed, out>>

\* The CGI program (postAuth) reads a line of at most length bytes from stdin and
\* writes the rest of the response. The pipe is filled by one write: fgets waits
\* for that, or for the end, unless it is asked for nothing.
PostRun == /\ pc = "program"
           /\ pipe # <<>> \/ writers = {} \/ length = 0
           /\ Write("body", 200, -1, End("done"))
           /\ UNCHANGED <<client, files, pos, parsed>>

-----------------------------------------------------------------------------
Closed == pc = "end" /\ helper \in {"none", "end"} /\ grand \in {"none", "end"}

\* Nothing is left to do, or the child turns in its loop.
Over == (Closed \/ pc = "spin") /\ UNCHANGED vars

Reads   == ReadRequest \/ RequestEof \/ ReadHeader \/ HeaderEof \/ ReadFails
Looks   == ConfigFails \/ WrongRoot \/ Lookup
Answers == \/ ErrorHead \/ ErrorBody \/ ServeDir \/ DirHead \/ DirBody
           \/ OpenFile \/ FileHead \/ FileBody
Dynamic == CgiHead \/ ForkCgi \/ ForkHelper \/ PostHead \/ CloseEnds \/ PostExec \/ PostRun
Child   == Reads \/ Looks \/ Answers \/ Dynamic
Grand   == GrandExec \/ GrandRun
Helper  == HelperRead \/ HelperHas \/ HelperFails \/ HelperWrite

Next == \/ PeerSend \/ PeerLeave \/ FileChange
        \/ Child \/ Grand \/ Helper
        \/ Over

Spec == Init /\ [][Next]_vars

\* The three processes run, the client takes what is written, and CGI programs
\* end. Nothing is assumed about what the client sends.
FairSpec == Spec /\ WF_vars(Child) /\ WF_vars(Grand) /\ WF_vars(Helper)

-----------------------------------------------------------------------------
(* Properties. *)

Places == {"request", "error", "errbody", "lookup", "headers", "spin", "dir", "dirhead",
           "dirbody", "open", "head", "body", "cgi", "grand", "fork", "posthead", "dup",
           "exec", "program", "end"}
Reasons == {"none", "done", "garbage", "config", "gone", "dir", "open", "fault", "fork", "exec"}

Pieces == [what : {"head", "body"}, code : {200, 403, 404, 501}, len : Int]

ClientType == /\ req \in Requests /\ sent \in 0..Len(Lines) /\ peer \in {"open", "fin", "rst"}
              /\ fs \in [{"root", "cwd"} -> Files] /\ changes \in 0..MaxChanges
ParsedType == /\ pos \in 0..sent
              /\ method \in Methods /\ uri \in Uris /\ st \in Files
              /\ code \in {0, 403, 404, 501} /\ length \in {0, BodyLen}
ProcType   == /\ pc \in Places /\ why \in Reasons
              /\ grand \in {"none", "exec", "run", "end"}
              /\ helper \in {"none", "read", "write", "end"}
              /\ data \in Seq(Nat) /\ pipe \in Seq(Nat)
              /\ writers \subseteq {"child", "helper"}

TypeOK == ClientType /\ ParsedType /\ ProcType /\ out \in Seq(Pieces)

\* However the processes interleave, the client sees one answer: a head, then
\* the body that belongs to it. The body of a file or a directory is as long as
\* its head says, although the file may have changed after lstat, or shorter
\* because write has failed on a file that was cut: never longer, and never
\* short of a child that ended well. That of an error page is cut.
OneAnswer ==
    /\ Len(out) <= 2
    /\ Len(out) > 0 => out[1].what = "head"
    /\ Len(out) = 2 =>
         /\ out[2].what = "body" /\ out[2].code = out[1].code
         /\ out[1].code = 200 =>
               \/ out[2].len = out[1].len
               \/ out[2].len < out[1].len /\ why = "fault" /\ changes > 0
    /\ (pc = "end" /\ why = "done" /\ grand = "none") => Len(out) = 2

\* Where the body of the request begins: behind the empty line that ends the
\* headers.
IsHeadEnd(i) == /\ i \in 2..Len(Lines) /\ Lines[i] = "blank"
                /\ \A j \in 2..i-1 : Lines[j] # "blank"
BodyByte(i, v) == \E h \in 2..Len(Lines) : IsHeadEnd(h) /\ v = h + i

\* The pipe holds what the helper has read, and zeros for what did not come.
PipeHolds ==
    pipe # <<>> => /\ Len(pipe) = length
                   /\ \A i \in 1..length :
                         IF i <= Len(data) THEN pipe[i] = data[i]
                         ELSE pipe[i] = 0 /\ peer # "open" /\ pos = sent

\* What the CGI program of a POST finds on stdin is the body, from its first
\* byte, none lost to the header loop and none of the headers; zeros stand only
\* for bytes of a client that has ended the stream early.
BodyIntact ==
    /\ \A i \in 1..Len(data) : BodyByte(i, data[i])
    /\ PipeHolds
    /\ pc = "program" /\ writers = {} /\ peer = "open" => Len(pipe) = length

\* The answer that a child leaves behind fits the reason for its end: nothing is
\* sent if it is the request or a call before the head; a head without a body
\* means that the client has gone, that a cut file could not be sent or that no
\* program could be started; and only a client that has gone does not get its
\* error page whole.
AnswerFits ==
    pc = "end" =>
        /\ out = <<>> => why \in {"garbage", "config", "gone", "dir", "open", "fork"}
        /\ Len(out) = 1 /\ grand = "none" => why \in {"gone", "fault", "fork", "exec"}
        /\ why \in {"garbage", "config", "dir", "open"} => out = <<>>
        /\ code # 0 /\ Len(out) < 2 => why = "gone"

\* A child that ends without a whole answer has a reason, which the answer shows
\* and which is not the child's own: failing system calls apart, a client that
\* has gone or sends no request, or a file that has changed. One that loops in
\* the headers has a client that ended the stream there.
EndHasReason ==
    /\ AnswerFits
    /\ why = "gone" => peer = "rst"
    /\ why = "fault" => changes > 0
    /\ why = "garbage" => req.uri = "none" \/ pos = 0
    /\ pc = "spin" => peer # "open" /\ ~ \E i \in 2..sent : Lines[i] = "blank"

\* What makes these inductive. Progress: how far the answer is, by place.
Unanswered == {"request", "error", "lookup", "headers", "spin", "dir", "dirhead", "open",
               "head", "cgi", "fork", "posthead"}
HeadSent(c, n) == out = <<[what |-> "head", code |-> c, len |-> n]>>

Progress ==
    /\ pc \in Unanswered => out = <<>>
    /\ pc \notin {"error", "errbody", "end"} => code = 0
    /\ pc \in {"error", "errbody"} => code \in {403, 404, 501}
    /\ pc = "errbody" => HeadSent(code, ErrBody)
    /\ pc = "dirbody" => HeadSent(200, DirLen)
    /\ pc = "body" => HeadSent(200, st.size)
    /\ pc \in {"grand", "dup", "exec", "program"} => HeadSent(200, -1)
    /\ grand \in {"exec", "run"} => HeadSent(200, -1)
    /\ grand # "none" => pc = "end"

\* Scan: what has been read in the headers.
Scan ==
    /\ pc # "end" => why = "none"
    /\ pc = "request" => pos = 0
    /\ pc = "lookup" => pos <= 1
    /\ (pc \notin {"request", "end"} /\ pos = 0) => (sent = 0 /\ peer # "open")
    /\ pc \in {"lookup", "headers", "spin"} => \A i \in 2..pos : Lines[i] # "blank"
    /\ pc = "spin" => pos = sent /\ peer # "open"
    /\ pc = "fork" => IsHeadEnd(pos)

\* Handover: how far the body is on its way through helper and pipe.
PostPlaces == {"posthead", "dup", "exec", "program"}
Handover ==
    /\ pc \in PostPlaces => helper # "none"
    /\ pc \notin PostPlaces \cup {"end"} => helper = "none"
    /\ helper = "none" => data = <<>>
    /\ helper # "none" => /\ IsHeadEnd(pos - Len(data)) /\ Len(data) <= length
                          /\ \A i \in 1..Len(data) : data[i] = pos - Len(data) + i
    /\ helper # "end" => pipe = <<>>
    /\ helper = "write" => Len(data) = length \/ (pos = sent /\ peer # "open")
    /\ helper = "end" /\ pc # "end" /\ peer # "rst" => Len(pipe) = length
    /\ helper \in {"read", "write"} => "helper" \in writers
    /\ why = "garbage" => helper = "none"

IInv == /\ TypeOK /\ OneAnswer /\ BodyIntact /\ EndHasReason
        /\ Progress /\ Scan /\ Handover

\* The request has arrived: its headers and, where there is one, its body.
Whole == \E h \in 2..sent :
            /\ IsHeadEnd(h)
            /\ (\E i \in 2..h-1 : Lines[i] = "len") => sent >= h + BodyLen

\* A client that has sent its request, or that leaves, sees the connection
\* closed: no process waits for another, and each lets go of the descriptor. The
\* exception is a stream that ends inside the headers.
Ends == (Whole \/ peer # "open") ~> (Closed \/ (pc = "spin" /\ ~Whole))

=============================================================================
