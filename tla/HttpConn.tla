------------------------------ MODULE HttpConn ------------------------------
(***************************************************************************)
(* ss/http_conn.cpp: one HttpConn object over the life of one connection,  *)
(* from Init(sockfd, addr) to CloseConn, with the peer and the kernel's    *)
(* socket buffers around it.                                               *)
(*                                                                         *)
(* Read and Write are run by the main thread, Process by a worker. The     *)
(* socket is registered with EPOLLONESHOT, so at most one of them runs at  *)
(* a time (EpollServer.tla checks and proves that); here the owner is the  *)
(* variable phase.                                                         *)
(*                                                                         *)
(* The bytes are symbols: CR, LF, NUL, BL (a blank or a tab), and words    *)
(* that stand for a run of other bytes. Sizes are counted in symbols.      *)
(*                                                                         *)
(* No statement of the source assigns CHECK_STATE_HEADER to check_state_,  *)
(* so ParseHeaders, ParseContent, DoRequest and the 200 response are never *)
(* called, and linger_ stays false: check_state_ and linger_ are constants *)
(* here, and what only those functions do is not modelled.                 *)
(***************************************************************************)
EXTENDS Integers, Sequences, FiniteSetsExt

CONSTANTS READ_BUF_SIZE, WRITE_BUF_SIZE,
          Streams,      \* what the peer may send: sequences of symbols
          StatusLen, LengthLen, LingerLen, BlankLen, FormLen
                        \* sizes of the pieces of an error response

CR  == "CR"
LF  == "LF"
NUL == "NUL"
BL  == "BL"
Words == {"GET", "HTTP/1.1", "/", "http://", "word"}
Symbols == Words \cup {CR, LF, NUL, BL}

ASSUME SizesAssumption ==
    /\ READ_BUF_SIZE \in Nat \ {0}
    /\ WRITE_BUF_SIZE \in Nat
    /\ Streams \subseteq Seq(Symbols)
    /\ StatusLen \in Nat \ {0} /\ LengthLen \in Nat /\ LingerLen \in Nat
    /\ BlankLen \in Nat /\ FormLen \in Nat

\* Every error response fits in the write buffer: the longest, 500, has 138
\* bytes of 2048 (http_conn.cpp:6-20, 394-424).
ASSUME ResponseFits ==
    StatusLen + LengthLen + LingerLen + BlankLen + FormLen < WRITE_BUF_SIZE - 1

VARIABLES
    \* the peer and the kernel
    stream,        \* what this peer sends, in order
    sent,          \* how much of it has arrived in the socket
    peer,          \* "open", "fin" (no more bytes will come) or "rst"
    writable,      \* the socket's send buffer has room
    received,      \* bytes of the response the peer got, or Garbled
    armed,         \* event epoll waits for: "in", "out" or "none"
    \* the object
    readBuf,       \* read_buf_
    readIdx,       \* read_idx_
    checkedIdx,    \* checked_idx_
    startLine,     \* start_line_
    writeIdx,      \* write_idx_
    iovLen,        \* the sum of iv_[].iov_len
    \* who runs, and the locals of Write
    phase, toSend, haveSent

peerVars == <<stream, sent, peer, writable, received>>
lineVars == <<readBuf, readIdx, checkedIdx, startLine>>
outVars  == <<writeIdx, iovLen>>
locVars  == <<toSend, haveSent>>
vars == <<peerVars, armed, lineVars, outVars, phase, locVars>>

Garbled == -1
Phases == {"epoll", "read", "parse", "reply", "write", "closed", "crashed"}

\* A connection as Init(sockfd, addr) leaves it: armed for EPOLLIN.
Init == /\ stream \in Streams
        /\ sent = 0
        /\ peer = "open"
        /\ writable = TRUE
        /\ received = 0
        /\ armed = "in"
        /\ readBuf = [i \in 0..READ_BUF_SIZE-1 |-> NUL]
        /\ readIdx = 0 /\ checkedIdx = 0 /\ startLine = 0
        /\ writeIdx = 0 /\ iovLen = 0
        /\ phase = "epoll"
        /\ toSend = 0 /\ haveSent = 0

-----------------------------------------------------------------------------
(* The peer and the network, followed for as long as the connection lasts. *)

Alive == phase \notin {"closed", "crashed"}

\* The next bytes arrive, cut anywhere.
PeerSend == /\ Alive
            /\ peer = "open"
            /\ sent' \in (sent + 1)..Len(stream)
            /\ UNCHANGED <<stream, peer, writable, received, armed, lineVars,
                           outVars, phase, locVars>>

\* The peer shuts its side down, or resets the connection.
PeerLeave == /\ Alive
             /\ peer = "open"
             /\ peer' \in {"fin", "rst"}
             /\ UNCHANGED <<stream, sent, writable, received, armed, lineVars,
                            outVars, phase, locVars>>

\* The peer takes bytes off the send buffer.
PeerDrain == /\ Alive
             /\ ~writable
             /\ writable' = TRUE
             /\ UNCHANGED <<stream, sent, peer, received, armed, lineVars,
                            outVars, phase, locVars>>

-----------------------------------------------------------------------------
(* The main thread: events, Read, Write. *)

Available == sent - readIdx
Space == READ_BUF_SIZE - readIdx

\* CloseConn: the descriptor leaves epoll and is closed.
CloseConn == phase' = "closed" /\ armed' = "none"

\* The object as Init() leaves it. armed and phase are the caller's.
ResetConn == /\ readBuf' = [i \in 0..READ_BUF_SIZE-1 |-> NUL]
             /\ readIdx' = 0 /\ checkedIdx' = 0 /\ startLine' = 0
             /\ writeIdx' = 0

\* EPOLLRDHUP, EPOLLHUP or EPOLLERR is in the event: it is looked at first.
EpollHup == /\ armed # "none"
            /\ peer # "open"
            /\ CloseConn
            /\ UNCHANGED <<peerVars, lineVars, outVars, locVars>>

\* EPOLLIN: Read is called; a full buffer makes it fail at once.
EpollIn == /\ armed = "in"
           /\ peer = "open"
           /\ Available > 0
           /\ IF readIdx >= READ_BUF_SIZE THEN CloseConn
              ELSE phase' = "read" /\ armed' = "none"
           /\ UNCHANGED <<peerVars, lineVars, outVars, locVars>>

\* [mutant] recv stores at the start of read_buf_.
RecvSomeAtStart ==
    /\ phase = "read"
    /\ Available > 0 /\ Space > 0
    /\ LET n == Min({Available, Space}) IN
         /\ readBuf' = [i \in 0..READ_BUF_SIZE-1 |->
                          IF i \in 0..n-1 THEN stream[readIdx + i + 1]
                          ELSE readBuf[i]]
         /\ readIdx' = readIdx + n
    /\ UNCHANGED <<peerVars, armed, checkedIdx, startLine, outVars, phase,
                   locVars>>

\* recv returns bytes: what has arrived, as far as the buffer has room.
RecvSome ==
    /\ phase = "read"
    /\ Available > 0 /\ Space > 0
    /\ LET n == Min({Available, Space}) IN
         /\ readBuf' = [i \in 0..READ_BUF_SIZE-1 |->
                          IF i \in readIdx..readIdx+n-1 THEN stream[i + 1]
                          ELSE readBuf[i]]
         /\ readIdx' = readIdx + n
    /\ UNCHANGED <<peerVars, armed, checkedIdx, startLine, outVars, phase,
                   locVars>>

\* recv says EAGAIN: nothing has arrived. Read returns true and the connection
\* is handed to a worker.
RecvAgain == /\ phase = "read"
             /\ Available = 0
             /\ peer = "open"
             /\ phase' = "parse"
             /\ UNCHANGED <<peerVars, armed, lineVars, outVars, locVars>>

\* [mutant] EAGAIN is taken for an error.
RecvFailOnAgain == /\ phase = "read"
                   /\ Available > 0 => Space = 0
                   /\ CloseConn
                   /\ UNCHANGED <<peerVars, lineVars, outVars, locVars>>

\* recv returns 0 or an error: end of the stream, a reset, or a read of zero
\* bytes into a full buffer while bytes are waiting. The caller closes.
RecvFail == /\ phase = "read"
            /\ IF Available > 0 THEN Space = 0 ELSE peer # "open"
            /\ CloseConn
            /\ UNCHANGED <<peerVars, lineVars, outVars, locVars>>

\* EPOLLOUT: Write is called. (With nothing to send it would re-arm the socket
\* for EPOLLIN and reset the object.)
EpollOut == /\ armed = "out"
            /\ peer = "open"
            /\ writable
            /\ toSend' = writeIdx
            /\ haveSent' = 0
            /\ IF writeIdx = 0
               THEN /\ armed' = "in" /\ phase' = phase
                    /\ ResetConn
                    /\ UNCHANGED iovLen
               ELSE /\ armed' = "none" /\ phase' = "write"
                    /\ UNCHANGED <<lineVars, outVars>>
            /\ UNCHANGED peerVars

\* What the peer has after n more bytes from the start of the response.
Receive(n) == IF received = 0 THEN n ELSE Garbled

\* writev takes n bytes. The vector is not advanced: the next writev of the
\* same call starts again at the first byte of the response. Write is content
\* when half of the response's write_idx_ bytes went out, and then the caller
\* closes: linger_ is false.
Writev(n) ==
    /\ phase = "write"
    /\ peer # "rst"
    /\ writable
    /\ toSend' = toSend - n
    /\ haveSent' = haveSent + n
    /\ received' = Receive(n)
    /\ writable' = (n = iovLen)
    /\ IF toSend' <= haveSent' THEN CloseConn ELSE UNCHANGED <<armed, phase>>
    /\ UNCHANGED <<stream, sent, peer, lineVars, outVars>>

\* [mutant] The socket is not armed again.
WritevAgainForgets == /\ phase = "write"
                      /\ peer # "rst"
                      /\ ~writable
                      /\ phase' = "epoll"
                      /\ UNCHANGED <<peerVars, armed, lineVars, outVars, locVars>>

\* writev says EAGAIN: wait for EPOLLOUT. How much went out is forgotten.
WritevAgain == /\ phase = "write"
               /\ peer # "rst"
               /\ ~writable
               /\ armed' = "out"
               /\ phase' = "epoll"
               /\ UNCHANGED <<peerVars, lineVars, outVars, locVars>>

\* Any other error of writev: Write returns false and the caller closes.
WritevFail == /\ phase = "write"
              /\ peer = "rst"
              /\ CloseConn
              /\ UNCHANGED <<peerVars, lineVars, outVars, locVars>>

-----------------------------------------------------------------------------
(* A worker: Process, that is ProcessRead, then ProcessWrite. *)

\* [mutant] A CR ends the line, whatever follows.
ParseLineEager ==
    LET ends == {i \in checkedIdx..readIdx-1 : readBuf[i] \in {CR, LF}}
        i == Min(ends)
    IN IF ends = {} THEN [status |-> "OPEN", checked |-> readIdx, buf |-> readBuf]
       ELSE IF readBuf[i] = CR
            THEN [status |-> "OK", checked |-> i + 1,
                  buf |-> [readBuf EXCEPT ![i] = NUL]]
            ELSE [status |-> "BAD", checked |-> i, buf |-> readBuf]

\* ParseLine: look for the end of the line from checkedIdx on, and overwrite
\* it with NULs.
ParseLine ==
    LET ends == {i \in checkedIdx..readIdx-1 : readBuf[i] \in {CR, LF}}
        i == Min(ends)
        cut == [status  |-> "OK",
                checked |-> i + 2,
                buf     |-> [readBuf EXCEPT ![i] = NUL, ![i + 1] = NUL]]
        stay(s) == [status |-> s, checked |-> i, buf |-> readBuf]
    IN IF ends = {} THEN [status  |-> "OPEN",
                          checked |-> readIdx,
                          buf     |-> readBuf]
       ELSE IF readBuf[i] = CR
            THEN IF i + 1 = readIdx THEN stay("OPEN")
                 ELSE IF readBuf[i + 1] = LF THEN cut ELSE stay("BAD")
            ELSE IF i > 1 /\ readBuf[i - 1] = CR THEN cut ELSE stay("BAD")

\* The C string that starts at position s of buffer b.
Text(b, s) ==
    LET end == Min({i \in s..READ_BUF_SIZE : i = READ_BUF_SIZE \/ b[i] = NUL})
    IN [i \in 1..(end - s) |-> b[s + i - 1]]

\* Positions in a text: of the blanks, and of what is not a blank.
Blanks(text)    == {i \in DOMAIN text : text[i] = BL}
NonBlanks(text) == DOMAIN text \ Blanks(text)
From(text, i)   == SubSeq(text, i, Len(text))

\* ParseRequestLine: the result code. version_ is set to the blank before the
\* version, so the comparison includes that blank; it is null when there is no
\* blank, and comparing a null string is a crash.
ParseRequestLine(text) ==
    IF Blanks(text) = {} THEN "BAD_REQUEST"
    ELSE LET gap  == Min(Blanks(text))
             rest == From(text, gap + 1)
             url  == IF NonBlanks(rest) = {} THEN <<>>
                     ELSE From(rest, Min(NonBlanks(rest)))
             slashes == {i \in 1..Len(url) : url[i] = "/"}
             path == IF url # <<>> /\ Head(url) = "http://"
                     THEN IF slashes = {} THEN <<>> ELSE From(url, Min(slashes))
                     ELSE url
         IN IF SubSeq(text, 1, gap - 1) # <<"GET">> THEN "BAD_REQUEST"
            ELSE IF Blanks(url) = {} THEN "CRASH"
            ELSE IF From(url, Min(Blanks(url))) # <<"HTTP/1.1">>
                 THEN "BAD_REQUEST"
            ELSE IF path = <<>> \/ Head(path) # "/" THEN "BAD_REQUEST"
            ELSE "NO_REQUEST"

\* AddResponse appends a piece of n bytes if it fits.
Fits(w, n) == w < WRITE_BUF_SIZE /\ n < WRITE_BUF_SIZE - 1 - w
AddResponse(w, n) == IF Fits(w, n) THEN w + n ELSE w

\* AddHeaders: Content-Length, Connection and the blank line, up to the first
\* that does not fit.
AddHeaders(w) ==
    LET w1 == AddResponse(w, LengthLen)
        w2 == AddResponse(w1, LingerLen)
    IN IF ~Fits(w, LengthLen) THEN w
       ELSE IF ~Fits(w1, LingerLen) THEN w1
       ELSE AddResponse(w2, BlankLen)

\* ProcessWrite for an error code, and the end of Process: the response is put
\* together and EPOLLOUT is asked for. A form that does not fit closes.
ProcessWrite ==
    LET head == AddHeaders(AddResponse(writeIdx, StatusLen))
        all  == AddResponse(head, FormLen)
    IN /\ writeIdx' = all
       /\ IF Fits(head, FormLen)
          THEN iovLen' = all /\ armed' = "out" /\ phase' = "epoll"
          ELSE UNCHANGED iovLen /\ CloseConn

\* [mutant] A malformed line returns without arming the socket again.
LineStopsUnarmed ==
    /\ phase = "parse"
    /\ \E line \in {ParseLine} : /\ line.status # "OK"
                                 /\ checkedIdx' = line.checked
                                 /\ armed' = IF line.status = "BAD" THEN "none"
                                             ELSE "in"
    /\ phase' = "epoll"
    /\ UNCHANGED <<peerVars, readBuf, readIdx, startLine, outVars, locVars>>

\* ProcessRead ends without a request: the line is incomplete, or it is
\* malformed. EPOLLIN is asked for.
LineStops ==
    /\ phase = "parse"
    /\ \E line \in {ParseLine} : /\ line.status # "OK"
                                 /\ checkedIdx' = line.checked
    /\ armed' = "in"
    /\ phase' = "epoll"
    /\ UNCHANGED <<peerVars, readBuf, readIdx, startLine, outVars, locVars>>

\* One turn of ProcessRead with a complete line: the blank after the method is
\* overwritten, and the verdict on the line decides. An accepted line leaves
\* the state machine where it was.
RequestLine ==
    /\ phase = "parse"
    /\ \E line \in {ParseLine} : \E text \in {Text(line.buf, startLine)} :
          LET gap  == startLine + Min(Blanks(text)) - 1
              code == ParseRequestLine(text)
          IN /\ line.status = "OK"
             /\ checkedIdx' = line.checked
             /\ startLine' = line.checked
             /\ readBuf' = IF Blanks(text) = {} THEN line.buf
                           ELSE [line.buf EXCEPT ![gap] = NUL]
             /\ phase' = CASE code = "CRASH" -> "crashed"
                           [] code = "BAD_REQUEST" -> "reply"
                           [] OTHER -> "parse"
    /\ UNCHANGED <<peerVars, armed, readIdx, outVars, locVars>>

\* ProcessWrite after a malformed request line.
ReplyBad == /\ phase = "reply"
            /\ ProcessWrite
            /\ UNCHANGED <<peerVars, lineVars, locVars>>

-----------------------------------------------------------------------------
Ended == ~Alive /\ UNCHANGED vars

Peer == PeerSend \/ PeerLeave \/ PeerDrain
Event == EpollHup \/ EpollIn \/ EpollOut
Read == RecvSome \/ RecvAgain \/ RecvFail
Write == (\E n \in 1..iovLen : Writev(n)) \/ WritevAgain \/ WritevFail
Process == LineStops \/ RequestLine \/ ReplyBad

Next == Peer \/ Event \/ Read \/ Write \/ Process \/ Ended

Spec == Init /\ [][Next]_vars

(***************************************************************************)
(* The server's threads run when they can. The peer takes the response off *)
(* the socket, and the kernel's buffer some day has room for all of it:    *)
(* without the second, Write can be sent back to the first byte for ever.  *)
(* Nothing makes the peer send or leave.                                   *)
(***************************************************************************)
Fairness == /\ WF_vars(Event \/ Read \/ Process)
            /\ WF_vars(Write)
            /\ WF_vars(PeerDrain)
            /\ SF_vars(Writev(iovLen))

FairSpec == Spec /\ Fairness

-----------------------------------------------------------------------------
(* Properties. *)

TypeOK ==
    /\ stream \in Streams
    /\ sent \in 0..Len(stream)
    /\ peer \in {"open", "fin", "rst"}
    /\ writable \in BOOLEAN
    /\ received \in Nat \cup {Garbled}
    /\ armed \in {"in", "out", "none"}
    /\ readBuf \in [0..READ_BUF_SIZE-1 -> Symbols]
    /\ readIdx \in 0..READ_BUF_SIZE
    /\ checkedIdx \in Nat /\ startLine \in Nat
    /\ writeIdx \in Nat /\ iovLen \in Nat
    /\ phase \in Phases
    /\ toSend \in Int /\ haveSent \in Nat

\* The three positions in the read buffer keep their order, and what was
\* scanned holds no end of line any more: so the branch of ParseLine that looks
\* back from an LF to a CR (http_conn.cpp:114), which would move checked_idx_
\* past read_idx_ and write behind the data, is never taken.
LineBounds ==
    /\ startLine <= checkedIdx
    /\ checkedIdx <= readIdx
    /\ readIdx <= sent
    /\ \A i \in 0..checkedIdx-1 : readBuf[i] \notin {CR, LF}

\* The bytes that ParseLine has not passed are the bytes the peer sent.
UnscannedIntact ==
    \A i \in checkedIdx..readIdx-1 : readBuf[i] = stream[i + 1]

\* Reference: what a sequence of bytes deserves, by its first line alone.
\* A line runs to the first CR LF; a CR or an LF on its own spoils it.
Cut(line) == LET nuls == {i \in 1..Len(line) : line[i] = NUL}
             IN IF nuls = {} THEN line ELSE SubSeq(line, 1, Min(nuls) - 1)
NoVersion(line) ==
    \E k \in 2..Len(line) : /\ line[1] = "GET"
                            /\ \A i \in 2..k : line[i] = BL
                            /\ \A i \in k+1..Len(line) : line[i] # BL
Verdict(s) ==
    LET ends == {i \in 1..Len(s) : s[i] \in {CR, LF}}
        e    == Min(ends)
    IN IF ends = {} THEN "open"
       ELSE IF s[e] = CR /\ e = Len(s) THEN "open"
       ELSE IF s[e] = LF \/ s[e + 1] # LF THEN "spoilt"
       ELSE IF NoVersion(Cut(SubSeq(s, 1, e - 1))) THEN "crash"
       ELSE "400"

\* What Read has consumed.
Consumed == SubSeq(stream, 1, readIdx)

\* However the network cut the stream into segments, what the server does is
\* what the bytes deserve: it waits for more only when they hold no complete
\* line, it answers only a complete line, it crashes only on a GET line
\* without a version (http_conn.cpp:173-174).
SegmentationIndependence ==
    /\ armed = "in" => Verdict(Consumed) \in {"open", "spoilt"}
    /\ (phase \in {"reply", "write"} \/ armed = "out") => Verdict(Consumed) = "400"
    /\ phase = "crashed" => Verdict(Consumed) = "crash"

\* The server hangs up on a peer that is still there only after it sent
\* something, or because the read buffer is full.
HangUpHasReason ==
    phase = "closed" /\ peer = "open" => received # 0 \/ readIdx = READ_BUF_SIZE

\* Who owns the connection, and what it has not done yet: while the response is
\* not asked for, nothing is in the write buffer and nothing was sent; EPOLLOUT
\* is asked for only with a response to send.
Ownership ==
    /\ armed # "none" => phase = "epoll"
    /\ phase = "epoll" => armed # "none"
    /\ armed = "in" \/ phase \in {"read", "parse", "reply"} =>
          writeIdx = 0 /\ received = 0
    /\ armed = "out" \/ phase = "write" => writeIdx # 0

\* The inductive invariant of the proofs.
IInv == TypeOK /\ LineBounds /\ UnscannedIntact /\ Ownership
          /\ HangUpHasReason

\* Once a complete request line has been read (and the line does not crash the
\* server) the connection ends, and a peer that is still there has got at least
\* half of the answer by then, from its first byte on or begun again. The one
\* way to be hung up on unanswered is a read buffer filled to its last byte
\* (http_conn.cpp:136 to 144, 341 to 357).
HalfReceived == received = Garbled \/ 2 * received >= writeIdx
LineIsAnswered ==
    (Verdict(Consumed) = "400")
        ~> /\ phase = "closed"
           /\ peer # "open" \/ readIdx = READ_BUF_SIZE \/ (received # 0 /\ HalfReceived)

\* When the peer leaves, the descriptor is closed sooner or later, whoever
\* owned the connection at that moment.
GonePeerIsClosed == (peer # "open") ~> ~Alive

\* What Connection is to know of this object.
Place == CASE phase = "closed" -> "closed"
           [] armed # "none" -> armed
           [] phase = "read" -> "reading"
           [] phase = "write" -> "writing"
           [] OTHER -> "work"
Line == IF phase = "closed" THEN "part"
        ELSE CASE Verdict(Consumed) = "400" -> "line"
               [] Verdict(Consumed) = "crash" -> "noversion"
               [] OTHER -> "part"

C == INSTANCE Connection WITH place <- Place, line <- Line

\* For any cut of the stream into segments and whatever the kernel takes of the
\* response, the object lives the life that the event loop counts on: it is
\* answered only when the bytes that came hold a complete line, later bytes do
\* not change that, and a worker never closes it.
ImplementsConnection == C!Spec

(* What the source's comments say and the code does not do. *)

\* http_conn.cpp:357 with 343-344: when Write has sent the response, the peer
\* has the response.
ResponseIsWhole ==
    phase = "closed" /\ peer = "open" /\ received # 0 => received = iovLen
=============================================================================
