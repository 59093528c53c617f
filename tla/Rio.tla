-------------------------------- MODULE Rio --------------------------------
(***************************************************************************)
(* wrap.c: the buffered reads and the writes of the Rio package, as one    *)
(* child of twebs calls them on its connection. Each read or write is a    *)
(* step of its own, with its short counts, EINTR, end of file and errors.  *)
(* The capital wrappers end the process when a call fails.                 *)
(*                                                                         *)
(* rio_readn is called by no one.                                          *)
(***************************************************************************)
EXTENDS Integers, Sequences

CONSTANTS Bytes,
          Streams,      \* what the peer may send: sequences of bytes
          NL,           \* '\n'
          RIO_BUFSIZE,  \* the size of rio_buf
          LineSizes,    \* the maxlen of the calls of rio_readlineb
          Counts,       \* the n of the calls of rio_readnb and rio_writen
          MaxOut        \* bound: how much the callers write in all

ASSUME RioAssumption ==
    /\ Streams \subseteq Seq(Bytes) /\ NL \in Bytes
    /\ RIO_BUFSIZE \in Nat \ {0}
    /\ LineSizes \subseteq Nat \ {0}
    /\ Counts \subseteq Nat
    /\ MaxOut \in Nat

VARIABLES
    \* the peer and the kernel
    stream, sent, peer,
    taken,            \* how much read(2) has taken off the socket
    wire,             \* what write(2) has put on it, by number
    \* rio_t
    rioCnt, rioPtr, rioBuf,
    \* the call in progress
    op, size,
    usr,              \* rio_readlineb, rio_readnb: what is stored by now
    nleft, bufp,      \* rio_writen: how much is left, and from where
    \* the caller
    start,            \* how much of the stream earlier calls gave it
    asked,            \* how much it has asked rio_writen to write
    text, ret

peerVars == <<stream, sent, peer>>
rioVars  == <<rioCnt, rioPtr, rioBuf, taken>>
outVars  == <<wire, nleft, bufp, asked>>
vars == <<peerVars, rioVars, outVars, op, size, usr, start, text, ret>>

\* Rio_readinitb, on a connection that was just accepted.
Init == /\ stream \in Streams
        /\ sent = 0 /\ peer = "open" /\ taken = 0 /\ wire = <<>>
        /\ rioCnt = 0 /\ rioPtr = 0
        /\ rioBuf = [i \in 0..RIO_BUFSIZE-1 |-> NL]
        /\ op = "none" /\ size = 0 /\ usr = <<>>
        /\ nleft = 0 /\ bufp = 1
        /\ start = 0 /\ asked = 0 /\ text = <<>> /\ ret = 0

-----------------------------------------------------------------------------
(* The peer. *)

PeerSend  == /\ peer = "open"
             /\ sent' \in sent+1..Len(stream)
             /\ UNCHANGED <<stream, peer, rioVars, outVars, op, size, usr,
                            start, text, ret>>
PeerLeave == /\ peer = "open"
             /\ peer' \in {"fin", "rst"}
             /\ UNCHANGED <<stream, sent, rioVars, outVars, op, size, usr,
                            start, text, ret>>

-----------------------------------------------------------------------------
(* Reading. *)

CallLine(l) == /\ op = "none"
               /\ op' = "line" /\ size' = l /\ usr' = <<>>
               /\ UNCHANGED <<peerVars, rioVars, outVars, start, text, ret>>

CallCount(n) == /\ op = "none"
                /\ op' = "count" /\ size' = n /\ usr' = <<>>
                /\ UNCHANGED <<peerVars, rioVars, outVars, start, text, ret>>

\* The loops of rio_readlineb and rio_readnb call rio_read.
Reading == \/ op = "line" /\ Len(usr) + 1 < size
           \/ op = "count" /\ Len(usr) < size

\* The loop is over: the call returns r, with u in the caller's buffer.
Return(u, r) == /\ op' = "none"
                /\ usr' = <<>>
                /\ text' = u
                /\ start' = start + Len(u)
                /\ ret' = r
                /\ UNCHANGED <<peerVars, outVars, size>>

\* [mutant] The buffer's pointer is not reset.
RefillKeepsPtr ==
    /\ Reading /\ rioCnt <= 0
    /\ peer # "rst"
    /\ \E k \in 1..RIO_BUFSIZE :
         /\ taken + k <= sent
         /\ rioBuf' = [i \in 0..RIO_BUFSIZE-1 |->
                         IF i < k THEN stream[taken + i + 1] ELSE rioBuf[i]]
         /\ rioCnt' = k
         /\ taken' = taken + k
    /\ UNCHANGED <<peerVars, rioPtr, outVars, op, size, usr, start, text, ret>>

\* rio_read: the buffer is empty and read(2) fills it, with as much as it likes
\* of what has arrived.
Refill ==
    /\ Reading /\ rioCnt <= 0
    /\ peer # "rst"
    /\ \E k \in 1..RIO_BUFSIZE :
         /\ taken + k <= sent
         /\ rioBuf' = [i \in 0..RIO_BUFSIZE-1 |->
                         IF i < k THEN stream[taken + i + 1] ELSE rioBuf[i]]
         /\ rioCnt' = k
         /\ rioPtr' = 0
         /\ taken' = taken + k
    /\ UNCHANGED <<peerVars, outVars, op, size, usr, start, text, ret>>

\* rio_read: read(2) is interrupted, rio_cnt is -1 and the loop goes on.
RefillIntr ==
    /\ Reading /\ rioCnt <= 0
    /\ rioCnt' = -1
    /\ UNCHANGED <<peerVars, rioPtr, rioBuf, taken, outVars, op, size, usr,
                   start, text, ret>>

\* read(2) fails: the call returns -1 and its wrapper ends the process.
RefillError ==
    /\ Reading /\ rioCnt <= 0
    /\ peer = "rst"
    /\ rioCnt' = -1
    /\ op' = "dead"
    /\ UNCHANGED <<peerVars, rioPtr, rioBuf, taken, outVars, size, usr, start,
                   text, ret>>

AtEnd == Reading /\ rioCnt <= 0 /\ peer = "fin" /\ taken = sent

\* [mutant] The end of the stream is taken for an interruption.
LineEofRetries ==
    /\ op = "line" /\ AtEnd
    /\ rioCnt' = -1
    /\ UNCHANGED <<peerVars, rioPtr, rioBuf, taken, outVars, op, size, usr,
                   start, text, ret>>

\* rio_readlineb at the end of the stream: 0 when it has nothing yet, and then
\* it stores nothing; otherwise the value is n, one more than it stored.
LineEof ==
    /\ op = "line" /\ AtEnd
    /\ rioCnt' = 0
    /\ IF usr = <<>>
       THEN /\ op' = "none" /\ ret' = 0
            /\ UNCHANGED <<peerVars, outVars, size, usr, start, text>>
       ELSE Return(usr, Len(usr) + 1)
    /\ UNCHANGED <<rioPtr, rioBuf, taken>>

\* rio_readnb at the end of the stream: what there was.
CountEof ==
    /\ op = "count" /\ AtEnd
    /\ rioCnt' = 0
    /\ Return(usr, Len(usr))
    /\ UNCHANGED <<rioPtr, rioBuf, taken>>

\* [mutant] The end of the line is not stored.
LineByteDrops ==
    /\ op = "line" /\ Reading /\ rioCnt > 0
    /\ rioPtr' = rioPtr + 1
    /\ rioCnt' = rioCnt - 1
    /\ IF rioBuf[rioPtr] = NL
       THEN Return(usr, Len(usr) + 1)
       ELSE /\ usr' = Append(usr, rioBuf[rioPtr])
            /\ UNCHANGED <<peerVars, outVars, op, size, start, text, ret>>
    /\ UNCHANGED <<rioBuf, taken>>

\* rio_readlineb takes a byte from rio_read; '\n' ends the line.
LineByte ==
    /\ op = "line" /\ Reading /\ rioCnt > 0
    /\ rioPtr' = rioPtr + 1
    /\ rioCnt' = rioCnt - 1
    /\ IF rioBuf[rioPtr] = NL
       THEN Return(Append(usr, NL), Len(usr) + 1)
       ELSE /\ usr' = Append(usr, rioBuf[rioPtr])
            /\ UNCHANGED <<peerVars, outVars, op, size, start, text, ret>>
    /\ UNCHANGED <<rioBuf, taken>>

\* rio_readlineb: the caller's buffer is full, n is maxlen.
LineFull ==
    /\ op = "line" /\ ~Reading
    /\ Return(usr, size)
    /\ UNCHANGED rioVars

\* [mutant] rio_read hands out all it has, however little was asked for.
CountBytesAll ==
    /\ op = "count" /\ Reading /\ rioCnt > 0
    /\ usr' = usr \o [i \in 1..rioCnt |-> rioBuf[rioPtr + i - 1]]
    /\ rioPtr' = rioPtr + rioCnt
    /\ rioCnt' = 0
    /\ UNCHANGED <<peerVars, rioBuf, taken, outVars, op, size, start, text, ret>>

\* rio_readnb takes from rio_read as much as is there, up to nleft.
CountBytes ==
    /\ op = "count" /\ Reading /\ rioCnt > 0
    /\ LET n   == size - Len(usr)
           cnt == IF rioCnt < n THEN rioCnt ELSE n
       IN
         /\ usr' = usr \o [i \in 1..cnt |-> rioBuf[rioPtr + i - 1]]
         /\ rioPtr' = rioPtr + cnt
         /\ rioCnt' = rioCnt - cnt
    /\ UNCHANGED <<peerVars, rioBuf, taken, outVars, op, size, start, text, ret>>

\* rio_readnb has all n bytes.
CountDone ==
    /\ op = "count" /\ ~Reading
    /\ Return(usr, Len(usr))
    /\ UNCHANGED rioVars

-----------------------------------------------------------------------------
(* Writing. The bytes that the callers write are numbered from 1. *)

CallWrite(n) == /\ op = "none"
                /\ asked + n <= MaxOut
                /\ op' = "write"
                /\ nleft' = n /\ bufp' = asked + 1
                /\ asked' = asked + n
                /\ UNCHANGED <<peerVars, rioVars, wire, size, usr, start, text,
                               ret>>

\* [mutant] bufp is not advanced after a short write.
WriteSomeStays ==
    /\ op = "write" /\ nleft > 0
    /\ peer # "rst"
    /\ \E k \in 1..nleft :
         /\ wire' = wire \o [i \in 1..k |-> bufp + i - 1]
         /\ nleft' = nleft - k
    /\ UNCHANGED <<peerVars, rioVars, bufp, asked, op, size, usr, start, text,
                   ret>>

\* write(2) takes some of it. (Interrupted, it takes none and is called again.)
WriteSome ==
    /\ op = "write" /\ nleft > 0
    /\ peer # "rst"
    /\ \E k \in 1..nleft :
         /\ wire' = wire \o [i \in 1..k |-> bufp + i - 1]
         /\ nleft' = nleft - k
         /\ bufp' = bufp + k
    /\ UNCHANGED <<peerVars, rioVars, asked, op, size, usr, start, text, ret>>

\* write(2) fails: the wrapper ends the process, if SIGPIPE has not.
WriteError ==
    /\ op = "write" /\ nleft > 0
    /\ peer = "rst"
    /\ op' = "dead"
    /\ UNCHANGED <<peerVars, rioVars, outVars, size, usr, start, text, ret>>

WriteDone ==
    /\ op = "write" /\ nleft = 0
    /\ op' = "none"
    /\ UNCHANGED <<peerVars, rioVars, outVars, size, usr, start, text, ret>>

-----------------------------------------------------------------------------
Ended == op = "dead" /\ UNCHANGED vars

Read  == \/ Refill \/ RefillIntr \/ RefillError
         \/ LineEof \/ LineByte \/ LineFull
         \/ CountEof \/ CountBytes \/ CountDone
Write == WriteSome \/ WriteError \/ WriteDone

Next == \/ PeerSend \/ PeerLeave
        \/ (\E l \in LineSizes : CallLine(l))
        \/ (\E n \in Counts : CallCount(n) \/ CallWrite(n))
        \/ Read \/ Write
        \/ Ended

Spec == Init /\ [][Next]_vars

\* The process runs. read(2) returns something when there is something to
\* return; it is not interrupted for ever (a second interruption of the same
\* read changes nothing here). A peer that stays is free to send nothing.
FairSpec == Spec /\ WF_vars(Read) /\ WF_vars(Write)

-----------------------------------------------------------------------------
(* Properties. *)

TypeOK ==
    /\ stream \in Streams
    /\ sent \in 0..Len(stream)
    /\ peer \in {"open", "fin", "rst"}
    /\ taken \in Nat
    /\ wire \in Seq(Nat)
    /\ rioCnt \in -1..RIO_BUFSIZE
    /\ rioPtr \in 0..RIO_BUFSIZE
    /\ rioBuf \in [0..RIO_BUFSIZE-1 -> Bytes]
    /\ op \in {"none", "line", "count", "write", "dead"}
    /\ size \in Nat
    /\ usr \in Seq(Bytes) /\ text \in Seq(Bytes)
    /\ nleft \in Nat /\ bufp \in Nat
    /\ start \in Nat /\ asked \in Nat /\ ret \in Nat

Unread == IF rioCnt > 0 THEN rioCnt ELSE 0

\* No byte is lost, doubled or moved between the socket, rio_buf and the
\* caller: what this call has stored continues what earlier calls returned, the
\* unread bytes of rio_buf follow, and the next read(2) continues from there.
StreamIntact ==
    /\ taken <= sent
    /\ start + Len(usr) + Unread = taken
    /\ \A i \in 1..Len(usr) : usr[i] = stream[start + i]
    /\ rioPtr + Unread <= RIO_BUFSIZE
    /\ \A i \in 0..Unread-1 : rioBuf[rioPtr + i] = stream[start + Len(usr) + i + 1]

\* The caller's buffer never overflows, and a line in progress has no end yet.
CallInBounds ==
    /\ op = "line" => /\ Len(usr) < size
                      /\ \A i \in 1..Len(usr) : usr[i] # NL
    /\ op = "count" => Len(usr) <= size
    /\ op \notin {"line", "count", "dead"} => usr = <<>>

\* What is on the wire is what the callers wrote, each byte once and in order;
\* when no write is in progress, all of it.
WireInOrder ==
    /\ \A i \in 1..Len(wire) : wire[i] = i
    /\ op = "write" => bufp = Len(wire) + 1 /\ Len(wire) + nleft = asked
    /\ op \in {"none", "line", "count"} => Len(wire) = asked

IInv == TypeOK /\ StreamIntact /\ CallInBounds /\ WireInOrder

\* The calls are those of ByteReader, for which a call is one step.
BR == INSTANCE ByteReader WITH pos <- start,
                               op <- IF op = "write" THEN "none" ELSE op
ImplementsByteReader == BR!Spec

\* A read does not outlive the connection: once the peer has ended it, the call
\* returns or the process ends.
CallReturns == (op \in {"line", "count"} /\ peer # "open") ~> (op \in {"none", "dead"})
=============================================================================
