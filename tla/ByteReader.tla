----------------------------- MODULE ByteReader -----------------------------
(***************************************************************************)
(* What the callers of the Rio package (wrap.c) rely on: a connection is a *)
(* stream of bytes, and each call of Rio_readlineb or Rio_readnb takes the *)
(* next line or the next n bytes off it, in one piece, however the bytes   *)
(* were cut on their way. Rio implements it.                               *)
(***************************************************************************)
EXTENDS Integers, Sequences

CONSTANTS Streams,    \* what the peer may send
          NL,         \* the byte that ends a line
          LineSizes,  \* the maxlen that callers pass to rio_readlineb
          Counts      \* the n that callers pass to rio_readnb

VARIABLES stream,  \* what this peer sends, in order
          sent,    \* how much of it has arrived
          peer,    \* "open", "fin" (no more will come) or "rst"
          pos,     \* how much of it was given to the callers
          op,      \* the call in progress: "none", "line", "count"; or "dead"
          size,    \* its argument
          text,    \* the caller's buffer, up to its NUL
          ret      \* the value the last call returned

callVars == <<pos, op, size, text, ret>>
vars == <<stream, sent, peer, callVars>>

Init == /\ stream \in Streams
        /\ sent = 0 /\ peer = "open"
        /\ pos = 0 /\ op = "none" /\ size = 0 /\ text = <<>> /\ ret = 0

\* More bytes arrive, cut anywhere; the peer ends the stream or resets it.
Send  == /\ peer = "open"
         /\ sent' \in sent+1..Len(stream)
         /\ UNCHANGED <<stream, peer, callVars>>
Leave == /\ peer = "open"
         /\ peer' \in {"fin", "rst"}
         /\ UNCHANGED <<stream, sent, callVars>>

CallLine(l)  == op = "none" /\ op' = "line" /\ size' = l
                  /\ UNCHANGED <<stream, sent, peer, pos, text, ret>>
CallCount(n) == op = "none" /\ op' = "count" /\ size' = n
                  /\ UNCHANGED <<stream, sent, peer, pos, text, ret>>

\* The call ends with n bytes in the caller's buffer and value r.
Return(n, r) == /\ text' = SubSeq(stream, pos + 1, pos + n)
                /\ pos' = pos + n
                /\ ret' = r
                /\ op' = "none"
                /\ UNCHANGED <<stream, sent, peer, size>>

\* No end of line among the next n bytes.
OneLine(n) == \A i \in 1..n : stream[pos + i] # NL

\* A line of n bytes, its end included.
ReturnLine == op = "line" /\
    \E n \in 1..size-1 :
        /\ pos + n <= sent
        /\ OneLine(n - 1) /\ stream[pos + n] = NL
        /\ Return(n, n)

\* The line does not fit: its first size-1 bytes. The value is one too many.
ReturnPart == /\ op = "line"
              /\ pos + size - 1 <= sent
              /\ OneLine(size - 1)
              /\ Return(size - 1, size)

\* The stream ends in the middle of a line: what there is, and the value is
\* one too many.
ReturnRest == /\ op = "line" /\ peer = "fin"
              /\ pos < sent /\ sent < pos + size - 1
              /\ OneLine(sent - pos)
              /\ Return(sent - pos, sent - pos + 1)

\* The stream has ended: 0, and the caller's buffer stays as it was.
ReturnEnd == /\ op = "line" /\ peer = "fin"
             /\ pos = sent /\ size > 1
             /\ ret' = 0 /\ op' = "none"
             /\ UNCHANGED <<stream, sent, peer, pos, size, text>>

\* n bytes, or what is left of a stream that has ended.
ReturnCount == /\ op = "count"
               /\ pos + size <= sent
               /\ Return(size, size)
ReturnShort == /\ op = "count" /\ peer = "fin"
               /\ sent < pos + size
               /\ Return(sent - pos, sent - pos)

\* An error ends the process: unix_error calls exit.
Die == op' = "dead" /\ UNCHANGED <<stream, sent, peer, pos, size, text, ret>>

Next == \/ Send \/ Leave
        \/ (\E l \in LineSizes : CallLine(l))
        \/ (\E n \in Counts : CallCount(n))
        \/ ReturnLine \/ ReturnPart \/ ReturnRest \/ ReturnEnd
        \/ ReturnCount \/ ReturnShort
        \/ (peer = "rst" /\ Die)

Spec == Init /\ [][Next]_vars
=============================================================================
