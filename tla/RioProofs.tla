----------------------------- MODULE RioProofs -----------------------------
(***************************************************************************)
(* Proofs about Rio for every stream, every size of the buffer and every   *)
(* size of a call: no byte is lost, doubled or moved on its way in or out, *)
(* and the calls are those of ByteReader.                                  *)
(***************************************************************************)
EXTENDS Rio, TLAPS

\* A sequence that agrees with another from a place on is a piece of it.
LEMMA PieceOf ==
    ASSUME NEW S, NEW u \in Seq(S), NEW t \in Seq(S), NEW p \in Nat,
           p + Len(u) <= Len(t),
           \A i \in 1..Len(u) : u[i] = t[p + i]
    PROVE  u = SubSeq(t, p + 1, p + Len(u))
  <1> DEFINE v == SubSeq(t, p + 1, p + Len(u))
  <1>1. v \in Seq(S) /\ Len(v) = Len(u) /\ \A i \in 1..Len(u) : v[i] = t[p + i]
    OBVIOUS
  <1> QED
    BY <1>1

LEMMA Joined ==
    ASSUME NEW S, NEW a \in Seq(S), NEW b \in Seq(S)
    PROVE  /\ a \o b \in Seq(S)
           /\ Len(a \o b) = Len(a) + Len(b)
           /\ \A i \in 1..Len(a) : (a \o b)[i] = a[i]
           /\ \A i \in Len(a)+1..Len(a)+Len(b) : (a \o b)[i] = b[i - Len(a)]
  OBVIOUS

LEMMA TypeInit == Init => TypeOK
  <1> SUFFICES ASSUME Init PROVE TypeOK
    OBVIOUS
  <1>1. \A s \in Streams : s \in Seq(Bytes)
    BY RioAssumption
  <1> QED
    BY <1>1, RioAssumption DEF Init, TypeOK

\* Initially nothing is read, stored or written.
LEMMA InitOK == Init => IInv
  BY TypeInit, RioAssumption
     DEF Init, IInv, StreamIntact, CallInBounds, WireInOrder, Unread

\* Steps that leave the writing side alone keep WireInOrder.
LEMMA Untouched ==
    ASSUME WireInOrder, UNCHANGED outVars,
           \/ op' \in {"none", "line", "count"} /\ op \in {"none", "line", "count"}
           \/ op' = op
           \/ op' = "dead"
    PROVE  WireInOrder'
  BY DEF WireInOrder, outVars

\* The byte that rio_read hands to rio_readlineb is the next of the stream.
LEMMA AppendStored ==
    ASSUME IInv, rioCnt > 0, Reading,
           NEW u, u = Append(usr, rioBuf[rioPtr])
    PROVE  /\ u \in Seq(Bytes) /\ Len(u) = Len(usr) + 1
           /\ \A i \in 1..Len(u) : u[i] = stream[start + i]
           /\ \A i \in 1..Len(usr) : u[i] = usr[i]
           /\ u[Len(u)] = rioBuf[rioPtr]
           /\ rioPtr \in 0..RIO_BUFSIZE-1
           /\ rioBuf[rioPtr] = stream[start + Len(u)]
  <1>1. /\ rioPtr \in 0..RIO_BUFSIZE-1 /\ rioBuf[rioPtr] \in Bytes
        /\ usr \in Seq(Bytes) /\ start \in Nat
    BY RioAssumption DEF IInv, TypeOK, StreamIntact, Unread
  <1>2. rioBuf[rioPtr] = stream[start + Len(usr) + 1]
    <2>1. /\ 0 \in 0..Unread-1 /\ rioPtr + 0 = rioPtr
          /\ start + Len(usr) + 0 + 1 = start + Len(usr) + 1
      BY <1>1 DEF IInv, TypeOK, Unread
    <2> QED
      BY <2>1 DEF IInv, StreamIntact
  <1>3. \A i \in 1..Len(usr) : usr[i] = stream[start + i]
    BY DEF IInv, StreamIntact
  <1> QED
    BY <1>1, <1>2, <1>3

\* read(2) into the empty buffer: its bytes follow what was stored.
LEMMA RefillOK == IInv /\ Refill => IInv'
  <1> SUFFICES ASSUME IInv, Refill PROVE IInv'
    OBVIOUS
  <1> USE RioAssumption
  <1>1. PICK k \in 1..RIO_BUFSIZE :
           /\ taken + k <= sent
           /\ rioBuf' = [i \in 0..RIO_BUFSIZE-1 |->
                           IF i < k THEN stream[taken + i + 1] ELSE rioBuf[i]]
           /\ rioCnt' = k /\ rioPtr' = 0 /\ taken' = taken + k
    BY DEF Refill
  <1>2. /\ UNCHANGED <<peerVars, outVars, op, size, usr, start, text, ret>>
        /\ rioCnt <= 0 /\ Reading
    BY DEF Refill
  <1>3. /\ TypeOK /\ StreamIntact /\ CallInBounds /\ WireInOrder
        /\ stream \in Seq(Bytes)
    BY DEF IInv, TypeOK
  <1>4. \A i \in 0..k-1 : taken + i + 1 \in 1..Len(stream)
    BY <1>1, <1>3 DEF TypeOK
  <1>5. \A i \in 0..k-1 : stream[taken + i + 1] \in Bytes
    BY <1>3, <1>4
  <1>6. TypeOK'
    <2>1. rioBuf' \in [0..RIO_BUFSIZE-1 -> Bytes]
      BY <1>1, <1>3, <1>5 DEF TypeOK
    <2> QED
      BY <1>1, <1>2, <1>3, <2>1 DEF TypeOK, peerVars, outVars
  <1>7. StreamIntact'
    <2>1. start + Len(usr) = taken /\ Unread' = k
      BY <1>1, <1>2, <1>3 DEF StreamIntact, Unread, TypeOK
    <2>2. \A i \in 0..Unread'-1 :
             rioBuf'[rioPtr' + i] = stream[start + Len(usr) + i + 1]
      BY <1>1, <2>1
    <2>3. /\ stream' = stream /\ sent' = sent /\ start' = start /\ usr' = usr
          /\ start \in Nat /\ Len(usr) \in Nat /\ sent \in Nat /\ taken \in Nat
      BY <1>2, <1>3 DEF TypeOK, peerVars
    <2>4. start' + Len(usr') + Unread' = taken' /\ taken' <= sent'
      BY <1>1, <2>1, <2>3
    <2>5. \A i \in 1..Len(usr') : usr'[i] = stream'[start' + i]
      BY <1>3, <2>3 DEF StreamIntact
    <2>6. rioPtr' + Unread' <= RIO_BUFSIZE
      BY <1>1, <2>1
    <2> QED
      BY <2>2, <2>3, <2>4, <2>5, <2>6 DEF StreamIntact
  <1>8. CallInBounds'
    BY <1>2, <1>3 DEF CallInBounds
  <1>9. WireInOrder'
    BY <1>2, <1>3, Untouched
  <1> QED
    BY <1>6, <1>7, <1>8, <1>9 DEF IInv

\* The call returns u, which is what it stored; the stream goes on behind it.
LEMMA ReturnOK ==
    ASSUME IInv, op \in {"line", "count"},
           NEW u \in Seq(Bytes), NEW r \in Nat, Return(u, r),
           taken' = taken,
           rioCnt' \in -1..RIO_BUFSIZE, rioPtr' \in 0..RIO_BUFSIZE,
           rioBuf' = rioBuf,
           start + Len(u) + Unread' = taken,
           rioPtr' + Unread' <= RIO_BUFSIZE,
           \A i \in 0..Unread'-1 : rioBuf[rioPtr' + i] = stream[start + Len(u) + i + 1]
    PROVE  IInv'
  <1>1. /\ op' = "none" /\ usr' = <<>> /\ text' = u /\ start' = start + Len(u)
        /\ ret' = r /\ UNCHANGED <<peerVars, outVars, size>>
    BY DEF Return
  <1>2. TypeOK'
    BY <1>1 DEF IInv, TypeOK, peerVars, outVars
  <1>3. StreamIntact'
    <2>1. start' + Len(usr') = start + Len(u) /\ start \in Nat
      BY <1>1 DEF IInv, TypeOK
    <2>2. \A i \in 1..Len(usr') : usr'[i] = stream'[start' + i]
      BY <1>1
    <2>3. Unread' \in Int
      BY DEF Unread
    <2>4. taken' <= sent' /\ stream' = stream
      BY <1>1 DEF IInv, StreamIntact, peerVars
    <2> QED
      BY <2>1, <2>2, <2>3, <2>4 DEF StreamIntact
  <1>4. CallInBounds'
    BY <1>1 DEF CallInBounds
  <1>5. WireInOrder'
    BY <1>1, Untouched DEF IInv
  <1> QED
    BY <1>2, <1>3, <1>4, <1>5 DEF IInv

\* rio_readlineb stores a byte, or ends the line with it.
LEMMA LineByteOK == IInv /\ LineByte => IInv'
  <1> SUFFICES ASSUME IInv, LineByte PROVE IInv'
    OBVIOUS
  <1> DEFINE u == Append(usr, rioBuf[rioPtr])
  <1>1. /\ u \in Seq(Bytes) /\ Len(u) = Len(usr) + 1
        /\ \A i \in 1..Len(u) : u[i] = stream[start + i]
        /\ \A i \in 1..Len(usr) : u[i] = usr[i]
        /\ u[Len(u)] = rioBuf[rioPtr]
        /\ rioPtr \in 0..RIO_BUFSIZE-1
    BY AppendStored DEF LineByte
  <1> HIDE DEF u
  <1>2. /\ op = "line" /\ Reading /\ rioCnt > 0 /\ rioCnt \in 1..RIO_BUFSIZE
        /\ rioPtr' = rioPtr + 1 /\ rioCnt' = rioCnt - 1
        /\ taken' = taken /\ rioBuf' = rioBuf
    BY RioAssumption DEF LineByte, IInv, TypeOK
  <1>3. /\ Unread = rioCnt /\ Unread' = rioCnt - 1
        /\ start \in Nat /\ usr \in Seq(Bytes) /\ taken \in Nat
    BY <1>2 DEF Unread, IInv, TypeOK
  <1>4. /\ start + Len(u) + Unread' = taken
        /\ rioPtr' + Unread' <= RIO_BUFSIZE
        /\ rioPtr' \in 0..RIO_BUFSIZE /\ rioCnt' \in -1..RIO_BUFSIZE
    <2>1. /\ start + Len(usr) + rioCnt = taken /\ rioPtr + rioCnt <= RIO_BUFSIZE
          /\ Len(usr) \in Nat
      BY <1>3 DEF IInv, StreamIntact
    <2> QED
      BY <1>1, <1>2, <1>3, <2>1, RioAssumption
  <1>5. \A i \in 0..Unread'-1 : rioBuf[rioPtr' + i] = stream[start + Len(u) + i + 1]
    <2> SUFFICES ASSUME NEW i \in 0..Unread'-1
                 PROVE  rioBuf[rioPtr' + i] = stream[start + Len(u) + i + 1]
      OBVIOUS
    <2>1. /\ i + 1 \in 0..Unread-1 /\ rioPtr + (i + 1) = rioPtr' + i
          /\ start + Len(usr) + (i + 1) + 1 = start + Len(u) + i + 1
      BY <1>1, <1>2, <1>3
    <2>2. rioBuf[rioPtr + (i + 1)] = stream[start + Len(usr) + (i + 1) + 1]
      BY <2>1 DEF IInv, StreamIntact
    <2> QED
      BY <2>1, <2>2
  <1>6. CASE rioBuf[rioPtr] = NL
    <2>1. Return(u, Len(usr) + 1)
      BY <1>6 DEF LineByte, u
    <2>2. Len(usr) + 1 \in Nat
      BY <1>3
    <2> QED
      BY <1>1, <1>2, <1>4, <1>5, <2>1, <2>2, ReturnOK
  <1>7. CASE rioBuf[rioPtr] # NL
    <2>1. usr' = u /\ UNCHANGED <<peerVars, outVars, op, size, start, text, ret>>
      BY <1>7 DEF LineByte, u
    <2>2. TypeOK'
      BY <1>1, <1>2, <1>4, <2>1 DEF IInv, TypeOK, peerVars, outVars
    <2>3. StreamIntact'
      <3>1. taken' <= sent' /\ stream' = stream /\ start' = start
        BY <1>2, <2>1 DEF IInv, StreamIntact, peerVars
      <3> QED
        BY <1>1, <1>2, <1>4, <1>5, <2>1, <3>1 DEF StreamIntact
    <2>4. CallInBounds'
      <3>1. Len(u) < size
        BY <1>1, <1>2 DEF Reading
      <3>2. \A i \in 1..Len(u) : u[i] # NL
        <4>1. \A i \in 1..Len(usr) : usr[i] # NL
          BY <1>2 DEF IInv, CallInBounds
        <4> QED
          BY <1>1, <1>3, <1>7, <4>1
      <3> QED
        BY <1>2, <2>1, <3>1, <3>2 DEF CallInBounds
    <2>5. WireInOrder'
      BY <2>1, Untouched DEF IInv
    <2> QED
      BY <2>2, <2>3, <2>4, <2>5 DEF IInv
  <1> QED
    BY <1>6, <1>7

\* rio_readlineb at the end of the stream.
LEMMA LineEofOK == IInv /\ LineEof => IInv'
  <1> SUFFICES ASSUME IInv, LineEof PROVE IInv'
    OBVIOUS
  <1>1. /\ op = "line" /\ Reading /\ rioCnt <= 0 /\ rioCnt' = 0
        /\ UNCHANGED <<rioPtr, rioBuf, taken>>
    BY DEF LineEof, AtEnd
  <1>2. /\ Unread = 0 /\ Unread' = 0 /\ usr \in Seq(Bytes) /\ start \in Nat
        /\ rioPtr \in 0..RIO_BUFSIZE /\ 0 \in -1..RIO_BUFSIZE
        /\ start + Len(usr) + 0 = taken
    BY <1>1, RioAssumption DEF Unread, IInv, TypeOK, StreamIntact
  <1>3. CASE usr = <<>>
    <2>1. op' = "none" /\ ret' = 0
            /\ UNCHANGED <<peerVars, outVars, size, usr, start, text>>
      BY <1>3 DEF LineEof
    <2>2. TypeOK'
      BY <1>1, <1>2, <2>1 DEF IInv, TypeOK, peerVars, outVars
    <2>3. StreamIntact'
      <3>1. /\ stream' = stream /\ sent' = sent /\ taken' = taken
            /\ start' = start /\ usr' = usr /\ rioPtr' = rioPtr
        BY <1>1, <2>1 DEF peerVars
      <3>2. taken <= sent /\ \A i \in 1..Len(usr) : usr[i] = stream[start + i]
        BY DEF IInv, StreamIntact
      <3> QED
        BY <1>2, <3>1, <3>2 DEF StreamIntact
    <2>4. CallInBounds'
      BY <1>3, <2>1 DEF CallInBounds
    <2>5. WireInOrder'
      BY <1>1, <2>1, Untouched DEF IInv
    <2> QED
      BY <2>2, <2>3, <2>4, <2>5 DEF IInv
  <1>4. CASE usr # <<>>
    <2>1. Return(usr, Len(usr) + 1)
      BY <1>4 DEF LineEof
    <2> QED
      BY <1>1, <1>2, <2>1, ReturnOK
  <1> QED
    BY <1>3, <1>4

\* The other ways in which a call of the reading side returns.
LEMMA ReturnsOK == IInv /\ (LineFull \/ CountEof \/ CountDone) => IInv'
  <1> SUFFICES ASSUME IInv, LineFull \/ CountEof \/ CountDone PROVE IInv'
    OBVIOUS
  <1>1. /\ usr \in Seq(Bytes) /\ start \in Nat /\ size \in Nat
        /\ rioCnt \in -1..RIO_BUFSIZE /\ rioPtr \in 0..RIO_BUFSIZE
        /\ start + Len(usr) + Unread = taken /\ rioPtr + Unread <= RIO_BUFSIZE
        /\ \A i \in 0..Unread-1 : rioBuf[rioPtr + i] = stream[start + Len(usr) + i + 1]
    BY DEF IInv, TypeOK, StreamIntact
  <1>2. CASE LineFull \/ CountDone
    <2>1. op \in {"line", "count"} /\ UNCHANGED rioVars
      BY <1>2 DEF LineFull, CountDone
    <2>2. PICK r \in Nat : Return(usr, r)
      BY <1>1, <1>2 DEF LineFull, CountDone
    <2>3. Unread' = Unread
      BY <2>1 DEF Unread, rioVars
    <2> QED
      BY <1>1, <2>1, <2>2, <2>3, ReturnOK DEF rioVars
  <1>3. CASE CountEof
    <2>1. /\ op = "count" /\ rioCnt <= 0 /\ rioCnt' = 0 /\ Return(usr, Len(usr))
          /\ UNCHANGED <<rioPtr, rioBuf, taken>>
      BY <1>3 DEF CountEof, AtEnd
    <2>2. Unread = 0 /\ Unread' = 0 /\ 0 \in -1..RIO_BUFSIZE /\ Len(usr) \in Nat
      BY <1>1, <2>1, RioAssumption DEF Unread
    <2> QED
      BY <1>1, <2>1, <2>2, ReturnOK
  <1> QED
    BY <1>2, <1>3

\* rio_readnb stores what rio_buf has, up to what is asked.
LEMMA CountBytesOK == IInv /\ CountBytes => IInv'
  <1> SUFFICES ASSUME IInv, CountBytes PROVE IInv'
    OBVIOUS
  <1> DEFINE n   == size - Len(usr)
             cnt == IF rioCnt < n THEN rioCnt ELSE n
             new == [i \in 1..cnt |-> rioBuf[rioPtr + i - 1]]
             u   == usr \o new
  <1>1. /\ op = "count" /\ Len(usr) < size /\ rioCnt > 0
        /\ usr' = u /\ rioPtr' = rioPtr + cnt /\ rioCnt' = rioCnt - cnt
        /\ UNCHANGED <<peerVars, rioBuf, taken, outVars, op, size, start, text, ret>>
    BY DEF CountBytes, Reading
  <1>2. /\ usr \in Seq(Bytes) /\ size \in Nat /\ start \in Nat /\ taken \in Nat
        /\ rioCnt \in 1..RIO_BUFSIZE /\ rioPtr \in Nat
        /\ rioBuf \in [0..RIO_BUFSIZE-1 -> Bytes]
        /\ RIO_BUFSIZE \in Nat /\ Len(usr) \in Nat
    BY <1>1, RioAssumption DEF IInv, TypeOK
  <1>3. /\ Unread = rioCnt
        /\ start + Len(usr) + rioCnt = taken
        /\ rioPtr + rioCnt <= RIO_BUFSIZE
        /\ \A i \in 1..Len(usr) : usr[i] = stream[start + i]
        /\ \A i \in 0..rioCnt-1 : rioBuf[rioPtr + i] = stream[start + Len(usr) + i + 1]
    <2>1. Unread = rioCnt
      BY <1>2 DEF Unread
    <2> QED
      BY <2>1 DEF IInv, StreamIntact
  <1>4. cnt \in 1..rioCnt /\ Len(usr) + cnt <= size
    BY <1>1, <1>2
  <1> HIDE DEF cnt
  <1>5. Unread' = rioCnt - cnt
    BY <1>1, <1>2, <1>4 DEF Unread
  <1>6. \A i \in 1..cnt : /\ rioPtr + i - 1 \in 0..RIO_BUFSIZE-1
                          /\ i - 1 \in 0..rioCnt-1
                          /\ rioPtr + (i - 1) = rioPtr + i - 1
                          /\ start + Len(usr) + (i - 1) + 1 = start + Len(usr) + i
    BY <1>2, <1>3, <1>4
  <1>7. /\ new \in Seq(Bytes) /\ Len(new) = cnt
        /\ \A i \in 1..cnt : new[i] = stream[start + Len(usr) + i]
    <2>1. \A i \in 1..cnt : rioBuf[rioPtr + i - 1] \in Bytes
      BY <1>2, <1>6
    <2>2. \A i \in 1..cnt : rioBuf[rioPtr + i - 1] = stream[start + Len(usr) + i]
      BY <1>3, <1>6
    <2>3. cnt \in Nat
      BY <1>2, <1>4
    <2> QED
      BY <2>1, <2>2, <2>3
  <1> HIDE DEF new
  <1>8. /\ u \in Seq(Bytes) /\ Len(u) = Len(usr) + cnt
        /\ \A i \in 1..Len(u) : u[i] = stream[start + i]
    <2>1. u \in Seq(Bytes) /\ Len(u) = Len(usr) + cnt
      BY <1>2, <1>7, Joined
    <2>2. \A i \in 1..Len(usr) : u[i] = usr[i]
      BY <1>2, <1>7, Joined
    <2>3. \A i \in Len(usr)+1..Len(usr)+cnt :
             /\ u[i] = new[i - Len(usr)]
             /\ i - Len(usr) \in 1..cnt
             /\ start + Len(usr) + (i - Len(usr)) = start + i
      BY <1>2, <1>4, <1>7, Joined
    <2>4. \A i \in Len(usr)+1..Len(usr)+cnt : u[i] = stream[start + i]
      BY <1>7, <2>3
    <2> QED
      BY <1>2, <1>3, <1>4, <2>1, <2>2, <2>4
  <1> HIDE DEF u
  <1>9. TypeOK'
    <2>1. rioCnt - cnt \in -1..RIO_BUFSIZE /\ rioPtr + cnt \in 0..RIO_BUFSIZE
      BY <1>2, <1>3, <1>4
    <2> QED
      BY <1>1, <1>8, <2>1 DEF IInv, TypeOK, peerVars, outVars
  <1>10. StreamIntact'
    <2>1. /\ stream' = stream /\ sent' = sent /\ taken' = taken /\ start' = start
          /\ rioBuf' = rioBuf
      BY <1>1 DEF peerVars
    <2>2. start + Len(u) + (rioCnt - cnt) = taken
      BY <1>2, <1>3, <1>4, <1>8
    <2>3. rioPtr + cnt + (rioCnt - cnt) <= RIO_BUFSIZE
      BY <1>2, <1>3, <1>4
    <2>4. \A i \in 0..rioCnt-cnt-1 :
             rioBuf[rioPtr + cnt + i] = stream[start + Len(u) + i + 1]
      <3> SUFFICES ASSUME NEW i \in 0..rioCnt-cnt-1
                   PROVE  rioBuf[rioPtr + cnt + i] = stream[start + Len(u) + i + 1]
        OBVIOUS
      <3>1. /\ cnt + i \in 0..rioCnt-1 /\ rioPtr + (cnt + i) = rioPtr + cnt + i
            /\ start + Len(usr) + (cnt + i) + 1 = start + Len(u) + i + 1
        BY <1>2, <1>4, <1>8
      <3>2. rioBuf[rioPtr + (cnt + i)] = stream[start + Len(usr) + (cnt + i) + 1]
        BY <1>3, <3>1
      <3> QED
        BY <3>1, <3>2
    <2>5. taken <= sent
      BY DEF IInv, StreamIntact
    <2> QED
      BY <1>1, <1>5, <1>8, <2>1, <2>2, <2>3, <2>4, <2>5 DEF StreamIntact
  <1>11. CallInBounds'
    <2>1. Len(u) <= size
      BY <1>4, <1>8
    <2> QED
      BY <1>1, <2>1 DEF CallInBounds
  <1>12. WireInOrder'
    BY <1>1, Untouched DEF IInv
  <1> QED
    BY <1>9, <1>10, <1>11, <1>12 DEF IInv

\* write(2) takes bytes from where it stopped.
LEMMA WriteSomeOK == IInv /\ WriteSome => IInv'
  <1> SUFFICES ASSUME IInv, WriteSome PROVE IInv'
    OBVIOUS
  <1>1. PICK k \in 1..nleft :
           /\ wire' = wire \o [i \in 1..k |-> bufp + i - 1]
           /\ nleft' = nleft - k
           /\ bufp' = bufp + k
    BY DEF WriteSome
  <1> DEFINE new == [i \in 1..k |-> bufp + i - 1]
  <1>2. /\ op = "write"
        /\ UNCHANGED <<peerVars, rioVars, asked, op, size, usr, start, text, ret>>
    BY DEF WriteSome
  <1>3. /\ wire \in Seq(Nat) /\ nleft \in Nat /\ bufp \in Nat /\ asked \in Nat
        /\ bufp = Len(wire) + 1 /\ Len(wire) + nleft = asked
        /\ Len(wire) \in Nat /\ k \in Nat
        /\ \A i \in 1..Len(wire) : wire[i] = i
    BY <1>1, <1>2 DEF IInv, TypeOK, WireInOrder
  <1>4. new \in Seq(Nat) /\ Len(new) = k /\ \A i \in 1..k : new[i] = Len(wire) + i
    <2>1. \A i \in 1..k : bufp + i - 1 \in Nat /\ bufp + i - 1 = Len(wire) + i
      BY <1>3
    <2> QED
      BY <1>3, <2>1
  <1>0. wire' = wire \o new
    BY <1>1
  <1> HIDE DEF new
  <1>5. /\ wire' \in Seq(Nat) /\ Len(wire') = Len(wire) + k
        /\ \A i \in 1..Len(wire) : wire'[i] = wire[i]
        /\ \A i \in Len(wire)+1..Len(wire)+k : wire'[i] = new[i - Len(wire)]
    <2>1. /\ wire \o new \in Seq(Nat) /\ Len(wire \o new) = Len(wire) + Len(new)
          /\ \A i \in 1..Len(wire) : (wire \o new)[i] = wire[i]
          /\ \A i \in Len(wire)+1..Len(wire)+Len(new) :
                (wire \o new)[i] = new[i - Len(wire)]
      BY <1>3, <1>4, Joined, ZenonT(40)
    <2> QED
      BY <1>0, <1>4, <2>1, Zenon
  <1>6. \A i \in 1..Len(wire') : wire'[i] = i
    <2>1. \A i \in Len(wire)+1..Len(wire)+k :
             i - Len(wire) \in 1..k /\ Len(wire) + (i - Len(wire)) = i
      BY <1>3
    <2>2. \A i \in Len(wire)+1..Len(wire)+k : wire'[i] = i
      BY <1>4, <1>5, <2>1
    <2>3. \A i \in 1..Len(wire) : wire'[i] = i
      BY <1>3, <1>5
    <2> QED
      BY <1>3, <1>5, <2>2, <2>3
  <1>7. TypeOK'
    BY <1>1, <1>2, <1>3, <1>5 DEF IInv, TypeOK, peerVars, rioVars
  <1>8. StreamIntact'
    BY <1>2 DEF IInv, StreamIntact, Unread, peerVars, rioVars
  <1>9. CallInBounds'
    BY <1>2 DEF IInv, CallInBounds
  <1>10. WireInOrder'
    <2>1. bufp' = Len(wire') + 1 /\ Len(wire') + nleft' = asked'
      <3>1. nleft' = nleft - k /\ bufp' = bufp + k /\ asked' = asked
        BY <1>1, <1>2
      <3>2. Len(wire') = Len(wire) + k
        BY <1>5
      <3> QED
        BY <1>3, <3>1, <3>2
    <2> QED
      BY <1>2, <1>6, <2>1 DEF WireInOrder
  <1> QED
    BY <1>7, <1>8, <1>9, <1>10 DEF IInv

\* The steps that do not touch the stream, rio_buf or what is on the wire.
LEMMA OtherOK ==
    IInv /\ (\/ PeerSend \/ PeerLeave \/ RefillIntr \/ RefillError
             \/ WriteError \/ WriteDone \/ Ended \/ UNCHANGED vars
             \/ \E l \in LineSizes : CallLine(l)
             \/ \E n \in Counts : CallCount(n) \/ CallWrite(n)) => IInv'
  <1> SUFFICES ASSUME IInv PROVE
         /\ PeerSend \/ PeerLeave => IInv'
         /\ RefillIntr \/ RefillError => IInv'
         /\ WriteError \/ WriteDone \/ Ended \/ UNCHANGED vars => IInv'
         /\ \A l \in LineSizes : CallLine(l) => IInv'
         /\ \A n \in Counts : CallCount(n) \/ CallWrite(n) => IInv'
    OBVIOUS
  <1>1. /\ TypeOK /\ StreamIntact /\ CallInBounds /\ WireInOrder
        /\ stream \in Seq(Bytes)
    BY RioAssumption DEF IInv, TypeOK
  <1>2. ASSUME PeerSend \/ PeerLeave PROVE IInv'
    <2>1. /\ stream' = stream /\ sent' \in sent..Len(stream)
          /\ peer' \in {"open", "fin", "rst"}
          /\ UNCHANGED <<rioVars, outVars, op, size, usr, start, text, ret>>
      BY <1>1, <1>2 DEF PeerSend, PeerLeave, TypeOK
    <2>2. TypeOK'
      BY <1>1, <2>1 DEF TypeOK, rioVars, outVars
    <2>3. StreamIntact'
      BY <1>1, <2>1 DEF StreamIntact, Unread, TypeOK, rioVars
    <2>4. CallInBounds' /\ WireInOrder'
      BY <1>1, <2>1 DEF CallInBounds, WireInOrder, outVars
    <2> QED
      BY <2>2, <2>3, <2>4 DEF IInv
  <1>3. ASSUME RefillIntr \/ RefillError PROVE IInv'
    <2>1. /\ rioCnt <= 0 /\ rioCnt' = -1 /\ op' \in {op, "dead"}
          /\ op \in {"line", "count"}
          /\ UNCHANGED <<peerVars, rioPtr, rioBuf, taken, outVars, size, usr, start,
                         text, ret>>
      BY <1>3 DEF RefillIntr, RefillError, Reading
    <2>2. TypeOK'
      BY <1>1, <2>1, RioAssumption DEF TypeOK, peerVars, outVars
    <2>3. StreamIntact'
      <3>1. Unread = 0 /\ Unread' = 0
        BY <1>1, <2>1 DEF Unread, TypeOK
      <3> QED
        BY <1>1, <2>1, <3>1 DEF StreamIntact, peerVars
    <2>4. CallInBounds' /\ WireInOrder'
      BY <1>1, <2>1, Untouched DEF CallInBounds
    <2> QED
      BY <2>2, <2>3, <2>4 DEF IInv
  <1>4. ASSUME WriteError \/ WriteDone \/ Ended \/ UNCHANGED vars PROVE IInv'
    <2>1. /\ \/ op = "write" /\ op' = "dead"
             \/ op = "write" /\ nleft = 0 /\ op' = "none"
             \/ op' = op
          /\ UNCHANGED <<peerVars, rioVars, outVars, size, usr, start, text, ret>>
      BY <1>4 DEF WriteError, WriteDone, Ended, vars
    <2>2. TypeOK'
      BY <1>1, <2>1 DEF TypeOK, peerVars, rioVars, outVars
    <2>3. StreamIntact'
      BY <1>1, <2>1 DEF StreamIntact, Unread, peerVars, rioVars
    <2>4. CallInBounds'
      BY <1>1, <2>1 DEF CallInBounds
    <2>5. WireInOrder'
      BY <1>1, <2>1 DEF WireInOrder, outVars, TypeOK
    <2> QED
      BY <2>2, <2>3, <2>4, <2>5 DEF IInv
  <1>5. ASSUME NEW l \in LineSizes, CallLine(l) PROVE IInv'
    <2>1. /\ op = "none" /\ op' = "line" /\ size' = l /\ usr' = <<>> /\ usr = <<>>
          /\ l \in Nat \ {0}
          /\ UNCHANGED <<peerVars, rioVars, outVars, start, text, ret>>
      BY <1>1, <1>5, RioAssumption DEF CallLine, CallInBounds
    <2>2. TypeOK'
      BY <1>1, <2>1 DEF TypeOK, peerVars, rioVars, outVars
    <2>3. StreamIntact'
      BY <1>1, <2>1 DEF StreamIntact, Unread, peerVars, rioVars
    <2>4. CallInBounds' /\ WireInOrder'
      BY <1>1, <2>1, Untouched DEF CallInBounds
    <2> QED
      BY <2>2, <2>3, <2>4 DEF IInv
  <1>6. ASSUME NEW n \in Counts, CallCount(n) PROVE IInv'
    <2>1. /\ op = "none" /\ op' = "count" /\ size' = n /\ usr' = <<>> /\ usr = <<>>
          /\ n \in Nat
          /\ UNCHANGED <<peerVars, rioVars, outVars, start, text, ret>>
      BY <1>1, <1>6, RioAssumption DEF CallCount, CallInBounds
    <2>2. TypeOK'
      BY <1>1, <2>1 DEF TypeOK, peerVars, rioVars, outVars
    <2>3. StreamIntact'
      BY <1>1, <2>1 DEF StreamIntact, Unread, peerVars, rioVars
    <2>4. CallInBounds' /\ WireInOrder'
      BY <1>1, <2>1, Untouched DEF CallInBounds
    <2> QED
      BY <2>2, <2>3, <2>4 DEF IInv
  <1>7. ASSUME NEW n \in Counts, CallWrite(n) PROVE IInv'
    <2>1. /\ op = "none" /\ op' = "write" /\ nleft' = n /\ bufp' = asked + 1
          /\ asked' = asked + n /\ n \in Nat
          /\ UNCHANGED <<peerVars, rioVars, wire, size, usr, start, text, ret>>
      BY <1>7, RioAssumption DEF CallWrite
    <2>2. TypeOK'
      BY <1>1, <2>1 DEF TypeOK, peerVars, rioVars
    <2>3. StreamIntact'
      BY <1>1, <2>1 DEF StreamIntact, Unread, peerVars, rioVars
    <2>4. CallInBounds'
      BY <1>1, <2>1 DEF CallInBounds
    <2>5. WireInOrder'
      BY <1>1, <2>1 DEF WireInOrder, TypeOK
    <2> QED
      BY <2>2, <2>3, <2>4, <2>5 DEF IInv
  <1> QED
    BY <1>2, <1>3, <1>4, <1>5, <1>6, <1>7

LEMMA StepOK == IInv /\ [Next]_vars => IInv'
  BY RefillOK, LineByteOK, LineEofOK, ReturnsOK, CountBytesOK, WriteSomeOK, OtherOK
     DEF Next, Read, Write

\* The inductive invariant holds.
THEOREM Invariance == Spec => []IInv
  BY InitOK, StepOK, PTL DEF Spec

\* Type correctness: no count, pointer or position leaves its range.
THEOREM TypeCorrect == Spec => []TypeOK
  <1>1. IInv => TypeOK
    BY DEF IInv
  <1> QED
    BY <1>1, Invariance, PTL

\* Between the socket, rio_buf and the callers no byte is lost, doubled or moved.
THEOREM NothingLostInBuffer == Spec => []StreamIntact
  <1>1. IInv => StreamIntact
    BY DEF IInv
  <1> QED
    BY <1>1, Invariance, PTL

\* rio_readlineb and rio_readnb never store behind the end of the caller's buffer.
THEOREM NoOverrun == Spec => []CallInBounds
  <1>1. IInv => CallInBounds
    BY DEF IInv
  <1> QED
    BY <1>1, Invariance, PTL

\* What is on the wire is what was written, in order and each byte once.
THEOREM WritesInOrder == Spec => []WireInOrder
  <1>1. IInv => WireInOrder
    BY DEF IInv
  <1> QED
    BY <1>1, Invariance, PTL

-----------------------------------------------------------------------------
(* Rio implements ByteReader. *)

\* A call that returns u has taken the next Len(u) bytes off the stream.
LEMMA ReturnIsPiece ==
    ASSUME IInv, NEW u \in Seq(Bytes), NEW r \in Nat, Return(u, r),
           start + Len(u) <= sent,
           \A i \in 1..Len(u) : u[i] = stream[start + i]
    PROVE  BR!Return(Len(u), r)
  <1>1. stream \in Seq(Bytes) /\ start \in Nat /\ sent \in Nat /\ sent <= Len(stream)
    BY RioAssumption DEF IInv, TypeOK
  <1>2. u = SubSeq(stream, start + 1, start + Len(u))
    BY <1>1, PieceOf
  <1> QED
    BY <1>2 DEF BR!Return, Return, peerVars

\* The end of a line of rio_readlineb is the end of a line of the stream.
LEMMA LineByteRefines == IInv /\ LineByte => [BR!Next]_(BR!vars)
  <1> SUFFICES ASSUME IInv, LineByte PROVE [BR!Next]_(BR!vars)
    OBVIOUS
  <1> DEFINE u == Append(usr, rioBuf[rioPtr])
  <1>1. /\ op = "line" /\ Reading /\ rioCnt > 0 /\ rioCnt \in Nat
        /\ Len(usr) + 1 < size /\ size \in Nat /\ start \in Nat /\ sent \in Nat
        /\ usr \in Seq(Bytes) /\ taken \in Nat /\ taken <= sent
        /\ start + Len(usr) + Unread = taken
        /\ \A i \in 1..Len(usr) : usr[i] # NL
    BY DEF LineByte, Reading, IInv, TypeOK, StreamIntact, CallInBounds
  <1>2. /\ u \in Seq(Bytes) /\ Len(u) = Len(usr) + 1
        /\ \A i \in 1..Len(u) : u[i] = stream[start + i]
        /\ \A i \in 1..Len(usr) : u[i] = usr[i]
        /\ u[Len(u)] = rioBuf[rioPtr]
    BY <1>1, AppendStored
  <1> HIDE DEF u
  <1>3. start + Len(u) <= sent
    BY <1>1, <1>2 DEF Unread
  <1>4. CASE rioBuf[rioPtr] = NL
    <2>1. Return(u, Len(u))
      <3>1. Return(u, Len(usr) + 1)
        BY <1>4 DEF LineByte, u
      <3> QED
        BY <1>2, <3>1
    <2>2. BR!Return(Len(u), Len(u))
      BY <1>2, <1>3, <2>1, ReturnIsPiece
    <2>3. \A i \in 1..Len(u)-1 : stream[start + i] # NL
      BY <1>1, <1>2
    <2>4. /\ Len(u) \in 1..size-1 /\ stream[start + Len(u)] = NL
          /\ Len(u) \in 1..Len(u)
      BY <1>1, <1>2, <1>4
    <2>5. BR!ReturnLine
      BY <1>1, <1>3, <2>2, <2>3, <2>4 DEF BR!ReturnLine, BR!OneLine
    <2> QED
      BY <2>5 DEF BR!Next
  <1>5. CASE rioBuf[rioPtr] # NL
    <2>1. UNCHANGED <<peerVars, op, size, start, text, ret>>
      BY <1>5 DEF LineByte
    <2> QED
      BY <2>1 DEF BR!vars, BR!callVars, peerVars
  <1> QED
    BY <1>4, <1>5

\* The other returns: a full buffer, the end of the stream, a full count.
LEMMA ReturnsRefine ==
    IInv /\ (LineFull \/ LineEof \/ CountEof \/ CountDone) => [BR!Next]_(BR!vars)
  <1> SUFFICES ASSUME IInv, LineFull \/ LineEof \/ CountEof \/ CountDone
               PROVE  BR!Next
    OBVIOUS
  <1>1. /\ usr \in Seq(Bytes) /\ start \in Nat /\ size \in Nat /\ sent \in Nat
        /\ taken \in Nat /\ Unread \in Nat /\ taken <= sent
        /\ start + Len(usr) + Unread = taken /\ Len(usr) \in Nat
        /\ \A i \in 1..Len(usr) : usr[i] = stream[start + i]
    BY DEF IInv, TypeOK, StreamIntact, Unread
  <1>2. start + Len(usr) <= sent
    BY <1>1
  <1>3. op = "line" => /\ Len(usr) < size
                       /\ \A i \in 1..Len(usr) : stream[start + i] # NL
    BY <1>1 DEF IInv, CallInBounds
  <1>4. op = "count" => Len(usr) <= size
    BY DEF IInv, CallInBounds
  <1>5. ASSUME AtEnd PROVE start + Len(usr) = sent /\ peer = "fin"
    BY <1>1, <1>5 DEF AtEnd, Unread
  <1>6. CASE LineFull
    <2>1. op = "line" /\ Len(usr) = size - 1 /\ Return(usr, size)
      BY <1>1, <1>3, <1>6 DEF LineFull, Reading
    <2>2. BR!Return(size - 1, size)
      BY <1>1, <1>2, <2>1, ReturnIsPiece
    <2>3. start + size - 1 <= sent /\ \A i \in 1..size-1 : stream[start + i] # NL
      BY <1>1, <1>2, <1>3, <2>1
    <2> QED
      BY <2>1, <2>2, <2>3 DEF BR!Next, BR!ReturnPart, BR!OneLine
  <1>7. CASE LineEof
    <2>1. op = "line" /\ AtEnd /\ Len(usr) + 1 < size
      BY <1>7 DEF LineEof, AtEnd, Reading
    <2>2. CASE usr = <<>>
      <3>1. op' = "none" /\ ret' = 0 /\ UNCHANGED <<peerVars, size, start, text>>
        BY <1>7, <2>2 DEF LineEof
      <3>2. start = sent /\ size > 1
        BY <1>1, <1>5, <2>1, <2>2
      <3> QED
        BY <1>5, <2>1, <3>1, <3>2 DEF BR!Next, BR!ReturnEnd, peerVars
    <2>3. CASE usr # <<>>
      <3>1. Return(usr, Len(usr) + 1)
        BY <1>7, <2>3 DEF LineEof
      <3>2. Len(usr) = sent - start /\ Len(usr) > 0
        BY <1>1, <1>5, <2>1, <2>3
      <3>3. BR!Return(sent - start, sent - start + 1)
        BY <1>1, <1>2, <3>1, <3>2, ReturnIsPiece
      <3>4. start < sent /\ sent < start + size - 1
        BY <1>1, <2>1, <3>2
      <3> QED
        BY <1>3, <1>5, <2>1, <3>2, <3>3, <3>4 DEF BR!Next, BR!ReturnRest, BR!OneLine
    <2> QED
      BY <2>2, <2>3
  <1>8. CASE CountEof
    <2>1. op = "count" /\ AtEnd /\ Len(usr) < size /\ Return(usr, Len(usr))
      BY <1>8 DEF CountEof, AtEnd, Reading
    <2>2. Len(usr) = sent - start /\ sent < start + size
      BY <1>1, <1>5, <2>1
    <2>3. BR!Return(sent - start, sent - start)
      BY <1>1, <1>2, <2>1, <2>2, ReturnIsPiece
    <2> QED
      BY <1>5, <2>1, <2>2, <2>3 DEF BR!Next, BR!ReturnShort
  <1>9. CASE CountDone
    <2>1. op = "count" /\ Len(usr) = size /\ Return(usr, Len(usr))
      BY <1>1, <1>4, <1>9 DEF CountDone, Reading
    <2>2. BR!Return(size, size)
      BY <1>1, <1>2, <2>1, ReturnIsPiece
    <2> QED
      BY <1>2, <2>1, <2>2 DEF BR!Next, BR!ReturnCount
  <1> QED
    BY <1>6, <1>7, <1>8, <1>9

\* Every step of Rio is a step of ByteReader or leaves it as it is.
LEMMA StepRefines == IInv /\ [Next]_vars => [BR!Next]_(BR!vars)
  <1> SUFFICES ASSUME IInv, [Next]_vars PROVE [BR!Next]_(BR!vars)
    OBVIOUS
  <1>1. CASE PeerSend
    BY <1>1 DEF PeerSend, BR!Next, BR!Send, BR!callVars
  <1>2. CASE PeerLeave
    BY <1>2 DEF PeerLeave, BR!Next, BR!Leave, BR!callVars
  <1>3. ASSUME NEW l \in LineSizes, CallLine(l) PROVE BR!Next
    BY <1>3 DEF CallLine, BR!Next, BR!CallLine, peerVars
  <1>4. ASSUME NEW n \in Counts, CallCount(n) PROVE BR!Next
    BY <1>4 DEF CallCount, BR!Next, BR!CallCount, peerVars
  <1>5. CASE RefillError \/ WriteError
    <2>1. /\ peer = "rst" /\ op' = "dead" /\ UNCHANGED <<peerVars, size, start, text, ret>>
      BY <1>5 DEF RefillError, WriteError
    <2> QED
      BY <2>1 DEF BR!Next, BR!Die, peerVars
  <1>6. CASE \/ Refill \/ RefillIntr \/ CountBytes \/ WriteSome \/ WriteDone \/ Ended
             \/ UNCHANGED vars \/ \E n \in Counts : CallWrite(n)
    <2>1. /\ UNCHANGED <<peerVars, size, start, text, ret>>
          /\ \/ op' = op
             \/ op = "none" /\ op' = "write"
             \/ op = "write" /\ op' = "none"
      BY <1>6 DEF Refill, RefillIntr, CountBytes, WriteSome, WriteDone, Ended, CallWrite,
                  vars
    <2> QED
      BY <2>1 DEF BR!vars, BR!callVars, peerVars
  <1> QED
    BY <1>1, <1>2, <1>3, <1>4, <1>5, <1>6, LineByteRefines, ReturnsRefine
       DEF Next, Read, Write

\* However the bytes are cut, buffered and interrupted, each call takes the next
\* line or the next n bytes off the stream, as if in one step.
THEOREM Refinement == Spec => ImplementsByteReader
  <1>1. Init => BR!Init
    BY DEF Init, BR!Init
  <1> QED
    BY <1>1, Invariance, StepRefines, PTL DEF Spec, BR!Spec, ImplementsByteReader
=============================================================================
