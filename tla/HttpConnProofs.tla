--------------------------- MODULE HttpConnProofs ---------------------------
(***************************************************************************)
(* Proofs about HttpConn for every buffer size, every set of streams and   *)
(* every segmentation: the positions in the read buffer stay in order, the *)
(* server does not hang up on a waiting peer without a reason, and what it *)
(* does with a request line does not depend on how the network cut it.     *)
(***************************************************************************)
EXTENDS HttpConn, WellFoundedInduction, TLAPS

\* A nonempty set of naturals has a least element, which Min names.
LEMMA MinOfNaturals ==
    ASSUME NEW S \in SUBSET Nat, S # {}
    PROVE  Min(S) \in S /\ \A x \in S : Min(S) <= x
  <1>1. PICK m \in S : \A x \in S : ~(<<x, m>> \in OpToRel(<, Nat))
    BY NatLessThanWellFounded, WFMin
  <1>2. \A x \in S : m <= x
    <2> SUFFICES ASSUME NEW x \in S, x < m PROVE FALSE
      OBVIOUS
    <2>1. <<x, m>> \in Nat \X Nat /\ <<x, m>>[1] < <<x, m>>[2]
      OBVIOUS
    <2>2. <<x, m>> \in OpToRel(<, Nat)
      BY <2>1 DEF OpToRel
    <2> QED
      BY <1>1, <2>2
  <1> QED
    BY <1>2 DEF Min

-----------------------------------------------------------------------------
(* What the helpers return. *)

\* ParseLine moves checked_idx_ forward and never past read_idx_, leaves no end
\* of line behind it and touches nothing ahead of it. A complete line ends in
\* two NULs. This is where the dead branch of ParseLine shows: a CR before
\* the first LF would have been found first.
LEMMA ParseLineFacts ==
    ASSUME TypeOK, LineBounds
    PROVE  /\ ParseLine.checked \in checkedIdx..readIdx
           /\ ParseLine.buf \in [0..READ_BUF_SIZE-1 -> Symbols]
           /\ \A j \in 0..ParseLine.checked-1 :
                 ParseLine.buf[j] \notin {CR, LF}
           /\ \A j \in ParseLine.checked..readIdx-1 :
                 ParseLine.buf[j] = readBuf[j]
           /\ ParseLine.status # "OK" => ParseLine.buf = readBuf
           /\ ParseLine.status = "OK" =>
                 /\ ParseLine.checked - 2 \in checkedIdx..readIdx-1
                 /\ ParseLine.buf[ParseLine.checked - 2] = NUL
  <1> DEFINE ends == {i \in checkedIdx..readIdx-1 : readBuf[i] \in {CR, LF}}
             i == Min(ends)
             N == READ_BUF_SIZE
             cut == [status  |-> "OK", checked |-> i + 2,
                     buf |-> [readBuf EXCEPT ![i] = NUL, ![i + 1] = NUL]]
             stay(s) == [status |-> s, checked |-> i, buf |-> readBuf]
             R == IF ends = {} THEN [status |-> "OPEN", checked |-> readIdx,
                                     buf |-> readBuf]
                  ELSE IF readBuf[i] = CR
                       THEN IF i + 1 = readIdx THEN stay("OPEN")
                            ELSE IF readBuf[i + 1] = LF THEN cut
                            ELSE stay("BAD")
                       ELSE IF i > 1 /\ readBuf[i - 1] = CR THEN cut
                            ELSE stay("BAD")
  <1>0. ParseLine = R
    BY DEF ParseLine
  <1>1. /\ readIdx \in Nat /\ checkedIdx \in Nat /\ N \in Nat \ {0}
        /\ checkedIdx <= readIdx /\ readIdx <= N
        /\ readBuf \in [0..N-1 -> Symbols]
        /\ \A j \in 0..checkedIdx-1 : readBuf[j] \notin {CR, LF}
    BY SizesAssumption DEF TypeOK, LineBounds
  <1>2. NUL \in Symbols /\ NUL \notin {CR, LF} /\ CR # LF
    BY DEF Symbols, NUL, CR, LF
  <1> HIDE DEF i
  <1>3. CASE ends = {}
    <2>1. R = [status |-> "OPEN", checked |-> readIdx, buf |-> readBuf]
      BY <1>3
    <2>2. \A j \in checkedIdx..readIdx-1 : readBuf[j] \notin {CR, LF}
      BY <1>3
    <2> HIDE DEF R
    <2> QED
      BY <1>0, <1>1, <2>1, <2>2
  <1>4. CASE ends # {}
    <2>0. ends \in SUBSET Nat
      BY <1>1
    <2>1. i \in ends /\ \A x \in ends : i <= x
      <3> HIDE DEF ends
      <3> QED
        BY <2>0, <1>4, MinOfNaturals DEF i
    <2>2. /\ i \in checkedIdx..readIdx-1
          /\ readBuf[i] \in {CR, LF}
          /\ \A j \in checkedIdx..i-1 : readBuf[j] \notin {CR, LF}
      BY <1>1, <2>1
    <2>3. \A j \in 0..i-1 : readBuf[j] \notin {CR, LF}
      BY <1>1, <2>2
    <2>4. ~(i > 1 /\ readBuf[i - 1] = CR)
      BY <1>1, <2>2, <2>3
    <2>5. \/ R = cut /\ i + 1 < readIdx
          \/ R = stay("OPEN")
          \/ R = stay("BAD")
      BY <1>1, <1>4, <2>2, <2>4
    <2> HIDE DEF R, ends
    <2>6. CASE R = cut /\ i + 1 < readIdx
      <3>1. /\ R.status = "OK" /\ R.checked = i + 2
            /\ R.buf = [readBuf EXCEPT ![i] = NUL, ![i+1] = NUL]
        BY <2>6
      <3>2. R.buf \in [0..N-1 -> Symbols]
        BY <1>1, <1>2, <3>1
      <3>3. R.buf[i] = NUL /\ R.buf[i + 1] = NUL
        BY <1>1, <2>2, <2>6, <3>1
      <3>4. \A j \in 0..i+1 : R.buf[j] \notin {CR, LF}
        BY <1>1, <1>2, <2>2, <2>3, <3>1, <3>3
      <3>5. \A j \in i+2..readIdx-1 : R.buf[j] = readBuf[j]
        BY <1>1, <2>2, <3>1
      <3>6. i \in Nat /\ R.checked - 2 = i /\ R.checked - 1 = i + 1
        BY <1>1, <2>2, <3>1
      <3>7. R.checked \in checkedIdx..readIdx
        BY <1>1, <2>2, <2>6, <3>1
      <3> HIDE DEF cut
      <3>8. \A j \in 0..R.checked-1 : R.buf[j] \notin {CR, LF}
        BY <3>4, <3>6
      <3>9. \A j \in R.checked..readIdx-1 : R.buf[j] = readBuf[j]
        BY <3>1, <3>5
      <3>10. R.checked - 2 \in checkedIdx..readIdx-1 /\ R.buf[R.checked - 2] = NUL
        BY <2>2, <3>3, <3>6
      <3>11. R.status = "OK"
        BY <3>1
      <3> QED
        BY <1>0, <3>2, <3>7, <3>8, <3>9, <3>10, <3>11
    <2>7. ASSUME NEW s \in {"OPEN", "BAD"}, R = stay(s)
          PROVE  /\ R.status # "OK"
                 /\ R.checked = i /\ R.buf = readBuf
      BY <2>7
    <2>8. CASE R = stay("OPEN") \/ R = stay("BAD")
      <3>1. R.status # "OK" /\ R.checked = i /\ R.buf = readBuf
        BY <2>7, <2>8
      <3> QED
        BY <1>0, <1>1, <2>2, <2>3, <3>1
    <2> QED
      BY <2>5, <2>6, <2>8
  <1> QED
    BY <1>3, <1>4

\* The blanks of the text that starts at s lie before the first NUL.
LEMMA BlanksInText ==
    ASSUME NEW b, NEW s \in Nat, NEW e \in s..READ_BUF_SIZE, b[e] = NUL,
           Blanks(Text(b, s)) # {}
    PROVE  Min(Blanks(Text(b, s))) \in 1..(e - s)
  <1> DEFINE S == {i \in s..READ_BUF_SIZE : i = READ_BUF_SIZE \/ b[i] = NUL}
             m == Min(S)
             B == Blanks(Text(b, s))
  <1>1. READ_BUF_SIZE \in Nat
    BY SizesAssumption
  <1>2. S \in SUBSET Nat /\ e \in S
    BY <1>1
  <1>3. m \in S /\ m <= e
    BY <1>2, MinOfNaturals
  <1>4. Text(b, s) = [i \in 1..(m - s) |-> b[s + i - 1]]
    BY DEF Text
  <1>5. DOMAIN Text(b, s) = 1..(m - s)
    BY <1>4
  <1>6. m \in Nat
    BY <1>2, <1>3
  <1> HIDE DEF m
  <1>7. B \in SUBSET (1..(e - s))
    BY <1>1, <1>3, <1>5, <1>6 DEF Blanks
  <1>8. Min(B) \in B
    BY <1>7, MinOfNaturals, 1..(e - s) \subseteq Nat
  <1> QED
    BY <1>7, <1>8

-----------------------------------------------------------------------------
(* The inductive invariant. *)

LEMMA InitInv == Init => IInv
  <1> SUFFICES ASSUME Init PROVE IInv
    OBVIOUS
  <1> USE SizesAssumption DEF Init
  <1>1. stream \in Streams /\ Len(stream) \in Nat
    OBVIOUS
  <1>2. readBuf \in [0..READ_BUF_SIZE-1 -> Symbols]
    BY DEF Symbols
  <1>3. TypeOK
    BY <1>1, <1>2 DEF TypeOK, Phases
  <1>4. LineBounds /\ UnscannedIntact
    BY DEF LineBounds, UnscannedIntact
  <1>5. Ownership /\ HangUpHasReason
    BY DEF Ownership, HangUpHasReason
  <1> QED
    BY <1>3, <1>4, <1>5 DEF IInv

\* The sizes of the pieces of a response, added up.
LEMMA ResponseSize ==
    ASSUME writeIdx = 0
    PROVE  /\ Fits(AddHeaders(AddResponse(writeIdx, StatusLen)), FormLen)
           /\ AddResponse(AddHeaders(AddResponse(writeIdx, StatusLen)), FormLen)
                \in Nat \ {0}
  <1> USE SizesAssumption, ResponseFits DEF Fits, AddResponse
  <1>1. AddResponse(writeIdx, StatusLen) = StatusLen
    OBVIOUS
  <1>2. AddHeaders(StatusLen) = StatusLen + LengthLen + LingerLen + BlankLen
    <2>1. Fits(StatusLen, LengthLen)
      OBVIOUS
    <2>2. AddResponse(StatusLen, LengthLen) = StatusLen + LengthLen
      OBVIOUS
    <2>3. Fits(StatusLen + LengthLen, LingerLen)
      OBVIOUS
    <2>4. AddResponse(StatusLen + LengthLen, LingerLen)
            = StatusLen + LengthLen + LingerLen
      OBVIOUS
    <2>5. AddResponse(StatusLen + LengthLen + LingerLen, BlankLen)
            = StatusLen + LengthLen + LingerLen + BlankLen
      OBVIOUS
    <2> HIDE DEF Fits, AddResponse
    <2> QED
      BY <2>1, <2>2, <2>3, <2>4, <2>5 DEF AddHeaders
  <1> QED
    BY <1>1, <1>2

\* The peer's steps and the epoll events leave the read buffer alone.
LEMMA PeerStep == IInv /\ Peer => IInv'
  <1> SUFFICES ASSUME IInv, Peer PROVE IInv'
    OBVIOUS
  <1> USE DEF IInv, TypeOK, LineBounds, UnscannedIntact, Ownership,
              HangUpHasReason, Phases, outVars, lineVars, locVars, Alive
  <1>0. Len(stream) \in Nat
    BY SizesAssumption
  <1>1. CASE PeerSend
    BY <1>0, <1>1 DEF PeerSend
  <1>2. CASE PeerLeave
    BY <1>2 DEF PeerLeave
  <1>3. CASE PeerDrain
    BY <1>3 DEF PeerDrain
  <1> QED
    BY <1>1, <1>2, <1>3 DEF Peer

LEMMA EventStep == IInv /\ Event => IInv'
  <1> SUFFICES ASSUME IInv, Event PROVE IInv'
    OBVIOUS
  <1> USE DEF IInv, TypeOK, LineBounds, UnscannedIntact, Ownership,
              HangUpHasReason, Phases, peerVars, outVars, lineVars, locVars,
              CloseConn
  <1>1. CASE EpollHup
    BY <1>1 DEF EpollHup
  <1>2. CASE EpollIn
    BY <1>2, SizesAssumption DEF EpollIn
  <1>3. CASE EpollOut
    <2>1. CASE writeIdx = 0
      BY <1>3, <2>1 DEF EpollOut
    <2>2. CASE writeIdx # 0
      BY <1>3, <2>2 DEF EpollOut
    <2> QED
      BY <2>1, <2>2
  <1> QED
    BY <1>1, <1>2, <1>3 DEF Event

LEMMA ReadStep == IInv /\ Read => IInv'
  <1> SUFFICES ASSUME IInv, Read PROVE IInv'
    OBVIOUS
  <1> USE DEF IInv, TypeOK, LineBounds, UnscannedIntact, Ownership,
              HangUpHasReason, Phases, peerVars, outVars, lineVars, locVars,
              CloseConn
  <1>1. CASE RecvSome
    <2> DEFINE n == Min({Available, Space})
    <2>1. /\ Available \in Nat /\ Space \in Nat
          /\ sent \in Nat /\ stream \in Seq(Symbols)
          /\ Len(stream) \in Nat /\ sent <= Len(stream)
          /\ readIdx \in Nat /\ checkedIdx \in Nat /\ checkedIdx <= readIdx
          /\ READ_BUF_SIZE \in Nat /\ readBuf \in [0..READ_BUF_SIZE-1 -> Symbols]
      BY <1>1, SizesAssumption DEF RecvSome, Available, Space
    <2>2. n \in Nat /\ n <= Available /\ n <= Space
      BY <2>1, MinOfNaturals
    <2> HIDE DEF n
    <2>3. /\ readIdx' = readIdx + n
          /\ readBuf' = [i \in 0..READ_BUF_SIZE-1 |->
                           IF i \in readIdx..readIdx+n-1 THEN stream[i + 1]
                           ELSE readBuf[i]]
      BY <1>1 DEF RecvSome, n
    <2>4. readIdx' \in 0..READ_BUF_SIZE /\ readIdx' <= sent
      BY <2>1, <2>2, <2>3, SizesAssumption, SMTT(30) DEF Available, Space
    <2>5. readBuf' \in [0..READ_BUF_SIZE-1 -> Symbols]
      <3> SUFFICES ASSUME NEW i \in readIdx..readIdx+n-1
                   PROVE  stream[i + 1] \in Symbols
        BY <2>1, <2>3
      <3>1. i + 1 \in 1..Len(stream)
        BY <2>1, <2>2, <2>3, <2>4
      <3> QED
        BY <2>1, <3>1
    <2>10. /\ \A i \in 0..readIdx-1 : readBuf'[i] = readBuf[i]
           /\ \A i \in readIdx..readIdx'-1 : readBuf'[i] = stream[i + 1]
      <3> HIDE DEF IInv, TypeOK, LineBounds, UnscannedIntact, Ownership,
                   HangUpHasReason
      <3> QED
        BY <2>1, <2>2, <2>3, <2>4
    <2>11. checkedIdx' = checkedIdx /\ startLine' = startLine /\ sent' = sent
             /\ stream' = stream
      BY <1>1 DEF RecvSome
    <2>6. LineBounds'
      <3>1. \A i \in 0..checkedIdx-1 : readBuf'[i] \notin {CR, LF}
        BY <2>1, <2>10, SMTT(30)
      <3>2. startLine <= checkedIdx /\ checkedIdx <= readIdx'
        BY <2>1, <2>2, <2>3
      <3> QED
        BY <2>4, <2>11, <3>1, <3>2
    <2>7. UnscannedIntact'
      <3>1. \A i \in checkedIdx..readIdx-1 : readBuf'[i] = stream[i + 1]
        BY <2>1, <2>10
      <3> SUFFICES ASSUME NEW i \in checkedIdx..readIdx'-1
                   PROVE  readBuf'[i] = stream[i + 1]
        BY <2>11
      <3> HIDE DEF IInv, TypeOK, LineBounds, UnscannedIntact
      <3>2. i \in checkedIdx..readIdx-1 \/ i \in readIdx..readIdx'-1
        BY <2>1, <2>2, <2>3
      <3> QED
        BY <2>10, <3>1, <3>2
    <2>8. TypeOK'
      BY <1>1, <2>4, <2>5 DEF RecvSome
    <2>9. Ownership' /\ HangUpHasReason'
      BY <1>1 DEF RecvSome
    <2> QED
      BY <2>6, <2>7, <2>8, <2>9
  <1>2. CASE RecvAgain
    BY <1>2 DEF RecvAgain
  <1>3. CASE RecvFail
    BY <1>3, SizesAssumption DEF RecvFail, Available, Space
  <1> QED
    BY <1>1, <1>2, <1>3 DEF Read

LEMMA WriteStep == IInv /\ Write => IInv'
  <1> SUFFICES ASSUME IInv, Write PROVE IInv'
    OBVIOUS
  <1> USE DEF IInv, TypeOK, LineBounds, UnscannedIntact, Ownership,
              HangUpHasReason, Phases, peerVars, outVars, lineVars, locVars,
              CloseConn
  <1>1. ASSUME NEW n \in 1..iovLen, Writev(n) PROVE IInv'
    <2>1. n \in Nat /\ n # 0
      OBVIOUS
    <2>2. received' \in Nat \cup {Garbled} /\ received' # 0
      BY <1>1, <2>1 DEF Writev, Receive, Garbled
    <2>3. toSend' \in Int /\ haveSent' \in Nat
      BY <1>1, <2>1 DEF Writev
    <2>4. writable' \in BOOLEAN
      BY <1>1 DEF Writev
    <2>5. CASE toSend' <= haveSent'
      BY <1>1, <2>2, <2>3, <2>4, <2>5 DEF Writev
    <2>6. CASE ~(toSend' <= haveSent')
      BY <1>1, <2>2, <2>3, <2>4, <2>6 DEF Writev
    <2> QED
      BY <2>5, <2>6
  <1>2. CASE WritevAgain
    BY <1>2 DEF WritevAgain
  <1>3. CASE WritevFail
    BY <1>3 DEF WritevFail
  <1> QED
    BY <1>1, <1>2, <1>3 DEF Write

LEMMA ProcessStep == IInv /\ Process => IInv'
  <1> SUFFICES ASSUME IInv, Process PROVE IInv'
    OBVIOUS
  <1>0. /\ ParseLine.checked \in checkedIdx..readIdx
        /\ ParseLine.buf \in [0..READ_BUF_SIZE-1 -> Symbols]
        /\ \A j \in 0..ParseLine.checked-1 : ParseLine.buf[j] \notin {CR, LF}
        /\ \A j \in ParseLine.checked..readIdx-1 : ParseLine.buf[j] = readBuf[j]
        /\ ParseLine.status # "OK" => ParseLine.buf = readBuf
        /\ ParseLine.status = "OK" =>
              /\ ParseLine.checked - 2 \in checkedIdx..readIdx-1
              /\ ParseLine.buf[ParseLine.checked - 2] = NUL
    BY ParseLineFacts DEF IInv
  <1>00. /\ READ_BUF_SIZE \in Nat /\ readIdx \in 0..READ_BUF_SIZE
         /\ checkedIdx \in Nat /\ startLine \in Nat
         /\ startLine <= checkedIdx
         /\ \A j \in checkedIdx..readIdx-1 : readBuf[j] = stream[j + 1]
    BY SizesAssumption DEF IInv, TypeOK, LineBounds, UnscannedIntact
  <1> DEFINE c == ParseLine.checked
             buf == ParseLine.buf
  <1>1. CASE LineStops
    <2>1. checkedIdx' = c
      BY <1>1 DEF LineStops
    <2>2. ParseLine.status # "OK"
      BY <1>1 DEF LineStops
    <2> HIDE DEF c, buf
    <2>3. TypeOK' /\ Ownership' /\ HangUpHasReason'
      BY <1>0, <1>00, <1>1, <2>1
      DEF LineStops, IInv, TypeOK, Ownership, HangUpHasReason, Phases,
          peerVars, outVars, locVars, c
    <2>4. UNCHANGED <<peerVars, readBuf, readIdx, startLine>>
      BY <1>1 DEF LineStops
    <2>5. ParseLine.buf = readBuf
      BY <1>0, <2>2
    <2>6. LineBounds' /\ UnscannedIntact'
      BY <1>0, <1>00, <2>1, <2>4, <2>5
      DEF IInv, LineBounds, UnscannedIntact, peerVars, c
    <2> QED
      BY <2>3, <2>6 DEF IInv
  <1>2. CASE RequestLine
    <2> DEFINE text == Text(buf, startLine)
               gap == startLine + Min(Blanks(text)) - 1
               new == IF Blanks(text) = {} THEN buf ELSE [buf EXCEPT ![gap] = NUL]
    <2>1. /\ ParseLine.status = "OK"
          /\ checkedIdx' = c /\ startLine' = c
          /\ readBuf' = new
          /\ phase' \in {"crashed", "reply", "parse"}
          /\ UNCHANGED <<peerVars, armed, readIdx, outVars, locVars>>
      BY <1>2 DEF RequestLine
    <2>2. ASSUME Blanks(text) # {}
          PROVE  gap \in startLine..c-2
      <3>0. c - 2 \in checkedIdx..readIdx-1 /\ buf[c - 2] = NUL
        BY <1>0, <2>1, Zenon
      <3>1. c - 2 \in startLine..READ_BUF_SIZE /\ buf[c - 2] = NUL
        <4> HIDE DEF c, buf
        <4> QED
          BY <1>00, <3>0
      <3>2. Min(Blanks(text)) \in 1..(c - 2 - startLine)
        BY <1>00, <2>2, <3>1, BlanksInText
      <3> QED
        BY <1>0, <1>00, <3>2
    <2> HIDE DEF gap
    <2>3. NUL \in Symbols /\ NUL \notin {CR, LF}
      BY DEF Symbols, NUL, CR, LF
    <2>4. new \in [0..READ_BUF_SIZE-1 -> Symbols]
      BY <1>0, <2>3
    <2>5. \A j \in 0..c-1 : new[j] \notin {CR, LF}
      BY <1>0, <1>00, <2>2, <2>3
    <2>6. \A j \in c..readIdx-1 : new[j] = stream[j + 1]
      <3> SUFFICES ASSUME NEW j \in c..readIdx-1
                   PROVE  new[j] = stream[j + 1]
        OBVIOUS
      <3>1. j \in checkedIdx..readIdx-1 /\ buf[j] = readBuf[j]
        BY <1>0, <1>00
      <3>2. Blanks(text) # {} => gap # j
        BY <1>0, <1>00, <2>2
      <3>3. new[j] = buf[j]
        BY <1>0, <1>00, <3>1, <3>2
      <3> QED
        BY <1>00, <3>1, <3>3
    <2> HIDE DEF new, c, buf, text
    <2>7. TypeOK'
      BY <1>0, <1>00, <2>1, <2>4, SMTT(30)
      DEF IInv, TypeOK, Phases, peerVars, outVars, locVars, c
    <2>8. LineBounds' /\ UnscannedIntact'
      BY <1>0, <1>00, <2>1, <2>5, <2>6
      DEF IInv, LineBounds, UnscannedIntact, peerVars, c
    <2>9. Ownership' /\ HangUpHasReason'
      BY <1>2, <2>1
      DEF RequestLine, IInv, Ownership, HangUpHasReason, peerVars, outVars
    <2> QED
      BY <2>7, <2>8, <2>9 DEF IInv
  <1>3. CASE ReplyBad
    <2> DEFINE head == AddHeaders(AddResponse(writeIdx, StatusLen))
    <2>1. phase = "reply" /\ writeIdx = 0
      BY <1>3 DEF ReplyBad, IInv, Ownership
    <2>2. Fits(head, FormLen) /\ AddResponse(head, FormLen) \in Nat \ {0}
      BY <2>1, ResponseSize
    <2> HIDE DEF head
    <2>3. /\ writeIdx' \in Nat \ {0} /\ iovLen' \in Nat
          /\ armed' = "out" /\ phase' = "epoll"
          /\ UNCHANGED <<peerVars, lineVars, locVars>>
      BY <1>3, <2>2 DEF ReplyBad, ProcessWrite, head
    <2> QED
      BY <2>1, <2>3
      DEF IInv, TypeOK, LineBounds, UnscannedIntact, Ownership,
          HangUpHasReason, Phases, peerVars, lineVars, locVars
  <1> QED
    BY <1>1, <1>2, <1>3 DEF Process

LEMMA InvStep == IInv /\ [Next]_vars => IInv'
  <1>1. IInv /\ UNCHANGED vars => IInv'
    BY DEF IInv, TypeOK, LineBounds, UnscannedIntact, Ownership,
           HangUpHasReason, vars, peerVars, lineVars, outVars, locVars
  <1> QED
    BY <1>1, PeerStep, EventStep, ReadStep, WriteStep, ProcessStep
    DEF Next, Ended

-----------------------------------------------------------------------------
(* What is done with a line depends on the bytes alone. *)

\* Cut and NoVersion, of the reference, are what Text and ParseRequestLine do.
\* An accepted line does not exist: what the version is compared with begins
\* with a blank.
LEMMA FromIs ==
    ASSUME NEW t \in Seq(Symbols), NEW k \in 1..Len(t) + 1
    PROVE  /\ From(t, k) \in Seq(Symbols)
           /\ Len(From(t, k)) = Len(t) + 1 - k
           /\ \A j \in 1..Len(t) + 1 - k : From(t, k)[j] = t[j + k - 1]
  BY DEF From

LEMMA OneSymbol ==
    ASSUME NEW u \in Seq(Symbols), NEW w
    PROVE  u = <<w>> <=> Len(u) = 1 /\ u[1] = w
  OBVIOUS

LEMMA MethodIs ==
    ASSUME NEW t \in Seq(Symbols), NEW g \in 1..Len(t), t[g] = BL,
           \A j \in 1..g-1 : t[j] # BL
    PROVE  SubSeq(t, 1, g - 1) = <<"GET">> <=> g = 2 /\ t[1] = "GET"
  <1>1. /\ SubSeq(t, 1, g - 1) \in Seq(Symbols)
        /\ Len(SubSeq(t, 1, g - 1)) = g - 1
        /\ \A j \in 1..g-1 : SubSeq(t, 1, g - 1)[j] = t[j]
    OBVIOUS
  <1> DEFINE u == SubSeq(t, 1, g - 1)
  <1>2. u = <<"GET">> <=> Len(u) = 1 /\ u[1] = "GET"
    BY <1>1, OneSymbol
  <1>3. Len(u) = 1 /\ u[1] = "GET" <=> g = 2 /\ t[1] = "GET"
    BY <1>1 DEF u
  <1> QED
    BY <1>2, <1>3 DEF u

LEMMA Verb ==
    ASSUME NEW t \in Seq(Symbols), Blanks(t) # {}
    PROVE  LET gap  == Min(Blanks(t))
               rest == From(t, gap + 1)
               url  == IF NonBlanks(rest) = {} THEN <<>>
                       ELSE From(rest, Min(NonBlanks(rest)))
           IN /\ gap \in 1..Len(t) /\ t[gap] = BL /\ \A j \in 1..gap-1 : t[j] # BL
              /\ rest \in Seq(Symbols) /\ Len(rest) = Len(t) - gap
              /\ \A j \in 1..Len(rest) : rest[j] = t[j + gap]
              /\ url \in Seq(Symbols)
              /\ NonBlanks(rest) # {} =>
                    \E m \in 1..Len(rest) :
                        /\ rest[m] # BL /\ \A j \in 1..m-1 : rest[j] = BL
                        /\ Len(url) = Len(rest) + 1 - m
                        /\ \A j \in 1..Len(url) : url[j] = rest[j + m - 1]
  <1> DEFINE gap  == Min(Blanks(t))
             rest == From(t, gap + 1)
             m    == Min(NonBlanks(rest))
             url  == IF NonBlanks(rest) = {} THEN <<>> ELSE From(rest, m)
  <1>1. Blanks(t) \in SUBSET Nat
    BY DEF Blanks
  <1>2. gap \in Blanks(t) /\ \A j \in Blanks(t) : gap <= j
    BY <1>1, MinOfNaturals
  <1> HIDE DEF gap
  <1>3. gap \in 1..Len(t) /\ t[gap] = BL /\ \A j \in 1..gap-1 : t[j] # BL
    BY <1>2 DEF Blanks
  <1>4. /\ rest \in Seq(Symbols) /\ Len(rest) = Len(t) - gap
        /\ \A j \in 1..Len(rest) : rest[j] = t[j + gap]
    <2>1. gap + 1 \in 1..Len(t) + 1 /\ gap \in Nat /\ Len(t) \in Nat
      BY <1>3
    <2> HIDE DEF rest
    <2>2. /\ rest \in Seq(Symbols)
          /\ Len(rest) = Len(t) + 1 - (gap + 1)
          /\ \A j \in 1..Len(t) + 1 - (gap + 1) : rest[j] = t[j + (gap + 1) - 1]
      BY <2>1, FromIs DEF rest
    <2>3. Len(t) + 1 - (gap + 1) = Len(t) - gap
      BY <2>1
    <2>4. \A j \in 1..Len(t) - gap : j + (gap + 1) - 1 = j + gap
      BY <2>1
    <2> QED
      BY <2>2, <2>3, <2>4
  <1> HIDE DEF rest
  <1>5. CASE NonBlanks(rest) = {}
    <2>1. url = <<>>
      BY <1>5
    <2> QED
      BY <1>3, <1>4, <1>5, <2>1 DEF gap, rest
  <1>6. CASE NonBlanks(rest) # {}
    <2>1. NonBlanks(rest) \in SUBSET Nat
      BY <1>4 DEF NonBlanks
    <2>2. m \in NonBlanks(rest) /\ \A j \in NonBlanks(rest) : m <= j
      BY <1>6, <2>1, MinOfNaturals
    <2> HIDE DEF m
    <2>3. m \in 1..Len(rest) /\ rest[m] # BL /\ \A j \in 1..m-1 : rest[j] = BL
      BY <1>4, <2>2 DEF NonBlanks, Blanks
    <2>6. Len(rest) \in Nat /\ m \in 1..Len(rest) + 1
      BY <1>4, <2>3
    <2>7. /\ From(rest, m) \in Seq(Symbols) /\ Len(From(rest, m)) = Len(rest) + 1 - m
          /\ \A j \in 1..Len(rest) + 1 - m : From(rest, m)[j] = rest[j + m - 1]
      BY <1>4, <2>6, FromIs
    <2>4. /\ From(rest, m) \in Seq(Symbols) /\ Len(From(rest, m)) = Len(rest) + 1 - m
          /\ \A j \in 1..Len(From(rest, m)) : From(rest, m)[j] = rest[j + m - 1]
      BY <2>7, Zenon
    <2>5. url = From(rest, m)
      BY <1>6
    <2> QED
      BY <1>3, <1>4, <2>3, <2>4, <2>5 DEF gap, rest, m
  <1> QED
    BY <1>5, <1>6

\* The code crashes on a GET line without a version and finds every other bad.
LEMMA CodeIs ==
    ASSUME NEW t \in Seq(Symbols)
    PROVE  /\ ParseRequestLine(t) \in {"BAD_REQUEST", "CRASH"}
           /\ ParseRequestLine(t) = "CRASH" <=> NoVersion(t)
  <1> DEFINE gap  == Min(Blanks(t))
             rest == From(t, gap + 1)
             url  == IF NonBlanks(rest) = {} THEN <<>>
                     ELSE From(rest, Min(NonBlanks(rest)))
  <1>0. Len(t) \in Nat /\ BL # "GET" /\ BL # "HTTP/1.1"
    BY DEF BL
  <1>1. CASE Blanks(t) = {}
    <2>1. \A j \in 1..Len(t) : t[j] # BL
      BY <1>1 DEF Blanks
    <2>2. ~NoVersion(t)
      BY <1>0, <2>1 DEF NoVersion
    <2> QED
      BY <1>1, <2>2 DEF ParseRequestLine
  <1>2. CASE Blanks(t) # {}
    <2>1. /\ gap \in 1..Len(t) /\ t[gap] = BL /\ \A j \in 1..gap-1 : t[j] # BL
          /\ rest \in Seq(Symbols) /\ Len(rest) = Len(t) - gap
          /\ \A j \in 1..Len(rest) : rest[j] = t[j + gap]
          /\ url \in Seq(Symbols)
          /\ NonBlanks(rest) # {} =>
                \E m \in 1..Len(rest) :
                    /\ rest[m] # BL /\ \A j \in 1..m-1 : rest[j] = BL
                    /\ Len(url) = Len(rest) + 1 - m
                    /\ \A j \in 1..Len(url) : url[j] = rest[j + m - 1]
      BY <1>2, Verb
    <2>2. NonBlanks(rest) = {} => url = <<>>
      OBVIOUS
    <2>3. SubSeq(t, 1, gap - 1) = <<"GET">> <=> gap = 2 /\ t[1] = "GET"
      BY <2>1, MethodIs
    <2>4. Blanks(url) # {} => From(url, Min(Blanks(url))) # <<"HTTP/1.1">>
      <3> SUFFICES ASSUME Blanks(url) # {}
                   PROVE  From(url, Min(Blanks(url))) # <<"HTTP/1.1">>
        OBVIOUS
      <3> HIDE DEF url
      <3>1. Blanks(url) \in SUBSET Nat
        BY <2>1 DEF Blanks
      <3>2. Min(Blanks(url)) \in Blanks(url)
        BY <3>1, MinOfNaturals
      <3> DEFINE n == Min(Blanks(url))
      <3> HIDE DEF n
      <3>3. n \in 1..Len(url) /\ url[n] = BL /\ Len(url) \in Nat
        BY <2>1, <3>2 DEF Blanks, n
      <3>4. n \in 1..Len(url) + 1
        BY <3>3
      <3>5. /\ Len(From(url, n)) = Len(url) + 1 - n
            /\ \A j \in 1..Len(url) + 1 - n : From(url, n)[j] = url[j + n - 1]
        BY <2>1, <3>4, FromIs
      <3>6. From(url, n)[1] = BL
        BY <3>3, <3>5
      <3> QED
        BY <1>0, <3>6 DEF n
    <2> HIDE DEF gap, rest, url
    <2>5. /\ ParseRequestLine(t) \in {"BAD_REQUEST", "CRASH"}
          /\ ParseRequestLine(t) = "CRASH" <=>
                SubSeq(t, 1, gap - 1) = <<"GET">> /\ Blanks(url) = {}
      BY <1>2, <2>4 DEF ParseRequestLine, gap, rest, url
    <2>6. ASSUME gap = 2, t[1] = "GET", Blanks(url) = {} PROVE NoVersion(t)
      <3>1. CASE NonBlanks(rest) = {}
        <4>1. \A j \in 1..Len(rest) : rest[j] = BL
          BY <2>1, <3>1 DEF NonBlanks, Blanks
        <4>2. \A j \in 2..Len(t) : t[j] = BL
          <5> SUFFICES ASSUME NEW j \in 3..Len(t) PROVE t[j] = BL
            BY <1>0, <2>1, <2>6
          <5>1. j - 2 \in 1..Len(rest) /\ (j - 2) + gap = j
            BY <1>0, <2>1, <2>6
          <5> QED
            BY <2>1, <4>1, <5>1
        <4>3. Len(t) \in 2..Len(t)
          BY <1>0, <2>1, <2>6
        <4> QED
          BY <1>0, <2>6, <4>2, <4>3 DEF NoVersion
      <3>2. CASE NonBlanks(rest) # {}
        <4>1. PICK m \in 1..Len(rest) :
                    /\ rest[m] # BL /\ \A j \in 1..m-1 : rest[j] = BL
                    /\ Len(url) = Len(rest) + 1 - m
                    /\ \A j \in 1..Len(url) : url[j] = rest[j + m - 1]
          BY <2>1, <3>2
        <4>2. \A j \in 1..Len(url) : url[j] # BL
          BY <2>1, <2>6 DEF Blanks
        <4>3. \A j \in m..Len(rest) : rest[j] # BL
          <5> SUFFICES ASSUME NEW j \in m..Len(rest) PROVE rest[j] # BL
            OBVIOUS
          <5>1. j - m + 1 \in 1..Len(url) /\ (j - m + 1) + m - 1 = j
            BY <1>0, <2>1, <4>1
          <5> QED
            BY <4>1, <4>2, <5>1
        <4>4. \A j \in 2..m+1 : t[j] = BL
          <5> SUFFICES ASSUME NEW j \in 3..m+1 PROVE t[j] = BL
            BY <1>0, <2>1, <2>6, <4>1
          <5>1. j - 2 \in 1..m-1 /\ j - 2 \in 1..Len(rest) /\ (j - 2) + gap = j
            BY <1>0, <2>1, <2>6, <4>1
          <5> QED
            BY <2>1, <4>1, <5>1
        <4>5. \A j \in m+1+1..Len(t) : t[j] # BL
          <5> SUFFICES ASSUME NEW j \in m+1+1..Len(t) PROVE t[j] # BL
            OBVIOUS
          <5>1. j - 2 \in m..Len(rest) /\ j - 2 \in 1..Len(rest) /\ (j - 2) + gap = j
            BY <1>0, <2>1, <2>6, <4>1
          <5> QED
            BY <2>1, <4>3, <5>1
        <4>6. m + 1 \in 2..Len(t)
          BY <1>0, <2>1, <2>6, <4>1
        <4> QED
          BY <2>6, <4>4, <4>5, <4>6 DEF NoVersion
      <3> QED
        BY <3>1, <3>2
    <2>7. ASSUME NoVersion(t) PROVE gap = 2 /\ t[1] = "GET" /\ Blanks(url) = {}
      <3>1. PICK k \in 2..Len(t) : /\ t[1] = "GET"
                                   /\ \A i \in 2..k : t[i] = BL
                                   /\ \A i \in k+1..Len(t) : t[i] # BL
        BY <2>7 DEF NoVersion
      <3>2. gap = 2
        <4>1. 2 \in 2..k /\ 2 \in 1..Len(t)
          BY <1>0, <3>1
        <4>2. t[2] = BL
          BY <3>1, <4>1
        <4>3. gap # 1
          BY <1>0, <2>1, <3>1
        <4>4. ~(gap > 2)
          <5> SUFFICES ASSUME gap > 2 PROVE FALSE
            OBVIOUS
          <5>1. 2 \in 1..gap-1
            BY <2>1
          <5> QED
            BY <2>1, <4>2, <5>1
        <4> QED
          BY <1>0, <2>1, <4>3, <4>4
      <3>3. CASE NonBlanks(rest) = {}
        <4>1. url = <<>>
          BY <2>2, <3>3
        <4> QED
          BY <3>1, <3>2, <4>1 DEF Blanks
      <3>4. CASE NonBlanks(rest) # {}
        <4>1. PICK m \in 1..Len(rest) :
                    /\ rest[m] # BL /\ \A j \in 1..m-1 : rest[j] = BL
                    /\ Len(url) = Len(rest) + 1 - m
                    /\ \A j \in 1..Len(url) : url[j] = rest[j + m - 1]
          BY <2>1, <3>4
        <4>2. m + 2 \in 2..Len(t) /\ t[m + 2] # BL
          BY <1>0, <2>1, <3>2, <4>1
        <4>3. m + 2 > k
          BY <3>1, <4>1, <4>2
        <4>4. \A j \in 1..Len(url) : url[j] # BL
          <5> SUFFICES ASSUME NEW j \in 1..Len(url) PROVE url[j] # BL
            OBVIOUS
          <5>1. j + m - 1 \in 1..Len(rest) /\ (j + m - 1) + gap \in k+1..Len(t)
            BY <1>0, <2>1, <3>1, <3>2, <4>1, <4>3
          <5> QED
            BY <2>1, <3>1, <4>1, <5>1
        <4> QED
          BY <2>1, <3>1, <3>2, <4>4 DEF Blanks
      <3> QED
        BY <3>3, <3>4
    <2> QED
      BY <2>3, <2>5, <2>6, <2>7
  <1> QED
    BY <1>1, <1>2

\* The C string in the buffer is the line up to its first NUL.
LEMMA TextIs ==
    ASSUME NEW b \in [0..READ_BUF_SIZE-1 -> Symbols],
           NEW i \in 0..READ_BUF_SIZE-1, b[i] = NUL,
           NEW line \in Seq(Symbols), Len(line) = i,
           \A j \in 1..i : line[j] = b[j - 1]
    PROVE  Text(b, 0) \in Seq(Symbols) /\ Text(b, 0) = Cut(line)
  <1> DEFINE S == {j \in 0..READ_BUF_SIZE : j = READ_BUF_SIZE \/ b[j] = NUL}
             end == Min(S)
             nuls == {j \in 1..Len(line) : line[j] = NUL}
             m == Min(nuls)
  <1>0. READ_BUF_SIZE \in Nat
    BY SizesAssumption
  <1>1. S \in SUBSET Nat /\ i \in S
    BY <1>0
  <1>2. end \in S /\ \A x \in S : end <= x
    BY <1>1, MinOfNaturals
  <1>3. Text(b, 0) = [j \in 1..(end - 0) |-> b[0 + j - 1]]
    BY DEF Text
  <1> HIDE DEF end
  <1>4. end \in 0..i /\ b[end] = NUL /\ \A j \in 0..end-1 : b[j] # NUL
    BY <1>0, <1>1, <1>2
  <1>5. /\ Text(b, 0) \in Seq(Symbols) /\ Len(Text(b, 0)) = end
        /\ \A j \in 1..end : Text(b, 0)[j] = line[j]
    <2>1. Text(b, 0) = [j \in 1..end |-> b[j - 1]]
      BY <1>3, <1>4
    <2>2. \A j \in 1..end : j - 1 \in 0..READ_BUF_SIZE-1 /\ j \in 1..i
      BY <1>0, <1>4
    <2>3. [j \in 1..end |-> b[j - 1]] \in [1..end -> Symbols]
      BY <2>2
    <2> QED
      BY <1>4, <2>1, <2>2, <2>3
  <1>6. CASE nuls = {}
    <2>1. end = i
      <3> SUFFICES ASSUME end # i PROVE FALSE
        OBVIOUS
      <3>1. end + 1 \in 1..i /\ line[end + 1] = b[(end + 1) - 1]
        BY <1>4
      <3>2. line[end + 1] = NUL
        BY <1>4, <3>1
      <3> QED
        BY <1>6, <3>1, <3>2
    <2>2. Text(b, 0) = line
      BY <1>5, <2>1
    <2> QED
      BY <1>5, <1>6, <2>2 DEF Cut
  <1>7. CASE nuls # {}
    <2>1. nuls \in SUBSET Nat
      OBVIOUS
    <2>2. m \in nuls /\ \A j \in nuls : m <= j
      BY <1>7, <2>1, MinOfNaturals
    <2>3. Cut(line) = SubSeq(line, 1, m - 1)
      BY <1>7 DEF Cut
    <2> HIDE DEF m
    <2>4. m \in 1..i /\ b[m - 1] = NUL /\ \A j \in 1..m-1 : line[j] # NUL
      BY <2>2
    <2>5. end <= m - 1
      BY <1>4, <2>4
    <2>6. ~(end < m - 1)
      <3> SUFFICES ASSUME end < m - 1 PROVE FALSE
        OBVIOUS
      <3>1. /\ end + 1 \in 1..m-1 /\ end + 1 \in 1..i
            /\ line[end + 1] = b[(end + 1) - 1]
        BY <1>4, <2>4
      <3> QED
        BY <1>4, <2>4, <3>1
    <2>7. end = m - 1
      BY <1>4, <2>4, <2>5, <2>6
    <2>8. /\ SubSeq(line, 1, m - 1) \in Seq(Symbols)
          /\ Len(SubSeq(line, 1, m - 1)) = m - 1
          /\ \A j \in 1..m-1 : SubSeq(line, 1, m - 1)[j] = line[j]
      BY <2>4
    <2> QED
      BY <1>5, <2>3, <2>7, <2>8
  <1> QED
    BY <1>6, <1>7

\* While no line was taken from the buffer, ParseLine and the reference cut
\* the bytes at the same place, and agree on what is there.
LEMMA LineIs ==
    ASSUME TypeOK, LineBounds, startLine = 0,
           \A j \in 0..readIdx-1 : readBuf[j] = stream[j + 1]
    PROVE  /\ ParseLine.status # "OK" => Verdict(Consumed) \in {"open", "spoilt"}
           /\ ParseLine.status = "OK" =>
                 LET code == ParseRequestLine(Text(ParseLine.buf, startLine))
                 IN \/ code = "CRASH" /\ Verdict(Consumed) = "crash"
                    \/ code = "BAD_REQUEST" /\ Verdict(Consumed) = "400"
  <1> DEFINE ends == {i \in checkedIdx..readIdx-1 : readBuf[i] \in {CR, LF}}
             i == Min(ends)
             N == READ_BUF_SIZE
             cut == [status  |-> "OK", checked |-> i + 2,
                     buf |-> [readBuf EXCEPT ![i] = NUL, ![i + 1] = NUL]]
             stay(s) == [status |-> s, checked |-> i, buf |-> readBuf]
             R == IF ends = {} THEN [status |-> "OPEN", checked |-> readIdx,
                                     buf |-> readBuf]
                  ELSE IF readBuf[i] = CR
                       THEN IF i + 1 = readIdx THEN stay("OPEN")
                            ELSE IF readBuf[i + 1] = LF THEN cut
                            ELSE stay("BAD")
                       ELSE IF i > 1 /\ readBuf[i - 1] = CR THEN cut
                            ELSE stay("BAD")
             s == Consumed
             E == {j \in 1..Len(s) : s[j] \in {CR, LF}}
             e == Min(E)
             line == SubSeq(s, 1, e - 1)
             V == IF E = {} THEN "open"
                  ELSE IF s[e] = CR /\ e = Len(s) THEN "open"
                  ELSE IF s[e] = LF \/ s[e + 1] # LF THEN "spoilt"
                  ELSE IF NoVersion(Cut(line)) THEN "crash"
                  ELSE "400"
  <1>0. ParseLine = R /\ Verdict(Consumed) = V
    BY DEF ParseLine, Verdict
  <1>1. /\ readIdx \in Nat /\ checkedIdx \in Nat /\ N \in Nat \ {0}
        /\ checkedIdx <= readIdx /\ readIdx <= N
        /\ readBuf \in [0..N-1 -> Symbols]
        /\ \A j \in 0..checkedIdx-1 : readBuf[j] \notin {CR, LF}
    BY SizesAssumption DEF TypeOK, LineBounds
  <1>2. NUL \in Symbols /\ CR # LF
    BY DEF Symbols, NUL, CR, LF
  <1>3. s \in Seq(Symbols) /\ Len(s) = readIdx
        /\ \A j \in 1..readIdx : s[j] = readBuf[j - 1]
    <2>1. stream \in Seq(Symbols) /\ Len(stream) \in Nat /\ readIdx <= Len(stream)
      BY <1>1, SizesAssumption DEF TypeOK, LineBounds
    <2>2. /\ s \in Seq(Symbols) /\ Len(s) = readIdx
          /\ \A j \in 1..readIdx : s[j] = stream[j]
      BY <1>1, <2>1 DEF Consumed
    <2>3. \A j \in 1..readIdx : stream[j] = readBuf[j - 1]
      <3> SUFFICES ASSUME NEW j \in 1..readIdx PROVE stream[j] = readBuf[j - 1]
        OBVIOUS
      <3>1. j - 1 \in 0..readIdx-1 /\ (j - 1) + 1 = j
        BY <1>1
      <3> QED
        BY <3>1
    <2> QED
      BY <2>2, <2>3
  <1> HIDE DEF s, i, e
  <1>4. CASE ends = {}
    <2>1. R.status = "OPEN"
      BY <1>4
    <2>2. \A j \in 1..readIdx : readBuf[j - 1] \notin {CR, LF}
      <3> SUFFICES ASSUME NEW j \in 1..readIdx PROVE readBuf[j - 1] \notin {CR, LF}
        OBVIOUS
      <3>1. j - 1 \in 0..checkedIdx-1 \/ j - 1 \in checkedIdx..readIdx-1
        BY <1>1
      <3> QED
        BY <1>1, <1>4, <3>1
    <2>3. E = {}
      BY <1>3, <2>2
    <2>4. V = "open"
      BY <2>3
    <2> QED
      BY <1>0, <2>1, <2>4
  <1>5. CASE ends # {}
    <2>0. ends \in SUBSET Nat
      BY <1>1
    <2>1. i \in ends /\ \A x \in ends : i <= x
      <3> HIDE DEF ends
      <3> QED
        BY <2>0, <1>5, MinOfNaturals DEF i
    <2>2. /\ i \in checkedIdx..readIdx-1
          /\ readBuf[i] \in {CR, LF}
          /\ \A j \in checkedIdx..i-1 : readBuf[j] \notin {CR, LF}
      BY <1>1, <2>1
    <2>3. \A j \in 0..i-1 : readBuf[j] \notin {CR, LF}
      BY <1>1, <2>2
    <2>4. ~(i > 1 /\ readBuf[i - 1] = CR)
      BY <1>1, <2>2, <2>3
    <2>5. E # {} /\ e = i + 1
      <3>1. i + 1 \in E
        BY <1>1, <1>3, <2>2
      <3>2. E \in SUBSET Nat
        BY <1>1, <1>3
      <3>3. e \in E /\ \A x \in E : e <= x
        <4> HIDE DEF E
        <4> QED
          BY <3>1, <3>2, MinOfNaturals DEF e
      <3>4. e \in 1..readIdx /\ readBuf[e - 1] \in {CR, LF} /\ e <= i + 1
        BY <1>3, <3>1, <3>3
      <3>5. ~(e < i + 1)
        <4> SUFFICES ASSUME e < i + 1 PROVE FALSE
          OBVIOUS
        <4>1. e - 1 \in 0..i-1
          BY <1>1, <2>2, <3>4
        <4> QED
          BY <2>3, <3>4, <4>1
      <3> QED
        BY <1>1, <2>2, <3>1, <3>4, <3>5
    <2>6. i \in Nat /\ s[e] = readBuf[i] /\ (i + 1 # readIdx => s[e + 1] = readBuf[i + 1])
      BY <1>1, <1>3, <2>2, <2>5
    <2>7. CASE readBuf[i] = CR /\ i + 1 # readIdx /\ readBuf[i + 1] = LF
      <3>1. R = cut
        BY <1>5, <2>7
      <3>2. R.status = "OK" /\ R.buf = [readBuf EXCEPT ![i] = NUL, ![i + 1] = NUL]
        BY <3>1
      <3>3. V = IF NoVersion(Cut(line)) THEN "crash" ELSE "400"
        <4>1. s[e] = CR /\ e # Len(s) /\ s[e] # LF /\ s[e + 1] = LF
          BY <1>1, <1>2, <1>3, <2>5, <2>6, <2>7
        <4> HIDE DEF E, line
        <4> QED
          BY <2>5, <4>1
      <3>4. line \in Seq(Symbols) /\ Len(line) = i /\ \A j \in 1..i : line[j] = s[j]
        BY <1>1, <1>3, <2>2, <2>5, <2>6
      <3> DEFINE b == [readBuf EXCEPT ![i] = NUL, ![i + 1] = NUL]
      <3>5. b \in [0..N-1 -> Symbols] /\ b[i] = NUL
            /\ \A j \in 0..i-1 : b[j] = readBuf[j]
        BY <1>1, <1>2, <2>2, <2>7
      <3>6. i \in 0..N-1
        BY <1>1, <2>2
      <3> HIDE DEF line, b
      <3>7. \A j \in 1..i : line[j] = b[j - 1]
        <4> SUFFICES ASSUME NEW j \in 1..i PROVE line[j] = b[j - 1]
          OBVIOUS
        <4>1. j \in 1..readIdx /\ j - 1 \in 0..i-1
          BY <1>1, <2>2, <2>6
        <4> QED
          BY <1>3, <3>4, <3>5, <4>1
      <3>8. Text(b, 0) \in Seq(Symbols) /\ Text(b, 0) = Cut(line)
        BY <3>4, <3>5, <3>6, <3>7, TextIs
      <3>9. /\ ParseRequestLine(Text(b, 0)) \in {"BAD_REQUEST", "CRASH"}
            /\ ParseRequestLine(Text(b, 0)) = "CRASH" <=> NoVersion(Cut(line))
        BY <3>8, CodeIs
      <3>10. ParseLine.buf = b
        BY <1>0, <3>2 DEF b
      <3> HIDE DEF V, R
      <3> QED
        BY <1>0, <3>2, <3>3, <3>9, <3>10
    <2>8. CASE ~(readBuf[i] = CR /\ i + 1 # readIdx /\ readBuf[i + 1] = LF)
      <3>1. \/ R = stay("OPEN") /\ readBuf[i] = CR /\ i + 1 = readIdx
            \/ R = stay("BAD") /\ i + 1 # readIdx /\ readBuf[i + 1] # LF
            \/ R = stay("BAD") /\ readBuf[i] = LF
        BY <1>5, <2>2, <2>4, <2>8
      <3>2. R.status # "OK"
        <4> HIDE DEF R
        <4> QED
          BY <3>1
      <3>3. V \in {"open", "spoilt"}
        <4> HIDE DEF E, line
        <4> QED
          BY <1>3, <2>2, <2>5, <2>6, <2>8
      <3> HIDE DEF R, V
      <3> QED
        BY <1>0, <3>2, <3>3
    <2> QED
      BY <2>7, <2>8
  <1> QED
    BY <1>4, <1>5

\* While no line was taken from the buffer, it holds the bytes that came.
Untouched == startLine = 0 /\ \A j \in 0..readIdx-1 : readBuf[j] = stream[j + 1]
Unparsed == armed = "in" \/ phase \in {"read", "parse"} => Untouched

SInv == IInv /\ Unparsed /\ SegmentationIndependence

\* Nothing was read yet.
LEMMA StartsOpen == Init => Verdict(Consumed) = "open"
  <1> SUFFICES ASSUME Init PROVE Verdict(Consumed) = "open"
    OBVIOUS
  <1>1. stream \in Seq(Symbols) /\ readIdx = 0
    BY SizesAssumption DEF Init
  <1>2. Len(Consumed) = 0
    BY <1>1 DEF Consumed
  <1> QED
    BY <1>2 DEF Verdict

LEMMA SegmentationInit == Init => SInv
  <1> SUFFICES ASSUME Init PROVE SInv
    OBVIOUS
  <1>1. IInv
    BY InitInv
  <1>2. Unparsed
    BY DEF Init, Unparsed, Untouched
  <1>3. Verdict(Consumed) = "open"
    BY StartsOpen
  <1>4. SegmentationIndependence
    BY <1>3 DEF Init, SegmentationIndependence
  <1> QED
    BY <1>1, <1>2, <1>4 DEF SInv

\* The verdict changes only when bytes are read.
LEMMA SameVerdict ==
    ASSUME UNCHANGED <<stream, readIdx>>
    PROVE  Verdict(Consumed)' = Verdict(Consumed)
  BY DEF Verdict, Consumed

LEMMA SegmentationStep == SInv /\ [Next]_vars => SInv'
  <1> SUFFICES ASSUME SInv, [Next]_vars PROVE SInv'
    OBVIOUS
  <1>0. IInv' /\ Ownership /\ TypeOK /\ LineBounds
    BY InvStep DEF SInv, IInv
  <1> SUFFICES Unparsed' /\ SegmentationIndependence'
    BY <1>0 DEF SInv
  \* Steps that read nothing and do not touch the buffer.
  <1>1. ASSUME UNCHANGED <<stream, readIdx, readBuf, startLine>>,
               armed' = "in" \/ phase' \in {"read", "parse"} =>
                  armed = "in" \/ phase \in {"read", "parse"}
        PROVE  Unparsed'
    BY <1>1 DEF SInv, Unparsed, Untouched
  <1>2. ASSUME UNCHANGED <<stream, readIdx>>,
               armed' = "in" => armed = "in",
               phase' \in {"reply", "write"} \/ armed' = "out" =>
                  phase \in {"reply", "write"} \/ armed = "out",
               phase' = "crashed" => phase = "crashed"
        PROVE  SegmentationIndependence'
    BY <1>2, SameVerdict DEF SInv, SegmentationIndependence
  <1>3. CASE UNCHANGED vars
    BY <1>1, <1>2, <1>3 DEF vars, peerVars, lineVars, outVars, locVars
  <1>4. CASE Peer
    <2> USE DEF peerVars, lineVars, outVars, locVars
    <2>1. UNCHANGED <<stream, lineVars, armed, phase>>
      BY <1>4 DEF Peer, PeerSend, PeerLeave, PeerDrain
    <2> QED
      BY <1>1, <1>2, <2>1
  <1>5. CASE Event
    <2> USE DEF peerVars, lineVars, outVars, locVars, CloseConn
    <2>1. CASE EpollHup
      BY <1>1, <1>2, <2>1 DEF EpollHup
    <2>2. CASE EpollIn
      BY <1>1, <1>2, <2>2 DEF EpollIn
    <2>3. CASE EpollOut
      <3>1. writeIdx # 0
        BY <1>0, <2>3 DEF EpollOut, Ownership
      <3>2. /\ UNCHANGED <<stream, lineVars>> /\ armed = "out"
            /\ armed' = "none" /\ phase' = "write"
        BY <2>3, <3>1 DEF EpollOut
      <3> QED
        BY <1>1, <1>2, <3>2
    <2> QED
      BY <1>5, <2>1, <2>2, <2>3 DEF Event
  <1>6. CASE Read
    <2>1. CASE RecvSome
      <3>1. /\ phase = "read" /\ phase' = "read" /\ armed' = armed
            /\ stream' = stream /\ startLine' = startLine
        BY <2>1 DEF RecvSome, peerVars
      <3>2. armed' = "none"
        BY <1>0, <3>1 DEF Ownership, TypeOK
      <3>3. SegmentationIndependence'
        BY <3>1, <3>2 DEF SegmentationIndependence
      <3>4. Untouched
        BY <3>1 DEF SInv, Unparsed
      <3> DEFINE n == Min({Available, Space})
      <3>5. Available \in Nat /\ Space \in Nat /\ readIdx \in Nat
              /\ READ_BUF_SIZE \in Nat
        BY <1>0, SizesAssumption DEF TypeOK, LineBounds, Available, Space
      <3>6. n \in Nat /\ n <= Space
        BY <3>5, MinOfNaturals
      <3> HIDE DEF n
      <3>7. /\ readIdx' = readIdx + n
            /\ readBuf' = [i \in 0..READ_BUF_SIZE-1 |->
                             IF i \in readIdx..readIdx+n-1 THEN stream[i + 1]
                             ELSE readBuf[i]]
        BY <2>1 DEF RecvSome, n
      <3>8. \A j \in 0..readIdx'-1 : readBuf'[j] = stream[j + 1]
        <4> SUFFICES ASSUME NEW j \in 0..readIdx'-1
                     PROVE  readBuf'[j] = stream[j + 1]
          OBVIOUS
        <4>1. j \in 0..READ_BUF_SIZE-1
          BY <3>5, <3>6, <3>7 DEF Space
        <4>2. j \in readIdx..readIdx+n-1 \/ j \in 0..readIdx-1
          BY <3>5, <3>6, <3>7
        <4>3. readBuf'[j] = IF j \in readIdx..readIdx+n-1 THEN stream[j + 1]
                            ELSE readBuf[j]
          BY <3>7, <4>1
        <4> QED
          BY <3>4, <4>2, <4>3 DEF Untouched
      <3>9. Unparsed'
        BY <3>1, <3>4, <3>8 DEF Unparsed, Untouched
      <3> QED
        BY <3>3, <3>9
    <2>2. CASE RecvAgain
      BY <1>1, <1>2, <2>2
      DEF RecvAgain, peerVars, lineVars, outVars, locVars
    <2>3. CASE RecvFail
      BY <1>1, <1>2, <2>3
      DEF RecvFail, CloseConn, peerVars, lineVars, outVars, locVars
    <2> QED
      BY <1>6, <2>1, <2>2, <2>3 DEF Read
  <1>7. CASE Write
    <2> USE DEF peerVars, lineVars, outVars, locVars, CloseConn
    <2>1. ASSUME NEW n \in 1..iovLen, Writev(n)
          PROVE  Unparsed' /\ SegmentationIndependence'
      <3>1. /\ phase = "write" /\ UNCHANGED <<stream, lineVars>>
            /\ \/ phase' = "closed" /\ armed' = "none"
               \/ UNCHANGED <<armed, phase>>
        BY <2>1 DEF Writev
      <3> QED
        BY <1>1, <1>2, <3>1
    <2>2. CASE WritevAgain
      BY <1>1, <1>2, <2>2 DEF WritevAgain
    <2>3. CASE WritevFail
      BY <1>1, <1>2, <2>3 DEF WritevFail
    <2> QED
      BY <1>7, <2>1, <2>2, <2>3 DEF Write
  <1>8. CASE Process
    <2>1. ASSUME phase = "parse"
          PROVE  /\ startLine = 0 /\ armed = "none"
                 /\ ParseLine.status # "OK" =>
                       Verdict(Consumed) \in {"open", "spoilt"}
                 /\ ParseLine.status = "OK" =>
                       LET code == ParseRequestLine(Text(ParseLine.buf, startLine))
                       IN \/ code = "CRASH" /\ Verdict(Consumed) = "crash"
                          \/ code = "BAD_REQUEST" /\ Verdict(Consumed) = "400"
      <3>1. Untouched
        BY <2>1 DEF SInv, Unparsed
      <3>2. armed = "none"
        BY <1>0, <2>1 DEF Ownership, TypeOK
      <3> QED
        BY <1>0, <3>1, <3>2, LineIs DEF Untouched
    <2>2. CASE LineStops
      <3>1. /\ phase = "parse" /\ ParseLine.status # "OK"
            /\ armed' = "in" /\ phase' = "epoll"
            /\ UNCHANGED <<stream, readBuf, readIdx, startLine>>
        BY <2>2 DEF LineStops, peerVars
      <3>2. Verdict(Consumed)' = Verdict(Consumed)
        BY <3>1, SameVerdict
      <3>3. SegmentationIndependence'
        BY <2>1, <3>1, <3>2 DEF SegmentationIndependence
      <3> QED
        BY <1>1, <3>1, <3>3
    <2>3. CASE RequestLine
      <3> DEFINE code == ParseRequestLine(Text(ParseLine.buf, startLine))
      <3>1. /\ phase = "parse" /\ ParseLine.status = "OK"
            /\ phase' = CASE code = "CRASH" -> "crashed"
                          [] code = "BAD_REQUEST" -> "reply"
                          [] OTHER -> "parse"
            /\ UNCHANGED <<stream, readIdx, armed>>
        BY <2>3 DEF RequestLine, peerVars
      <3> HIDE DEF code
      <3>2. /\ armed' = "none"
            /\ \/ phase' = "crashed" /\ Verdict(Consumed) = "crash"
               \/ phase' = "reply" /\ Verdict(Consumed) = "400"
        BY <2>1, <3>1 DEF code
      <3>3. Verdict(Consumed)' = Verdict(Consumed)
        BY <3>1, SameVerdict
      <3> QED
        BY <3>2, <3>3 DEF Unparsed, SegmentationIndependence
    <2>4. CASE ReplyBad
      <3>1. /\ phase = "reply" /\ UNCHANGED <<peerVars, lineVars>>
            /\ phase' \in {"epoll", "closed"} /\ armed' \in {"out", "none"}
        BY <2>4 DEF ReplyBad, ProcessWrite, CloseConn
      <3> QED
        BY <1>1, <1>2, <3>1 DEF peerVars, lineVars
    <2> QED
      BY <1>8, <2>2, <2>3, <2>4 DEF Process
  <1> QED
    BY <1>3, <1>4, <1>5, <1>6, <1>7, <1>8 DEF Next, Ended

-----------------------------------------------------------------------------
(* The connection that the event loop counts on. *)

\* Bytes that follow do not change a verdict.
LEMMA VerdictIsFinal ==
    ASSUME NEW s \in Seq(Symbols), NEW t \in Seq(Symbols), Len(s) <= Len(t),
           \A j \in 1..Len(s) : t[j] = s[j], Verdict(s) # "open"
    PROVE  Verdict(t) = Verdict(s)
  <1> DEFINE E(u) == {j \in 1..Len(u) : u[j] \in {CR, LF}}
             e == Min(E(s))
             f == Min(E(t))
             line(u, m) == SubSeq(u, 1, m - 1)
             V(u, m) == IF E(u) = {} THEN "open"
                        ELSE IF u[m] = CR /\ m = Len(u) THEN "open"
                        ELSE IF u[m] = LF \/ u[m + 1] # LF THEN "spoilt"
                        ELSE IF NoVersion(Cut(line(u, m))) THEN "crash"
                        ELSE "400"
  <1>0. Len(s) \in Nat /\ Len(t) \in Nat /\ E(s) \in SUBSET Nat /\ E(t) \in SUBSET Nat
    OBVIOUS
  <1>1. Verdict(s) = V(s, e) /\ Verdict(t) = V(t, f)
    BY DEF Verdict
  <1>2. E(s) # {}
    <2> HIDE DEF E
    <2> QED
      BY <1>1
  <1>3. e \in E(s) /\ \A x \in E(s) : e <= x
    <2> HIDE DEF E
    <2> QED
      BY <1>0, <1>2, MinOfNaturals
  <1> HIDE DEF e
  <1>4. e \in 1..Len(s) /\ e \in E(t)
    BY <1>0, <1>3
  <1>5. f \in E(t) /\ \A x \in E(t) : f <= x
    <2> HIDE DEF E
    <2> QED
      BY <1>0, <1>4, MinOfNaturals
  <1> HIDE DEF f
  <1>6. f \in E(s)
    <2>1. f <= e /\ f \in 1..Len(t)
      BY <1>4, <1>5
    <2>2. f \in 1..Len(s)
      BY <1>0, <1>4, <2>1
    <2> QED
      BY <1>5, <2>2
  <1>7. f = e
    <2>1. e <= f /\ f <= e /\ e \in Int /\ f \in Int
      BY <1>0, <1>3, <1>4, <1>5, <1>6
    <2> QED
      BY <2>1
  <1>8. t[e] = s[e] /\ (e # Len(s) => t[e + 1] = s[e + 1] /\ e # Len(t))
    BY <1>0, <1>4
  <1>9. line(t, e) = line(s, e)
    <2>1. /\ line(s, e) \in Seq(Symbols) /\ line(t, e) \in Seq(Symbols)
          /\ Len(line(s, e)) = e - 1 /\ Len(line(t, e)) = e - 1
          /\ \A j \in 1..e-1 : line(s, e)[j] = s[j] /\ line(t, e)[j] = t[j]
      BY <1>0, <1>4
    <2>2. \A j \in 1..e-1 : t[j] = s[j]
      BY <1>0, <1>4
    <2> HIDE DEF line
    <2> QED
      BY <2>1, <2>2
  <1> HIDE DEF E, line
  <1>10. ~(s[e] = CR /\ e = Len(s))
    BY <1>1, <1>2
  <1>11. CASE s[e] = LF
    <2>1. LF # CR
      BY DEF LF, CR
    <2>2. V(s, e) = "spoilt"
      BY <1>2, <1>11, <2>1
    <2>3. V(t, f) = "spoilt"
      BY <1>4, <1>7, <1>8, <1>11, <2>1
    <2> QED
      BY <1>1, <2>2, <2>3
  <1>12. CASE s[e] # LF
    <2>1. s[e] = CR
      BY <1>3, <1>12 DEF E
    <2>2. e # Len(s) /\ e # Len(t) /\ t[e + 1] = s[e + 1]
      BY <1>8, <1>10, <2>1
    <2>3. V(s, e) = V(t, f)
      BY <1>2, <1>4, <1>7, <1>8, <1>9, <1>12, <2>2
    <2> QED
      BY <1>1, <2>3
  <1> QED
    BY <1>11, <1>12

\* Reading adds bytes: a line that was complete stays the same line.
LEMMA ReadingAdds ==
    ASSUME IInv, IInv', stream' = stream, readIdx <= readIdx',
           Verdict(Consumed) # "open"
    PROVE  Verdict(Consumed)' = Verdict(Consumed)
  <1> DEFINE m == readIdx'
  <1>0. TypeOK /\ TypeOK' /\ LineBounds' /\ READ_BUF_SIZE \in Nat
    BY SizesAssumption DEF IInv
  <1>1. /\ stream \in Seq(Symbols) /\ Len(stream) \in Nat
        /\ readIdx \in Nat /\ m \in Nat /\ readIdx <= m /\ m <= Len(stream)
    <2>1. stream \in Seq(Symbols)
      BY <1>0, SizesAssumption DEF TypeOK
    <2>2. Len(stream) \in Nat
      BY <2>1
    <2>3. readIdx \in Nat /\ m \in Nat
      BY <1>0 DEF TypeOK
    <2>4. sent' \in 0..Len(stream) /\ m <= sent'
      BY <1>0 DEF TypeOK, LineBounds
    <2> QED
      BY <2>1, <2>2, <2>3, <2>4
  <1> HIDE DEF m
  <1>2. /\ SubSeq(stream, 1, readIdx) \in Seq(Symbols)
        /\ Len(SubSeq(stream, 1, readIdx)) = readIdx
        /\ \A j \in 1..readIdx : SubSeq(stream, 1, readIdx)[j] = stream[j]
    BY <1>1
  <1>3. /\ SubSeq(stream, 1, m) \in Seq(Symbols)
        /\ Len(SubSeq(stream, 1, m)) = m
        /\ \A j \in 1..m : SubSeq(stream, 1, m)[j] = stream[j]
    BY <1>1
  <1>4. \A j \in 1..readIdx : j \in 1..m
    BY <1>1
  <1>5. Verdict(SubSeq(stream, 1, m)) = Verdict(SubSeq(stream, 1, readIdx))
    BY <1>1, <1>2, <1>3, <1>4, VerdictIsFinal DEF Consumed
  <1>6. Verdict(Consumed)' = Verdict(SubSeq(stream, 1, m))
    BY DEF Verdict, Consumed, m
  <1> QED
    BY <1>5, <1>6 DEF Consumed

\* What the object shows of itself, before and after a step.
LEMMA PlaceIs ==
    ASSUME Ownership
    PROVE  /\ phase = "closed" => Place = "closed" /\ Line = "part"
           /\ phase = "epoll" => Place = armed
           /\ phase = "read" => Place = "reading"
           /\ phase = "write" => Place = "writing"
           /\ phase \in {"parse", "reply", "crashed"} => Place = "work"
           /\ phase # "closed" =>
                 Line = CASE Verdict(Consumed) = "400" -> "line"
                          [] Verdict(Consumed) = "crash" -> "noversion"
                          [] OTHER -> "part"
  BY DEF Place, Line, Ownership

LEMMA PlaceWillBe ==
    ASSUME Ownership'
    PROVE  /\ phase' = "closed" => Place' = "closed" /\ Line' = "part"
           /\ phase' = "epoll" => Place' = armed'
           /\ phase' = "read" => Place' = "reading"
           /\ phase' = "write" => Place' = "writing"
           /\ phase' \in {"parse", "reply", "crashed"} => Place' = "work"
           /\ phase' # "closed" =>
                 Line' = CASE Verdict(Consumed)' = "400" -> "line"
                           [] Verdict(Consumed)' = "crash" -> "noversion"
                           [] OTHER -> "part"
  BY DEF Place, Line, Ownership

\* A step that reads nothing and does not close leaves the line as it is.
LEMMA LineStays ==
    ASSUME Ownership, Ownership', UNCHANGED <<stream, readIdx>>,
           phase # "closed", phase' # "closed"
    PROVE  Line' = Line
  BY PlaceIs, PlaceWillBe, SameVerdict

LEMMA Implementation == SInv /\ SInv' /\ [Next]_vars => [C!Next]_(C!vars)
  <1> SUFFICES ASSUME SInv, SInv', [Next]_vars
               PROVE  C!Next \/ (Place' = Place /\ Line' = Line)
    BY DEF C!vars
  <1>0. /\ IInv /\ IInv' /\ Ownership /\ Ownership' /\ TypeOK
        /\ SegmentationIndependence
    BY DEF SInv, IInv
  <1> USE DEF C!Next, peerVars, lineVars, outVars, locVars
  <1>1. ASSUME UNCHANGED <<stream, readIdx, phase, armed>>
        PROVE  Place' = Place /\ Line' = Line
    BY <1>1, SameVerdict DEF Place, Line
  <1>2. CASE UNCHANGED vars
    BY <1>1, <1>2 DEF vars
  <1>3. CASE Peer
    BY <1>1, <1>3 DEF Peer, PeerSend, PeerLeave, PeerDrain
  <1>4. ASSUME phase \in {"epoll", "read", "write"}, phase' = "closed"
        PROVE  C!Next
    <2>1. Place' = "closed" /\ Line' = "part"
      BY <1>0, <1>4, PlaceWillBe
    <2>2. Place \notin {"work", "closed"}
      BY <1>0, <1>4, PlaceIs DEF Ownership, TypeOK
    <2> QED
      BY <2>1, <2>2 DEF C!Close
  <1>5. CASE Event
    <2>1. CASE EpollHup
      BY <1>0, <1>4, <2>1 DEF EpollHup, CloseConn, Ownership
    <2>2. CASE EpollIn
      <3>1. phase = "epoll" /\ armed = "in" /\ UNCHANGED <<stream, readIdx>>
        BY <1>0, <2>2 DEF EpollIn, Ownership
      <3>2. CASE phase' = "closed"
        BY <1>4, <3>1, <3>2
      <3>3. CASE phase' = "read"
        <4>1. Line' = Line
          BY <1>0, <3>1, <3>3, LineStays
        <4>2. Place = "in" /\ Place' = "reading"
          BY <1>0, <3>1, <3>3, PlaceIs, PlaceWillBe
        <4> QED
          BY <4>1, <4>2 DEF C!Report
      <3> QED
        BY <2>2, <3>2, <3>3 DEF EpollIn, CloseConn
    <2>3. CASE EpollOut
      <3>1. writeIdx # 0 /\ phase = "epoll" /\ armed = "out"
        BY <1>0, <2>3 DEF EpollOut, Ownership
      <3>2. phase' = "write" /\ UNCHANGED <<stream, readIdx>>
        BY <2>3, <3>1 DEF EpollOut
      <3>3. Line' = Line
        BY <1>0, <3>1, <3>2, LineStays
      <3>4. Place = "out" /\ Place' = "writing"
        BY <1>0, <3>1, <3>2, PlaceIs, PlaceWillBe
      <3> QED
        BY <3>3, <3>4 DEF C!Report
    <2> QED
      BY <1>5, <2>1, <2>2, <2>3 DEF Event
  <1>6. CASE Read
    <2>1. CASE RecvSome
      <3> DEFINE n == Min({Available, Space})
      <3>1. phase = "read" /\ phase' = "read" /\ stream' = stream
            /\ readIdx' = readIdx + n
        BY <2>1 DEF RecvSome
      <3>2. readIdx <= readIdx'
        <4>1. Available \in Nat /\ Space \in Nat /\ readIdx \in Nat
          BY <1>0, SizesAssumption DEF IInv, TypeOK, LineBounds, Available, Space
        <4>2. n \in Nat
          BY <4>1, MinOfNaturals
        <4> HIDE DEF n
        <4> QED
          BY <3>1, <4>1, <4>2
      <3>3. Place = "reading" /\ Place' = "reading"
        BY <1>0, <3>1, PlaceIs, PlaceWillBe
      <3>4. CASE Verdict(Consumed) = "open"
        <4>1. Line = "part"
          BY <1>0, <3>1, <3>4, PlaceIs
        <4>2. Line' \in {"part", "line", "noversion"}
          BY <1>0, <3>1, PlaceWillBe
        <4> QED
          BY <3>3, <4>1, <4>2 DEF C!Receive
      <3>5. CASE Verdict(Consumed) # "open"
        <4>1. Verdict(Consumed)' = Verdict(Consumed)
          BY <1>0, <3>1, <3>2, <3>5, ReadingAdds
        <4> QED
          BY <1>0, <3>1, <3>3, <4>1, PlaceIs, PlaceWillBe
      <3> QED
        BY <3>4, <3>5
    <2>2. CASE RecvAgain
      <3>1. phase = "read" /\ phase' = "parse" /\ UNCHANGED <<stream, readIdx>>
        BY <2>2 DEF RecvAgain
      <3>2. Line' = Line
        BY <1>0, <3>1, LineStays
      <3>3. Place = "reading" /\ Place' = "work"
        BY <1>0, <3>1, PlaceIs, PlaceWillBe
      <3> QED
        BY <3>2, <3>3 DEF C!Receive
    <2>3. CASE RecvFail
      BY <1>4, <2>3 DEF RecvFail, CloseConn
    <2> QED
      BY <1>6, <2>1, <2>2, <2>3 DEF Read
  <1>7. CASE Write
    <2>1. ASSUME NEW n \in 1..iovLen, Writev(n)
          PROVE  C!Next \/ (Place' = Place /\ Line' = Line)
      <3>1. /\ phase = "write" /\ UNCHANGED <<stream, readIdx>>
            /\ phase' = "closed" \/ UNCHANGED <<armed, phase>>
        BY <2>1 DEF Writev, CloseConn
      <3> QED
        BY <1>1, <1>4, <3>1
    <2>2. CASE WritevAgain
      <3>1. /\ phase = "write" /\ phase' = "epoll" /\ armed' = "out"
            /\ UNCHANGED <<stream, readIdx>>
        BY <2>2 DEF WritevAgain
      <3>2. Line' = Line
        BY <1>0, <3>1, LineStays
      <3>3. Place = "writing" /\ Place' = "out"
        BY <1>0, <3>1, PlaceIs, PlaceWillBe
      <3> QED
        BY <3>2, <3>3 DEF C!Again
    <2>3. CASE WritevFail
      BY <1>4, <2>3 DEF WritevFail, CloseConn
    <2> QED
      BY <1>7, <2>1, <2>2, <2>3 DEF Write
  <1>8. CASE Process
    <2>1. CASE LineStops
      <3>1. /\ phase = "parse" /\ phase' = "epoll" /\ armed' = "in"
            /\ UNCHANGED <<stream, readIdx>>
        BY <2>1 DEF LineStops
      <3>2. Line' = Line
        BY <1>0, <3>1, LineStays
      <3>3. Verdict(Consumed)' \in {"open", "spoilt"}
        BY <3>1 DEF SInv, SegmentationIndependence
      <3>4. Place = "work" /\ Place' = "in" /\ Line' = "part"
        BY <1>0, <3>1, <3>3, PlaceIs, PlaceWillBe
      <3> QED
        BY <3>2, <3>4 DEF C!Process
    <2>2. CASE RequestLine
      <3>1. /\ phase = "parse" /\ phase' \in {"crashed", "reply", "parse"}
            /\ UNCHANGED <<stream, readIdx>>
        BY <2>2 DEF RequestLine
      <3>2. Line' = Line
        BY <1>0, <3>1, LineStays
      <3>3. Place = "work" /\ Place' = "work"
        BY <1>0, <3>1, PlaceIs, PlaceWillBe
      <3> QED
        BY <3>2, <3>3
    <2>3. CASE ReplyBad
      <3> DEFINE head == AddHeaders(AddResponse(writeIdx, StatusLen))
      <3>1. phase = "reply" /\ writeIdx = 0 /\ Verdict(Consumed) = "400"
        BY <1>0, <2>3 DEF ReplyBad, Ownership, SegmentationIndependence
      <3>2. Fits(head, FormLen)
        BY <3>1, ResponseSize
      <3> HIDE DEF head
      <3>3. /\ armed' = "out" /\ phase' = "epoll"
            /\ UNCHANGED <<stream, readIdx>>
        BY <2>3, <3>2 DEF ReplyBad, ProcessWrite, head
      <3>4. Line' = Line
        BY <1>0, <3>1, <3>3, LineStays
      <3>5. Place = "work" /\ Place' = "out" /\ Line = "line"
        BY <1>0, <3>1, <3>3, PlaceIs, PlaceWillBe
      <3> QED
        BY <3>4, <3>5 DEF C!Process
    <2> QED
      BY <1>8, <2>1, <2>2, <2>3 DEF Process
  <1> QED
    BY <1>2, <1>3, <1>5, <1>6, <1>7, <1>8 DEF Next, Ended

-----------------------------------------------------------------------------
(* The theorems. *)

\* The inductive invariant, for every stream, segmentation and buffer size.
THEOREM Invariance == Spec => []IInv
  BY InitInv, InvStep, PTL DEF Spec

\* Every field of the object keeps its type; in particular read_idx_ stays
\* within read_buf_ (http_conn.cpp:130-152).
THEOREM TypeCorrect == Spec => []TypeOK
  <1>1. IInv => TypeOK
    BY DEF IInv
  <1> QED
    BY <1>1, Invariance, PTL

\* start_line_ <= checked_idx_ <= read_idx_, and the branch of ParseLine that
\* looks back from an LF (http_conn.cpp:113-118) is dead.
THEOREM LinePositions == Spec => []LineBounds
  <1>1. IInv => LineBounds
    BY DEF IInv
  <1> QED
    BY <1>1, Invariance, PTL

\* No byte of the stream is lost, moved or changed before ParseLine has passed
\* it, however the stream is cut.
THEOREM NothingLost == Spec => []UnscannedIntact
  <1>1. IInv => UnscannedIntact
    BY DEF IInv
  <1> QED
    BY <1>1, Invariance, PTL

\* The server closes a connection whose peer is there only after it sent
\* something or because the read buffer is full.
THEOREM NoCauselessHangUp == Spec => []HangUpHasReason
  <1>1. IInv => HangUpHasReason
    BY DEF IInv
  <1> QED
    BY <1>1, Invariance, PTL

\* However the network cuts the stream into segments, the server waits for
\* more only while the bytes hold no complete line, answers 400 to a complete
\* line and crashes only on a GET line without a version.
THEOREM Segmentation == Spec => []SegmentationIndependence
  <1>1. SInv => SegmentationIndependence
    BY DEF SInv
  <1> QED
    BY <1>1, SegmentationInit, SegmentationStep, PTL DEF Spec

\* HttpConn implements Connection, for every stream and cut of it and every
\* size of the buffers: Process and Write arm the socket, and Read hands over
\* to a worker, just when the event loop of main.cpp:91-135 expects them to.
THEOREM LivesConnection == Spec => ImplementsConnection
  <1>1. Init => C!Init
    <2> SUFFICES ASSUME Init PROVE C!Init
      OBVIOUS
    <2>1. Verdict(Consumed) = "open" /\ Ownership
      BY SegmentationInit, StartsOpen DEF SInv, IInv
    <2>2. phase = "epoll" /\ armed = "in"
      BY DEF Init
    <2> QED
      BY <2>1, <2>2, PlaceIs DEF C!Init
  <1>2. Spec => []SInv
    BY SegmentationInit, SegmentationStep, PTL DEF Spec
  <1> QED
    BY <1>1, <1>2, Implementation, PTL DEF Spec, ImplementsConnection, C!Spec

\* No request is ever accepted, whatever the peer sends: the version is
\* compared together with the blank before it (http_conn.cpp:173-184), so every
\* complete line is answered with 400, or crashes the server.
THEOREM NoRequestAccepted ==
    Spec => [][RequestLine => phase' \in {"reply", "crashed"}]_vars
  <1>1. SInv /\ RequestLine => phase' \in {"reply", "crashed"}
    <2> SUFFICES ASSUME SInv, RequestLine PROVE phase' \in {"reply", "crashed"}
      OBVIOUS
    <2> DEFINE code == ParseRequestLine(Text(ParseLine.buf, startLine))
    <2>1. /\ phase = "parse" /\ ParseLine.status = "OK"
          /\ phase' = CASE code = "CRASH" -> "crashed"
                        [] code = "BAD_REQUEST" -> "reply"
                        [] OTHER -> "parse"
      BY DEF RequestLine
    <2>2. TypeOK /\ LineBounds /\ Untouched
      BY <2>1 DEF SInv, IInv, Unparsed
    <2>3. code \in {"CRASH", "BAD_REQUEST"}
      BY <2>1, <2>2, LineIs DEF Untouched
    <2> HIDE DEF code
    <2> QED
      BY <2>1, <2>3
  <1>2. Spec => []SInv
    BY SegmentationInit, SegmentationStep, PTL DEF Spec
  <1> QED
    BY <1>1, <1>2, PTL DEF Spec
=============================================================================
