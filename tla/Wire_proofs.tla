---------------------------- MODULE Wire_proofs -----------------------------
(***************************************************************************)
(* Proofs about Connection and Wire when the I/O thread alone sends, for   *)
(* any packets: isWriting_ then is enough to keep writes apart, so that    *)
(* packets arrive whole and in order, which is what Client takes for       *)
(* granted, and what its calls get then follows.                           *)
(***************************************************************************)
EXTENDS Wire, SequenceTheorems, TLAPS

-----------------------------------------------------------------------------
(* Writes are kept apart.                                                  *)

\* How far the call of send of the I/O thread has got, and what it has seen.
Sending ==
  LET call == sending[IO]
  IN  /\ call = Idle \/ call.packet \in Packets
      /\ call.at = "push" => call.inProgress = isWriting
      /\ call.at = "start" => ~isWriting /\ writeQueue # << >>

\* Somebody takes care of a queue that is not empty.
Attended ==
  writeQueue # << >> /\ socket = "open" => isWriting \/ sending[IO].at = "start"

\* A write in progress is one of the front.
FrontWrite ==
  /\ Len(writes) = IF isWriting THEN 1 ELSE 0
  /\ isWriting => writeQueue # << >> /\ writes[1].packet = Head(writeQueue)

CInv == ConnTypeOK /\ Sending /\ Attended /\ FrontWrite

\* Nothing is queued, sent or written on a new connection.
LEMMA InitCInv == Threads = {IO} /\ ConnInit => CInv
<1> SUFFICES ASSUME Threads = {IO}, ConnInit PROVE CInv
  OBVIOUS
<1>1. ConnTypeOK
  <2>1. \A S : << >> \in Seq(S)
    OBVIOUS
  <2>2. sending \in [Threads -> [at : {"idle", "read", "push", "start"},
                                packet : Packets \cup {Garbage}, inProgress : BOOLEAN]]
    BY DEF ConnInit, Idle
  <2> QED BY <2>1, <2>2 DEF ConnInit, ConnTypeOK
<1>2. Sending /\ Attended /\ FrontWrite
  BY ThreadsAssumption DEF ConnInit, Sending, Attended, FrontWrite, Idle
<1> QED BY <1>1, <1>2 DEF CInv

Pending == [packet : Packets \cup {Garbage}, left : 0..2]

\* The only write is done with.
LEMMA RemoveOnly ==
  ASSUME NEW s \in Seq(Pending), Len(s) = 1, NEW i \in DOMAIN s
  PROVE  RemoveAt(s, i) = << >> /\ i = 1
<1>1. i = 1
  OBVIOUS
<1>2. SubSeq(s, 1, 0) = << >> /\ SubSeq(s, 2, 1) = << >>
  OBVIOUS
<1> QED BY <1>1, <1>2 DEF RemoveAt

\* A write of the front of a queue.
LEMMA WriteFront ==
  ASSUME NEW queue \in Seq(Packets), queue # << >>
  PROVE  Write(queue) \in Pending /\ Write(queue).packet = Head(queue) /\ Head(queue) \in Packets
<1>1. Head(queue) \in Packets
  OBVIOUS
<1> QED BY <1>1 DEF Write, Pending

-----------------------------------------------------------------------------
(* Sending.                                                                *)

\* A call of send starts with a packet and touches no shared variable.
LEMMA SendKeeps ==
  ASSUME Threads = {IO}, CInv, NEW p \in Packets, Send(IO, p)
  PROVE  CInv'
<1>1. /\ sending' = [sending EXCEPT ![IO] = Called(p)] /\ sending[IO] = Idle
      /\ UNCHANGED <<socket, reading, writeQueue, isWriting, writes, wire, sent, ends>>
  BY DEF Send, writeVars
<1>2. sending'[IO] = Called(p) /\ Called(p).at = "read" /\ Called(p).packet = p
  BY <1>1 DEF CInv, ConnTypeOK, Called, Idle
<1>3. ConnTypeOK'
  BY <1>1 DEF CInv, ConnTypeOK, Called, Idle
<1>4. Sending' /\ Attended' /\ FrontWrite'
  BY <1>1, <1>2 DEF CInv, Sending, Attended, FrontWrite, Idle
<1> QED BY <1>3, <1>4 DEF CInv

\* No completion handler runs between this read and the push.
LEMMA ReadFlagKeeps ==
  ASSUME Threads = {IO}, CInv, ReadFlag(IO)
  PROVE  CInv'
<1>1. /\ sending' = [sending EXCEPT ![IO].at = "push", ![IO].inProgress = isWriting]
      /\ sending[IO].at = "read"
      /\ UNCHANGED <<socket, reading, writeQueue, isWriting, writes, wire, sent, ends>>
  BY DEF ReadFlag, writeVars
<1>2. /\ sending'[IO].at = "push" /\ sending'[IO].packet = sending[IO].packet
      /\ sending'[IO].inProgress = isWriting
  BY <1>1, ThreadsAssumption DEF CInv, ConnTypeOK
<1>3. ConnTypeOK'
  BY <1>1 DEF CInv, ConnTypeOK
<1>4. Sending' /\ Attended' /\ FrontWrite'
  BY <1>1, <1>2 DEF CInv, Sending, Attended, FrontWrite, Idle
<1> QED BY <1>3, <1>4 DEF CInv

\* What is pushed behind a write in progress leaves the front alone; otherwise the
\* call goes on to start a write.
LEMMA PushKeeps ==
  ASSUME Threads = {IO}, CInv, Push(IO)
  PROVE  CInv'
<1> DEFINE p == sending[IO].packet
<1>1. /\ sending[IO].at = "push" /\ sending[IO].inProgress = isWriting /\ p \in Packets
      /\ writeQueue' = Append(writeQueue, p) /\ sent' = Append(sent, p)
      /\ UNCHANGED <<socket, reading, isWriting, writes, wire, ends>>
      /\ sending' = [sending EXCEPT ![IO] = IF sending[IO].inProgress THEN Idle
                                            ELSE [sending[IO] EXCEPT !.at = "start"]]
  BY DEF Push, CInv, Sending, Idle
<1>2. /\ writeQueue \in Seq(Packets) /\ writeQueue' \in Seq(Packets) /\ sent' \in Seq(Packets)
      /\ writeQueue' # << >>
      /\ writeQueue # << >> => Head(writeQueue') = Head(writeQueue)
  BY <1>1 DEF CInv, ConnTypeOK
<1>3. /\ isWriting => sending'[IO] = Idle
      /\ ~isWriting => sending'[IO].at = "start" /\ sending'[IO].packet = p
  BY <1>1, ThreadsAssumption DEF CInv, ConnTypeOK
<1>4. ConnTypeOK'
  BY <1>1, <1>2 DEF CInv, ConnTypeOK, Idle
<1>5. Sending' /\ Attended' /\ FrontWrite'
  BY <1>1, <1>2, <1>3 DEF CInv, ConnTypeOK, Sending, Attended, FrontWrite, Idle
<1> QED BY <1>4, <1>5 DEF CInv

\* The write that is started is of the front, and the only one.
LEMMA StartKeeps ==
  ASSUME Threads = {IO}, CInv, Start(IO)
  PROVE  CInv'
<1>1. /\ ~isWriting /\ writeQueue # << >> /\ isWriting' = TRUE
      /\ writes' = Append(writes, Write(writeQueue))
      /\ sending' = [sending EXCEPT ![IO] = Idle]
      /\ UNCHANGED <<socket, reading, writeQueue, wire, sent, ends>>
      /\ writeQueue \in Seq(Packets) /\ writes \in Seq(Pending) /\ Len(writes) = 0
  BY DEF Start, CInv, ConnTypeOK, Sending, FrontWrite, Pending
<1>2. writes' \in Seq(Pending) /\ Len(writes') = 1 /\ writes'[1].packet = Head(writeQueue)
  BY <1>1, WriteFront
<1>3. ConnTypeOK'
  BY <1>1, <1>2 DEF CInv, ConnTypeOK, Idle, Pending
<1>4. sending'[IO] = Idle
  BY <1>1, ThreadsAssumption DEF CInv, ConnTypeOK
<1>5. Sending'
  BY <1>4 DEF Sending, Idle
<1>6. Attended'
  BY <1>1 DEF Attended
<1>7. FrontWrite'
  BY <1>1, <1>2 DEF FrontWrite
<1> QED BY <1>3, <1>5, <1>6, <1>7 DEF CInv

-----------------------------------------------------------------------------
(* Writes in progress.                                                     *)

\* A piece that leaves changes no write's packet.
LEMMA ProgressKeeps ==
  ASSUME Threads = {IO}, CInv, NEW i \in DOMAIN writes, Progress(i)
  PROVE  CInv'
<1>1. /\ writes' = [writes EXCEPT ![i].left = writes[i].left - 1] /\ writes[i].left > 0
      /\ UNCHANGED <<socket, reading, writeQueue, isWriting, sending, sent, ends>>
      /\ wire' = Append(wire, [packet |-> writes[i].packet,
                               piece  |-> IF writes[i].left = 2 THEN "header" ELSE "payload"])
      /\ writes \in Seq(Pending) /\ wire \in Seq(Piece)
  BY DEF Progress, CInv, ConnTypeOK, Pending
<1>2. writes[i] \in Pending
  BY <1>1
<1>3. /\ [writes[i] EXCEPT !.left = writes[i].left - 1] \in Pending
      /\ [writes[i] EXCEPT !.left = writes[i].left - 1].packet = writes[i].packet
  BY <1>1, <1>2 DEF Pending
<1>4. /\ writes' \in Seq(Pending) /\ Len(writes') = Len(writes)
      /\ \A j \in DOMAIN writes : writes'[j].packet = writes[j].packet
  BY <1>1, <1>3
<1>5. wire' \in Seq(Piece)
  BY <1>1, <1>2 DEF Piece, Pending
<1>6. ConnTypeOK'
  BY <1>1, <1>4, <1>5 DEF CInv, ConnTypeOK, Pending
<1>7. Sending' /\ Attended' /\ FrontWrite'
  <2>1. isWriting => 1 \in DOMAIN writes
    BY <1>1 DEF CInv, FrontWrite
  <2> QED BY <1>1, <1>4, <2>1 DEF CInv, Sending, Attended, FrontWrite, Idle
<1> QED BY <1>6, <1>7 DEF CInv

\* Neither does a piece the system takes in vain.
LEMMA AbsorbKeeps ==
  ASSUME Threads = {IO}, CInv, NEW i \in DOMAIN writes, Absorb(i)
  PROVE  CInv'
<1>1. /\ writes' = [writes EXCEPT ![i].left = writes[i].left - 1] /\ writes[i].left > 0
      /\ socket' = "unanswered" /\ socket # "open"
      /\ UNCHANGED <<reading, writeQueue, isWriting, sending, wire, sent, ends>>
      /\ writes \in Seq(Pending)
  BY DEF Absorb, CInv, ConnTypeOK, Pending
<1>2. writes[i] \in Pending
  BY <1>1
<1>3. /\ [writes[i] EXCEPT !.left = writes[i].left - 1] \in Pending
      /\ [writes[i] EXCEPT !.left = writes[i].left - 1].packet = writes[i].packet
  BY <1>1, <1>2 DEF Pending
<1>4. /\ writes' \in Seq(Pending) /\ Len(writes') = Len(writes)
      /\ \A j \in DOMAIN writes : writes'[j].packet = writes[j].packet
  BY <1>1, <1>3
<1>5. ConnTypeOK'
  BY <1>1, <1>4 DEF CInv, ConnTypeOK, Pending
<1>6. Sending' /\ Attended' /\ FrontWrite'
  <2>1. isWriting => 1 \in DOMAIN writes
    BY <1>1 DEF CInv, FrontWrite
  <2> QED BY <1>1, <1>4, <2>1 DEF CInv, Sending, Attended, FrontWrite, Idle
<1> QED BY <1>5, <1>6 DEF CInv

\* The flag stays set exactly while there is a next packet to write.
LEMMA EndWriteKeeps ==
  ASSUME Threads = {IO}, CInv, NEW i \in DOMAIN writes, EndWrite(i)
  PROVE  CInv'
<1> DEFINE rest == IF writeQueue = << >> THEN << >> ELSE Tail(writeQueue)
<1>1. /\ sending[IO] = Idle /\ writeQueue' = rest /\ Continue(i, rest)
      /\ UNCHANGED <<socket, reading, sending, wire, sent, ends>>
      /\ writes \in Seq(Pending) /\ writeQueue \in Seq(Packets)
  BY DEF EndWrite, Free, CInv, ConnTypeOK, Pending
<1>2. isWriting /\ Len(writes) = 1
  BY <1>1 DEF CInv, ConnTypeOK, FrontWrite
<1>3. RemoveAt(writes, i) = << >>
  BY <1>1, <1>2, RemoveOnly
<1>4. rest \in Seq(Packets)
  BY <1>1
<1>5. CASE rest = << >>
  <2>1. isWriting' = FALSE /\ writes' = << >>
    BY <1>1, <1>3, <1>5 DEF Continue
  <2>2. ConnTypeOK'
    <3>1. writes' \in Seq(Pending)
      BY <2>1
    <3> QED BY <1>1, <1>4, <2>1, <3>1 DEF CInv, ConnTypeOK, Pending
  <2>3. Sending' /\ Attended' /\ FrontWrite'
    BY <1>1, <1>5, <2>1 DEF CInv, Sending, Attended, FrontWrite, Idle
  <2> QED BY <2>2, <2>3 DEF CInv
<1>6. CASE rest # << >>
  <2>1. isWriting' = TRUE /\ writes' = <<Write(rest)>>
    <3>1. isWriting' = TRUE /\ writes' = Append(<< >>, Write(rest))
      BY <1>1, <1>3, <1>6 DEF Continue
    <3> QED BY <3>1
  <2>2. writes' \in Seq(Pending) /\ Len(writes') = 1 /\ writes'[1].packet = Head(writeQueue')
    <3>1. Write(rest) \in Pending /\ Write(rest).packet = Head(rest)
      BY <1>4, <1>6, WriteFront
    <3>2. writes' \in Seq(Pending) /\ Len(writes') = 1 /\ writes'[1] = Write(rest)
      BY <2>1, <3>1
    <3> QED BY <1>1, <3>1, <3>2
  <2>3. ConnTypeOK'
    BY <1>1, <1>4, <2>1, <2>2 DEF CInv, ConnTypeOK, Pending
  <2>4. Sending' /\ Attended' /\ FrontWrite'
    <3>1. sending'[IO] = Idle /\ writeQueue' # << >>
      BY <1>1, <1>6
    <3> QED BY <2>1, <2>2, <3>1 DEF Sending, Attended, FrontWrite, Idle
  <2> QED BY <2>3, <2>4 DEF CInv
<1> QED BY <1>5, <1>6

\* A write fails only when the peer is gone, and the queue is then nobody's.
LEMMA FailWriteKeeps ==
  ASSUME Threads = {IO}, CInv, NEW i \in DOMAIN writes, FailWrite(i)
  PROVE  CInv'
<1>1. /\ sending[IO] = Idle /\ socket # "open" /\ isWriting' = FALSE /\ ends' = TRUE
      /\ writes' = RemoveAt(writes, i)
      /\ UNCHANGED <<socket, reading, writeQueue, sending, wire, sent>>
      /\ writes \in Seq(Pending)
  BY DEF FailWrite, Free, Known, CInv, ConnTypeOK, Pending
<1>2. Len(writes) = 1
  BY <1>1 DEF CInv, ConnTypeOK, FrontWrite
<1>3. writes' = << >>
  BY <1>1, <1>2, RemoveOnly
<1>4. ConnTypeOK'
  <2>1. writes' \in Seq(Pending)
    BY <1>3
  <2> QED BY <1>1, <2>1 DEF CInv, ConnTypeOK, Pending
<1>5. Sending' /\ Attended' /\ FrontWrite'
  BY <1>1, <1>3 DEF CInv, Sending, Attended, FrontWrite, Idle
<1> QED BY <1>4, <1>5 DEF CInv

\* The read loop and the peer do nothing to the queue.
LEMMA OthersKeep ==
  ASSUME Threads = {IO}, CInv,
         ReadHeader \/ ReadBody \/ ReadOversized \/ FailRead \/ Break \/ Vanish \/ GiveUp
  PROVE  CInv'
<1>1. /\ UNCHANGED <<writeQueue, isWriting, writes, sending, wire, sent>>
      /\ socket' = "open" => socket = "open"
      /\ socket' \in {"open", "vanished", "unanswered", "broken", "closed"}
      /\ reading' \in {"header", "body", "over"}
      /\ ends' \in BOOLEAN
  BY DEF ReadHeader, ReadBody, ReadOversized, FailRead, Break, Vanish, GiveUp, writeVars, CInv, ConnTypeOK
<1> QED BY <1>1 DEF CInv, ConnTypeOK, Sending, Attended, FrontWrite

-----------------------------------------------------------------------------

\* CInv is an invariant.
THEOREM Invariance ==
  ASSUME Threads = {IO}
  PROVE  ConnSpec => []CInv
<1>1. ConnInit => CInv
  BY InitCInv
<1>2. CInv /\ [ConnNext]_connVars => CInv'
  <2> SUFFICES ASSUME CInv, [ConnNext]_connVars PROVE CInv'
    OBVIOUS
  <2>1. CASE UNCHANGED connVars
    BY <2>1 DEF connVars, writeVars, CInv, ConnTypeOK, Sending, Attended, FrontWrite
  <2>2. ASSUME NEW t \in Threads, NEW p \in Packets, Send(t, p) PROVE CInv'
    BY <2>2, SendKeeps
  <2>3. ASSUME NEW t \in Threads, ReadFlag(t) \/ Push(t) \/ Start(t) PROVE CInv'
    BY <2>3, ReadFlagKeeps, PushKeeps, StartKeeps
  <2>4. ASSUME NEW i \in DOMAIN writes, Progress(i) \/ Absorb(i) \/ EndWrite(i) \/ FailWrite(i)
        PROVE  CInv'
    BY <2>4, ProgressKeeps, AbsorbKeeps, EndWriteKeeps, FailWriteKeeps
  <2> QED BY <2>1, <2>2, <2>3, <2>4, OthersKeep DEF ConnNext, Internal
<1> QED BY <1>1, <1>2, PTL DEF ConnSpec

\* When one thread sends, isWriting_ says whether a write is in progress,
\* there is never a second one beside it, and no packet is left in the queue
\* with nobody to write it while the peer is there.
THEOREM OneWriteHolds ==
  ASSUME Threads = {IO}
  PROVE  ConnSpec => []OneWrite
<1>1. CInv => OneWrite
  BY DEF CInv, FrontWrite, Attended, OneWrite
<1> QED BY Invariance, <1>1, PTL

\* The variables keep their types.
THEOREM TypeCorrect ==
  ASSUME Threads = {IO}
  PROVE  ConnSpec => []ConnTypeOK
<1>1. CInv => ConnTypeOK
  BY DEF CInv
<1> QED BY Invariance, <1>1, PTL

-----------------------------------------------------------------------------
(* Packets arrive whole and in order.                                      *)

Piecewise(p, piece) == [packet |-> p, piece |-> piece]

\* The pieces on the wire are those of the first packets sent, and perhaps
\* the header of the next.
Carries(w, s) ==
  LET k == Len(w) \div 2
  IN  /\ k <= Len(s)
      /\ \A i \in 1..k : /\ w[2 * i - 1] = Piecewise(s[i], "header")
                         /\ w[2 * i] = Piecewise(s[i], "payload")
      /\ Len(w) = 2 * k + 1 => k < Len(s) /\ w[2 * k + 1] = Piecewise(s[k + 1], "header")

\* While the peer is there, the queue holds the last packets sent, and the
\* pieces on the wire are those of the others and of the write in progress.
Aligned ==
  LET n == Len(sent) - Len(writeQueue)
  IN  socket = "open" =>
        /\ n >= 0
        /\ \A j \in 1..Len(writeQueue) : writeQueue[j] = sent[n + j]
        /\ Len(wire) = IF isWriting THEN 2 * n + 2 - writes[1].left ELSE 2 * n

Whole == Carries(wire, sent) /\ Aligned

\* What the peer reads of such pieces are the first packets sent.
LEMMA FramesAre ==
  ASSUME NEW w \in Seq(Piece), NEW s \in Seq(Packets), Carries(w, s)
  PROVE  [i \in 1..(Len(w) \div 2) |->
            IF w[2 * i] = [packet |-> w[2 * i - 1].packet, piece |-> "payload"]
            THEN w[2 * i].packet ELSE Garbage]
         = [i \in 1..(Len(w) \div 2) |-> s[i]]
<1> SUFFICES ASSUME NEW i \in 1..(Len(w) \div 2)
             PROVE  (IF w[2 * i] = [packet |-> w[2 * i - 1].packet, piece |-> "payload"]
                     THEN w[2 * i].packet ELSE Garbage) = s[i]
  OBVIOUS
<1>1. w[2 * i - 1] = Piecewise(s[i], "header") /\ w[2 * i] = Piecewise(s[i], "payload")
  BY DEF Carries
<1> QED BY <1>1 DEF Piecewise

\* How to show that a wire carries packets.
LEMMA CarriesFirst ==
  ASSUME NEW w, NEW s, NEW k, Len(w) \div 2 = k, k <= Len(s),
         \A i \in 1..k : /\ w[2 * i - 1] = Piecewise(s[i], "header")
                         /\ w[2 * i] = Piecewise(s[i], "payload"),
         Len(w) = 2 * k + 1 => k < Len(s) /\ w[2 * k + 1] = Piecewise(s[k + 1], "header")
  PROVE  Carries(w, s)
  BY Zenon DEF Carries

\* Pushing one more packet keeps what is on the wire in order.
LEMMA PushWhole ==
  ASSUME Threads = {IO}, CInv, Whole, Push(IO)
  PROVE  Whole'
<1> DEFINE p == sending[IO].packet
           n == Len(sent) - Len(writeQueue)
<1>1. /\ p \in Packets
      /\ writeQueue' = Append(writeQueue, p) /\ sent' = Append(sent, p)
      /\ UNCHANGED <<socket, isWriting, writes, wire>>
      /\ writeQueue \in Seq(Packets) /\ sent \in Seq(Packets) /\ wire \in Seq(Piece)
  BY DEF Push, CInv, ConnTypeOK, Sending, Idle
<1> HIDE DEF p
<1>2. /\ Len(sent') = Len(sent) + 1 /\ Len(writeQueue') = Len(writeQueue) + 1
      /\ \A i \in 1..Len(sent) : sent'[i] = sent[i]
      /\ sent'[Len(sent) + 1] = p
      /\ \A i \in 1..Len(writeQueue) : writeQueue'[i] = writeQueue[i]
      /\ writeQueue'[Len(writeQueue) + 1] = p
      /\ Len(sent) \in Nat /\ Len(writeQueue) \in Nat /\ Len(wire) \in Nat
  BY <1>1
<1>3. Carries(wire, sent')
  <2> DEFINE k == Len(wire) \div 2
  <2>1. /\ k <= Len(sent)
        /\ \A i \in 1..k : /\ wire[2 * i - 1] = Piecewise(sent[i], "header")
                           /\ wire[2 * i] = Piecewise(sent[i], "payload")
        /\ Len(wire) = 2 * k + 1 => k < Len(sent) /\ wire[2 * k + 1] = Piecewise(sent[k + 1], "header")
    BY DEF Whole, Carries
  <2>2. k \in Nat
    BY <1>2
  <2> HIDE DEF k
  <2>3. k <= Len(sent') /\ (k < Len(sent) => k < Len(sent') /\ k + 1 \in 1..Len(sent))
        /\ \A i \in 1..k : i \in 1..Len(sent)
    BY <1>2, <2>1, <2>2
  <2>4. \A i \in 1..k : /\ wire[2 * i - 1] = Piecewise(sent'[i], "header")
                        /\ wire[2 * i] = Piecewise(sent'[i], "payload")
    BY <1>2, <2>1, <2>3
  <2>5. Len(wire) = 2 * k + 1 => k < Len(sent') /\ wire[2 * k + 1] = Piecewise(sent'[k + 1], "header")
    BY <1>2, <2>1, <2>3
  <2>6. Len(wire) \div 2 = k
    BY DEF k
  <2> QED BY <2>3, <2>4, <2>5, <2>6, CarriesFirst
<1>4. Aligned'
  <2> SUFFICES ASSUME socket = "open"
               PROVE  /\ n >= 0
                      /\ Len(sent') - Len(writeQueue') = n
                      /\ \A j \in 1..Len(writeQueue') : writeQueue'[j] = sent'[n + j]
                      /\ Len(wire) = IF isWriting THEN 2 * n + 2 - writes[1].left ELSE 2 * n
    BY <1>1 DEF Aligned
  <2>1. /\ n >= 0
        /\ \A j \in 1..Len(writeQueue) : writeQueue[j] = sent[n + j]
        /\ Len(wire) = IF isWriting THEN 2 * n + 2 - writes[1].left ELSE 2 * n
    BY DEF Whole, Aligned
  <2>2. ASSUME NEW j \in 1..Len(writeQueue') PROVE writeQueue'[j] = sent'[n + j]
    <3>1. CASE j \in 1..Len(writeQueue)
      <4>1. n + j \in 1..Len(sent)
        BY <1>2, <2>1, <3>1
      <4> QED BY <1>2, <2>1, <3>1, <4>1
    <3>2. CASE j = Len(writeQueue) + 1
      <4>1. n + j = Len(sent) + 1
        BY <1>2, <3>2
      <4> QED BY <1>2, <3>2, <4>1
    <3> QED BY <1>2, <3>1, <3>2
  <2>3. Len(sent') - Len(writeQueue') = n
    BY <1>2
  <2> QED BY <2>1, <2>2, <2>3
<1> QED BY <1>1, <1>3, <1>4 DEF Whole

\* A write starts with nothing of its packet on the wire.
LEMMA StartWhole ==
  ASSUME Threads = {IO}, CInv, Whole, Start(IO)
  PROVE  Whole'
<1>1. /\ ~isWriting /\ writeQueue # << >> /\ isWriting' = TRUE
      /\ writes' = Append(writes, Write(writeQueue))
      /\ UNCHANGED <<socket, writeQueue, wire, sent>>
      /\ writeQueue \in Seq(Packets) /\ writes \in Seq(Pending) /\ Len(writes) = 0
  BY DEF Start, CInv, ConnTypeOK, Sending, FrontWrite, Pending
<1>2. writes'[1].left = 2
  BY <1>1, WriteFront DEF Write
<1>3. Len(sent) \in Nat /\ Len(writeQueue) \in Nat
  BY <1>1 DEF CInv, ConnTypeOK
<1>4. Aligned'
  BY <1>1, <1>2, <1>3 DEF Whole, Aligned
<1> QED BY <1>1, <1>4 DEF Whole

\* The next piece that leaves is of the front.
LEMMA ProgressWhole ==
  ASSUME Threads = {IO}, CInv, Whole, NEW i \in DOMAIN writes, Progress(i)
  PROVE  Whole'
<1>0. writes \in Seq(Pending) /\ Len(writes) = 1
  BY DEF CInv, ConnTypeOK, FrontWrite, Pending
<1> DEFINE n == Len(sent) - Len(writeQueue)
           left == writes[1].left
           piece == [packet |-> writes[1].packet,
                     piece  |-> IF left = 2 THEN "header" ELSE "payload"]
<1>1. /\ socket = "open" /\ writes[i].left > 0
      /\ writes' = [writes EXCEPT ![i].left = @ - 1]
      /\ wire' = Append(wire, [packet |-> writes[i].packet,
                               piece  |-> IF writes[i].left = 2 THEN "header" ELSE "payload"])
      /\ UNCHANGED <<socket, writeQueue, isWriting, sent>>
      /\ writes \in Seq(Pending) /\ wire \in Seq(Piece)
      /\ writeQueue \in Seq(Packets) /\ sent \in Seq(Packets)
  BY DEF Progress, CInv, ConnTypeOK, Pending
<1>2. /\ isWriting /\ Len(writes) = 1 /\ i = 1 /\ writeQueue # << >>
      /\ writes[1].packet = Head(writeQueue)
  BY <1>1 DEF CInv, FrontWrite
<1>3. left \in {1, 2}
  <2>1. writes[1] \in Pending
    BY <1>0
  <2>2. left \in 0..2
    BY <2>1 DEF Pending
  <2> QED BY <1>1, <1>2, <2>2
<1>4. /\ writes'[1].left = left - 1
      /\ wire' = Append(wire, piece)
  <2>1. writes[1] \in Pending /\ 1 \in DOMAIN writes
    BY <1>0
  <2>2. writes'[1] = [writes[1] EXCEPT !.left = @ - 1]
    BY <1>1, <1>2, <2>1
  <2>3. writes'[1].left = left - 1
    BY <2>1, <2>2 DEF Pending
  <2> QED BY <1>1, <1>2, <2>3
<1>5. /\ n >= 0 /\ n + 1 <= Len(sent) /\ n \in Int
      /\ writes[1].packet = sent[n + 1]
      /\ Len(wire) = 2 * n + 2 - left
  <2>1. /\ n >= 0
        /\ \A j \in 1..Len(writeQueue) : writeQueue[j] = sent[n + j]
        /\ Len(wire) = 2 * n + 2 - left
    BY <1>1, <1>2 DEF Whole, Aligned
  <2>2. Len(writeQueue) >= 1 /\ Len(writeQueue) \in Nat /\ Len(sent) \in Nat
        /\ writeQueue[1] = Head(writeQueue)
    BY <1>1, <1>2
  <2> QED BY <1>2, <2>1, <2>2
<1> HIDE DEF n, left, piece
<1>6. Aligned'
  <2>1. Len(wire') = Len(wire) + 1
    BY <1>1, <1>4
  <2> QED BY <1>1, <1>2, <1>3, <1>4, <1>5, <2>1 DEF Whole, Aligned, n
<1>7. /\ Len(wire') = Len(wire) + 1 /\ Len(wire) \in Nat
      /\ \A j \in 1..Len(wire) : wire'[j] = wire[j]
      /\ wire'[Len(wire) + 1] = piece
  BY <1>1, <1>4
<1>8. CASE left = 2
  <2>1. Len(wire) = 2 * n /\ Len(wire) \div 2 = n /\ Len(wire') = 2 * n + 1
        /\ Len(wire') \div 2 = n
    BY <1>5, <1>7, <1>8
  <2>2. wire'[2 * n + 1] = Piecewise(sent[n + 1], "header")
    BY <1>5, <1>7, <1>8, <2>1 DEF piece, Piecewise
  <2>3. ASSUME NEW j \in 1..n
        PROVE  /\ wire'[2 * j - 1] = Piecewise(sent[j], "header")
               /\ wire'[2 * j] = Piecewise(sent[j], "payload")
    <3>1. 2 * j - 1 \in 1..Len(wire) /\ 2 * j \in 1..Len(wire)
      BY <1>5, <2>1
    <3> QED BY <1>7, <2>1, <3>1 DEF Whole, Carries
  <2>4. Carries(wire', sent)
    <3>1. n <= Len(sent) /\ n < Len(sent)
      BY <1>1, <1>5
    <3> QED BY <2>1, <2>2, <2>3, <3>1, CarriesFirst
  <2> QED BY <1>1, <1>6, <2>4 DEF Whole
<1>9. CASE left = 1
  <2>1. Len(wire) = 2 * n + 1 /\ Len(wire) \div 2 = n /\ Len(wire') = 2 * n + 2
        /\ Len(wire') \div 2 = n + 1
    BY <1>5, <1>7, <1>9
  <2>2. wire'[2 * (n + 1)] = Piecewise(sent[n + 1], "payload")
    BY <1>5, <1>7, <1>9, <2>1 DEF piece, Piecewise
  <2>3. wire'[2 * (n + 1) - 1] = Piecewise(sent[n + 1], "header")
    <3>1. wire[2 * n + 1] = Piecewise(sent[n + 1], "header")
      BY <2>1 DEF Whole, Carries
    <3>2. 2 * (n + 1) - 1 = 2 * n + 1 /\ 2 * n + 1 \in 1..Len(wire)
      BY <1>5, <2>1
    <3> QED BY <1>7, <3>1, <3>2
  <2>4. ASSUME NEW j \in 1..n
        PROVE  /\ wire'[2 * j - 1] = Piecewise(sent[j], "header")
               /\ wire'[2 * j] = Piecewise(sent[j], "payload")
    <3>1. 2 * j - 1 \in 1..Len(wire) /\ 2 * j \in 1..Len(wire)
      BY <1>5, <2>1
    <3> QED BY <1>7, <2>1, <3>1 DEF Whole, Carries
  <2>5. \A j \in 1..(n + 1) : j \in 1..n \/ j = n + 1
    BY <1>5
  <2>6. Carries(wire', sent)
    <3>1. Len(wire') # 2 * (n + 1) + 1
      BY <1>5, <2>1
    <3>2. \A j \in 1..(n + 1) : /\ wire'[2 * j - 1] = Piecewise(sent[j], "header")
                                /\ wire'[2 * j] = Piecewise(sent[j], "payload")
      BY <2>2, <2>3, <2>4, <2>5
    <3> QED BY <1>5, <2>1, <3>1, <3>2, CarriesFirst
  <2> QED BY <1>1, <1>6, <2>6 DEF Whole
<1> QED BY <1>3, <1>8, <1>9

\* A packet that is whole on the wire leaves the queue.
LEMMA EndWriteWhole ==
  ASSUME Threads = {IO}, CInv, Whole, NEW i \in DOMAIN writes, EndWrite(i)
  PROVE  Whole'
<1> DEFINE rest == IF writeQueue = << >> THEN << >> ELSE Tail(writeQueue)
           n    == Len(sent) - Len(writeQueue)
<1>1. /\ writeQueue' = rest /\ Continue(i, rest) /\ writes[i].left = 0
      /\ UNCHANGED <<socket, wire, sent>>
      /\ writes \in Seq(Pending) /\ writeQueue \in Seq(Packets) /\ sent \in Seq(Packets)
  BY DEF EndWrite, CInv, ConnTypeOK, Pending
<1>2. isWriting /\ Len(writes) = 1 /\ i = 1 /\ writeQueue # << >>
  BY <1>1 DEF CInv, ConnTypeOK, FrontWrite
<1>3. RemoveAt(writes, i) = << >>
  BY <1>1, <1>2, RemoveOnly
<1>4. /\ rest \in Seq(Packets) /\ Len(rest) = Len(writeQueue) - 1
      /\ \A j \in 1..Len(rest) : rest[j] = writeQueue[j + 1]
      /\ Len(writeQueue) \in Nat /\ Len(sent) \in Nat /\ Len(rest) \in Nat
  BY <1>1, <1>2
<1>5. isWriting' => writes'[1].left = 2
  <2>1. isWriting' => rest # << >> /\ writes' = Append(<< >>, Write(rest))
    BY <1>1, <1>3 DEF Continue
  <2>2. rest # << >> => Write(rest) \in Pending /\ Write(rest).left = 2
    BY <1>4, WriteFront DEF Write
  <2> HIDE DEF rest
  <2> QED BY <2>1, <2>2
<1>6. isWriting' \in BOOLEAN
  BY <1>1 DEF Continue
<1> HIDE DEF rest
<1>7. Aligned'
  <2> SUFFICES ASSUME socket = "open"
               PROVE  /\ Len(sent) - Len(rest) >= 0
                      /\ \A j \in 1..Len(rest) : rest[j] = sent[Len(sent) - Len(rest) + j]
                      /\ Len(wire) = IF isWriting'
                                     THEN 2 * (Len(sent) - Len(rest)) + 2 - writes'[1].left
                                     ELSE 2 * (Len(sent) - Len(rest))
    BY <1>1 DEF Aligned
  <2>1. /\ n >= 0
        /\ \A j \in 1..Len(writeQueue) : writeQueue[j] = sent[n + j]
        /\ Len(wire) = 2 * n + 2 - writes[1].left
    BY <1>2 DEF Whole, Aligned
  <2>2. Len(sent) - Len(rest) = n + 1 /\ n \in Nat
    BY <1>4, <2>1
  <2>3. Len(wire) = 2 * n + 2
    BY <1>1, <1>2, <2>1, <2>2
  <2>4. ASSUME NEW j \in 1..Len(rest) PROVE rest[j] = sent[(n + 1) + j]
    <3>1. j + 1 \in 1..Len(writeQueue) /\ n + (j + 1) = (n + 1) + j
      BY <1>4, <2>2
    <3> QED BY <1>4, <2>1, <3>1
  <2> HIDE DEF n
  <2> QED BY <1>5, <2>2, <2>3, <2>4
<1> QED BY <1>1, <1>7 DEF Whole

\* What changes neither queue nor wire, and does not bring the peer back.
LEMMA OthersWhole ==
  ASSUME Whole, UNCHANGED <<writeQueue, wire, sent>>,
         socket' = "open" => socket = "open" /\ UNCHANGED <<isWriting, writes>>
  PROVE  Whole'
  BY DEF Whole, Aligned

-----------------------------------------------------------------------------
(* The connection as a channel.                                            *)

ChannelVars == <<sent, Frames, socket # "open">>

\* The start of a channel, and its steps: all of ImplementsChannel but that
\* what was sent arrives in the end.
ChannelSteps == CH!Init /\ [][CH!Next]_ChannelVars

\* A piece that completes a packet is its arrival.
LEMMA ProgressArrives ==
  ASSUME Threads = {IO}, CInv, Whole, Whole', CInv', NEW i \in DOMAIN writes, Progress(i)
  PROVE  [CH!Next]_ChannelVars
<1> DEFINE k == Len(wire) \div 2
<1>1. /\ socket = "open" /\ UNCHANGED <<socket, sent>>
      /\ Len(wire') = Len(wire) + 1 /\ Len(wire) \in Nat /\ sent \in Seq(Packets)
      /\ wire \in Seq(Piece) /\ wire' \in Seq(Piece)
  BY DEF Progress, CInv, ConnTypeOK
<1>2. Frames = [j \in 1..k |-> sent[j]] /\ Carries(wire, sent)
  BY <1>1, FramesAre DEF Frames, Whole
<1>3. Frames' = [j \in 1..(Len(wire') \div 2) |-> sent[j]] /\ Carries(wire', sent)
  BY <1>1, FramesAre DEF Frames, Whole
<1>4. k \in Nat /\ k <= Len(sent)
  BY <1>1, <1>2 DEF Carries
<1>5. CASE Len(wire') \div 2 = k
  BY <1>1, <1>2, <1>3, <1>5 DEF ChannelVars
<1>6. CASE Len(wire') \div 2 = k + 1
  <2>1. k + 1 <= Len(sent)
    BY <1>3, <1>6 DEF Carries
  <2>2. Len(Frames) = k
    BY <1>2, <1>4
  <2>3. Frames' = Append(Frames, sent[Len(Frames) + 1])
    <3>1. \A j \in 1..k : sent[j] \in Packets
      BY <1>1, <1>4
    <3>2. Frames \in Seq(Packets)
      BY <1>2, <1>4, <3>1
    <3>3. Append(Frames, sent[k + 1]) = [j \in 1..(k + 1) |-> IF j = k + 1 THEN sent[k + 1] ELSE Frames[j]]
      BY <1>4, <2>2, <3>2 DEF Append
    <3>4. ASSUME NEW j \in 1..(k + 1)
          PROVE  (IF j = k + 1 THEN sent[k + 1] ELSE Frames[j]) = sent[j]
      <4>1. j # k + 1 => j \in 1..k
        BY <1>4
      <4> QED BY <1>2, <4>1
    <3> QED BY <1>3, <1>6, <2>2, <3>3, <3>4
  <2>4. CH!Arrive
    BY <1>1, <1>4, <2>1, <2>2, <2>3 DEF CH!Arrive
  <2> QED BY <2>4 DEF CH!Next
<1>7. Len(wire') \div 2 \in {k, k + 1}
  BY <1>1
<1> QED BY <1>5, <1>6, <1>7

\* Pushing a packet is sending it.
LEMMA PushSends ==
  ASSUME Threads = {IO}, CInv, Push(IO)
  PROVE  CH!Next
<1>1. /\ sending[IO].packet \in Packets /\ sent' = Append(sent, sending[IO].packet)
      /\ UNCHANGED <<socket, wire>>
  BY DEF Push, CInv, Sending, Idle
<1>2. Frames' = Frames
  BY <1>1 DEF Frames
<1> QED BY <1>1, <1>2 DEF CH!Next, CH!Send

\* Everything else at most ends the channel.
LEMMA OthersCut ==
  ASSUME UNCHANGED <<wire, sent>>, socket' = "open" => socket = "open"
  PROVE  [CH!Next]_ChannelVars
<1>1. Frames' = Frames
  BY DEF Frames
<1>2. CASE (socket' # "open") = (socket # "open")
  BY <1>1, <1>2 DEF ChannelVars
<1>3. CASE socket = "open" /\ socket' # "open"
  BY <1>1, <1>3 DEF CH!Next, CH!Cut
<1> QED BY <1>2, <1>3

\* What the connection does by itself keeps both invariants and is a step of
\* the channel.
LEMMA InternalKeeps ==
  ASSUME Threads = {IO}, CInv, Whole, Internal
  PROVE  CInv' /\ Whole' /\ [CH!Next]_ChannelVars
<1>1. CASE ReadFlag(IO)
  <2>1. UNCHANGED <<socket, writeQueue, isWriting, writes, wire, sent>>
    BY <1>1 DEF ReadFlag, writeVars
  <2> QED BY <1>1, <2>1, ReadFlagKeeps, OthersWhole, OthersCut
<1>2. CASE Push(IO)
  BY <1>2, PushKeeps, PushWhole, PushSends
<1>3. CASE Start(IO)
  <2>1. UNCHANGED <<socket, wire, sent>>
    BY <1>3 DEF Start
  <2> QED BY <1>3, <2>1, StartKeeps, StartWhole, OthersCut
<1>4. ASSUME NEW i \in DOMAIN writes, Progress(i)
      PROVE  CInv' /\ Whole' /\ [CH!Next]_ChannelVars
  <2>1. CInv' /\ Whole'
    BY <1>4, ProgressKeeps, ProgressWhole
  <2> QED BY <1>4, <2>1, ProgressArrives
<1>5. ASSUME NEW i \in DOMAIN writes, EndWrite(i)
      PROVE  CInv' /\ Whole' /\ [CH!Next]_ChannelVars
  <2>1. UNCHANGED <<socket, wire, sent>>
    BY <1>5 DEF EndWrite
  <2> QED BY <1>5, <2>1, EndWriteKeeps, EndWriteWhole, OthersCut
<1>6. ASSUME NEW i \in DOMAIN writes, FailWrite(i)
      PROVE  CInv' /\ Whole' /\ [CH!Next]_ChannelVars
  <2>1. socket # "open" /\ UNCHANGED <<socket, writeQueue, wire, sent>>
    BY <1>6 DEF FailWrite, Known
  <2> QED BY <1>6, <2>1, FailWriteKeeps, OthersWhole, OthersCut
<1>7. ASSUME NEW i \in DOMAIN writes, Absorb(i)
      PROVE  CInv' /\ Whole' /\ [CH!Next]_ChannelVars
  <2>1. socket' = "unanswered" /\ UNCHANGED <<writeQueue, wire, sent>>
    BY <1>7 DEF Absorb
  <2> QED BY <1>7, <2>1, AbsorbKeeps, OthersWhole, OthersCut
<1>8. CASE GiveUp
  <2>1. socket' = "broken" /\ UNCHANGED <<writeQueue, wire, sent>>
    BY <1>8 DEF GiveUp, writeVars
  <2> QED BY <1>8, <2>1, OthersKeep, OthersWhole, OthersCut
<1> QED BY <1>1, <1>2, <1>3, <1>4, <1>5, <1>6, <1>7, <1>8 DEF Internal

\* So do the read loop and the end of the connection.
LEMMA ReadingKeeps ==
  ASSUME Threads = {IO}, CInv, Whole,
         ReadHeader \/ ReadBody \/ ReadOversized \/ FailRead \/ Break \/ Vanish \/ GiveUp
  PROVE  CInv' /\ Whole' /\ [CH!Next]_ChannelVars
<1>1. /\ UNCHANGED <<writeQueue, isWriting, writes, wire, sent>>
      /\ socket' = "open" => socket = "open"
  BY DEF ReadHeader, ReadBody, ReadOversized, FailRead, Break, Vanish, GiveUp, writeVars
<1> QED BY <1>1, OthersKeep, OthersWhole, OthersCut

\* An empty wire carries nothing.
LEMMA InitWhole == ConnInit => Whole /\ CH!Init
<1> SUFFICES ASSUME ConnInit PROVE Whole /\ CH!Init
  OBVIOUS
<1>1. wire = << >> /\ sent = << >> /\ writeQueue = << >> /\ ~isWriting /\ socket = "open"
  BY DEF ConnInit
<1>2. Len(wire) = 0 /\ Len(sent) = 0 /\ Len(writeQueue) = 0 /\ 0 \div 2 = 0
  BY <1>1
<1>3. Carries(wire, sent) /\ Aligned
  BY <1>1, <1>2 DEF Carries, Aligned
<1>4. Frames = << >>
  BY <1>2 DEF Frames
<1> QED BY <1>1, <1>3, <1>4 DEF Whole, CH!Init

\* When one thread sends, then whatever is sent while other writes are in
\* progress or have just ended, what arrives is what was sent: every packet
\* whole, once and in order, until the network is gone.
THEOREM ConnectionIsChannel ==
  ASSUME Threads = {IO}
  PROVE  ConnSpec => ChannelSteps
<1>1. ConnInit => CInv /\ Whole /\ CH!Init
  BY InitCInv, InitWhole
<1>2. CInv /\ Whole /\ [ConnNext]_connVars => CInv' /\ Whole' /\ [CH!Next]_ChannelVars
  <2> SUFFICES ASSUME CInv, Whole, [ConnNext]_connVars
               PROVE  CInv' /\ Whole' /\ [CH!Next]_ChannelVars
    OBVIOUS
  <2>1. CASE UNCHANGED connVars
    <3>1. UNCHANGED <<socket, writeQueue, isWriting, writes, wire, sent>>
      BY <2>1 DEF connVars, writeVars
    <3>2. CInv'
      BY <2>1 DEF connVars, writeVars, CInv, ConnTypeOK, Sending, Attended, FrontWrite
    <3> QED BY <3>1, <3>2, OthersWhole, OthersCut
  <2>2. ASSUME NEW p \in Packets, Send(IO, p)
        PROVE  CInv' /\ Whole' /\ [CH!Next]_ChannelVars
    <3>1. UNCHANGED <<socket, writeQueue, isWriting, writes, wire, sent>>
      BY <2>2 DEF Send, writeVars
    <3> QED BY <2>2, <3>1, SendKeeps, OthersWhole, OthersCut
  <2> QED BY <2>1, <2>2, InternalKeeps, ReadingKeeps DEF ConnNext
<1> QED BY <1>1, <1>2, PTL DEF ConnSpec, ChannelSteps

-----------------------------------------------------------------------------
(* What the calls of a client get.                                         *)

\* The calls whose responses have not reached a handler.
InFlight == Range(requests) \cup Range(Responses)

\* The variables of the client keep their types, and only what was sent is
\* in flight, in hand or an answer.
ClientTypes ==
  /\ calls \in [C!Calls -> C!Call]
  /\ handlers \in [Types -> C!Calls \cup {None}]
  /\ requests \in Seq(C!Calls) /\ Responses \in Seq(C!Calls)
  /\ inHand = C!Nothing \/ inHand \in [handler : C!Calls, response : C!Calls]
  /\ expiring \subseteq C!Calls

\* A response is in one place: on its way, once, in hand, or the answer of
\* one call.
InOnePlace ==
  /\ IsInjective(requests) /\ IsInjective(Responses)
  /\ Range(requests) \cap Range(Responses) = {}
  /\ inHand.response \notin InFlight
  /\ \A c \in C!Calls :
       /\ c \in InFlight \/ c = inHand.response => calls[c].phase = "sent"
       /\ calls[c].status = "answered" <=> calls[c].answer # None
       /\ calls[c].answer # None =>
            /\ calls[c].answer \notin InFlight
            /\ calls[c].answer # inHand.response
            /\ calls[calls[c].answer].phase = "sent"
            /\ \A d \in C!Calls : calls[d].answer = calls[c].answer => d = c

\* The last call of a type.
Latest(c, t) ==
  /\ calls[c].type = t
  /\ calls[c].phase # "unused"
  /\ \A d \in C!Calls : calls[d].phase # "unused" /\ calls[d].type = t => d <= c

\* Calls are registered in order, and the handler of a type, if there is one,
\* is the last call of it.
InOrder ==
  /\ \A c, d \in C!Calls : d <= c /\ calls[c].phase # "unused" => calls[d].phase # "unused"
  /\ \A c \in C!Calls : IF calls[c].phase = "unused" THEN calls[c] = C!Unused
                        ELSE calls[c].type \in Types
  /\ \A t \in Types, c \in C!Calls : handlers[t] = c => Latest(c, t)
  /\ \A c \in expiring : calls[c].phase # "unused"

\* A response of the type of call c, which is not of a later call.
Matches(c, response) == response <= c /\ calls[response].type = calls[c].type

\* That is what a call is given or has in hand.
NoneLater ==
  /\ inHand # C!Nothing => /\ Matches(inHand.handler, inHand.response)
                           /\ calls[inHand.handler].phase # "unused"
  /\ \A c \in C!Calls : calls[c].answer # None => Matches(c, calls[c].answer)

\* No earlier response can come to a call that was alone.
Undisturbed ==
  \A c \in C!Calls : calls[c].alone =>
    /\ \A d \in C!UnderWay : d < c => calls[d].type # calls[c].type
    /\ calls[c].answer \in {None, c}

ClientInv == ClientTypes /\ InOnePlace /\ InOrder /\ NoneLater /\ Undisturbed

\* No call is no number.
LEMMA CallsAreNumbers == C!Calls \subseteq Nat /\ None \notin C!Calls
BY NoneAssumption DEF C!Calls

\* The rest of a sequence without repetitions has lost its head.
LEMMA WithoutHead ==
  ASSUME NEW S, NEW s \in Seq(S), s # << >>, IsInjective(s)
  PROVE  /\ Head(s) \in Range(s) /\ Head(s) \in S
         /\ Range(Tail(s)) = Range(s) \ {Head(s)}
         /\ IsInjective(Tail(s)) /\ Tail(s) \in Seq(S)
<1>1. /\ 1 \in DOMAIN s /\ Head(s) = s[1] /\ Tail(s) \in Seq(S) /\ Head(s) \in S
      /\ DOMAIN s = 1..Len(s) /\ DOMAIN Tail(s) = 1..(Len(s) - 1) /\ Len(s) \in Nat
      /\ \A i \in DOMAIN Tail(s) : i + 1 \in DOMAIN s /\ Tail(s)[i] = s[i + 1]
  OBVIOUS
<1>2. Range(Tail(s)) \subseteq Range(s) \ {Head(s)}
  <2> SUFFICES ASSUME NEW i \in DOMAIN Tail(s) PROVE s[i + 1] \in Range(s) /\ s[i + 1] # s[1]
    BY <1>1 DEF Range
  <2> QED BY <1>1 DEF Range, IsInjective
<1>3. Range(s) \ {Head(s)} \subseteq Range(Tail(s))
  <2> SUFFICES ASSUME NEW i \in DOMAIN s, i # 1 PROVE s[i] \in Range(Tail(s))
    BY <1>1 DEF Range
  <2>1. i - 1 \in DOMAIN Tail(s) /\ Tail(s)[i - 1] = s[i]
    BY <1>1
  <2> QED BY <2>1 DEF Range
<1>4. IsInjective(Tail(s))
  BY <1>1 DEF IsInjective
<1> QED BY <1>1, <1>2, <1>3, <1>4 DEF Range

\* What is appended joins the range.
LEMMA WithLast ==
  ASSUME NEW S, NEW s \in Seq(S), NEW e \in S
  PROVE  /\ Append(s, e) \in Seq(S)
         /\ Range(Append(s, e)) = Range(s) \cup {e}
         /\ IsInjective(s) /\ e \notin Range(s) => IsInjective(Append(s, e))
<1>1. /\ Append(s, e) \in Seq(S) /\ Len(s) \in Nat
      /\ DOMAIN s = 1..Len(s) /\ DOMAIN Append(s, e) = 1..(Len(s) + 1)
      /\ \A i \in DOMAIN s : Append(s, e)[i] = s[i]
      /\ Append(s, e)[Len(s) + 1] = e
  OBVIOUS
<1>2. Range(Append(s, e)) = Range(s) \cup {e}
  <2>1. Range(Append(s, e)) \subseteq Range(s) \cup {e}
    BY <1>1 DEF Range
  <2>2. \A i \in DOMAIN s : i \in DOMAIN Append(s, e)
    BY <1>1
  <2>3. Range(s) \subseteq Range(Append(s, e))
    BY <1>1, <2>2 DEF Range
  <2>4. e \in Range(Append(s, e))
    <3>1. Len(s) + 1 \in DOMAIN Append(s, e)
      BY <1>1
    <3> QED BY <1>1, <3>1 DEF Range
  <2> QED BY <2>1, <2>3, <2>4
<1>3. IsInjective(s) /\ e \notin Range(s) => IsInjective(Append(s, e))
  <2> SUFFICES ASSUME IsInjective(s), e \notin Range(s),
                      NEW i \in DOMAIN Append(s, e), NEW j \in DOMAIN Append(s, e),
                      Append(s, e)[i] = Append(s, e)[j]
               PROVE  i = j
    BY DEF IsInjective
  <2>1. \A k \in DOMAIN s : s[k] # e
    BY DEF Range
  <2>2. (i \in DOMAIN s \/ i = Len(s) + 1) /\ (j \in DOMAIN s \/ j = Len(s) + 1)
    BY <1>1
  <2> QED BY <1>1, <2>1, <2>2 DEF IsInjective
<1> QED BY <1>1, <1>2, <1>3

\* A client starts with nothing.
LEMMA InitClient == C!Init => ClientInv
<1> SUFFICES ASSUME C!Init PROVE ClientInv
  OBVIOUS
<1>1. /\ \A c \in C!Calls : calls[c] = C!Unused
      /\ calls = [c \in C!Calls |-> C!Unused]
      /\ handlers = [t \in Types |-> None]
      /\ requests = << >> /\ Responses = << >> /\ inHand = C!Nothing /\ expiring = {}
  BY DEF C!Init
<1>2. Range(requests) = {} /\ Range(Responses) = {} /\ IsInjective(requests) /\ IsInjective(Responses)
  BY <1>1 DEF Range, IsInjective
<1>3. ClientTypes
  <2>1. C!Unused \in C!Call
    BY DEF C!Unused, C!Call
  <2> QED BY <1>1, <2>1 DEF ClientTypes
<1>4. InFlight = {}
  BY <1>2 DEF InFlight
<1>5. InOnePlace
  BY <1>1, <1>2, <1>4, CallsAreNumbers DEF InOnePlace, C!Unused, C!Nothing
<1>6. InOrder /\ NoneLater
  BY <1>1, CallsAreNumbers DEF InOrder, NoneLater, C!Unused
<1>7. Undisturbed
  BY <1>1 DEF Undisturbed, C!Unused
<1> QED BY <1>3, <1>5, <1>6, <1>7 DEF ClientInv

\* A new call of a type is the last of it, and comes after all that are under way.
LEMMA RegisterClient ==
  ASSUME ClientInv, NEW c \in C!Calls, NEW t \in Types, C!Register(c, t)
  PROVE  ClientInv'
<1> DEFINE new == [C!Unused EXCEPT !.type  = t,
                                   !.phase = "registered",
                                   !.alone = \A d \in C!UnderWay : calls[d].type # t]
<1>1. /\ calls[c].phase = "unused" /\ \A d \in 1..(c - 1) : calls[d].phase # "unused"
      /\ calls' = [calls EXCEPT ![c] = new]
      /\ handlers' = [handlers EXCEPT ![t] = c]
      /\ UNCHANGED <<requests, Responses, inHand, expiring>>
  BY DEF C!Register, C!Handler
<1>2. /\ calls'[c] = new
      /\ \A d \in C!Calls : d # c => calls'[d] = calls[d]
      /\ handlers'[t] = c /\ \A u \in Types : u # t => handlers'[u] = handlers[u]
      /\ calls[c] = C!Unused
  BY <1>1 DEF ClientInv, ClientTypes, InOrder
<1>3. \A d \in C!Calls : d # c => (calls[d].phase # "unused" <=> d < c)
  <2>1. \A d \in C!Calls : c <= d /\ calls[d].phase # "unused" => FALSE
    BY <1>1 DEF ClientInv, InOrder
  <2> QED BY <1>1, <2>1 DEF C!Calls
<1>4. /\ new \in C!Call /\ new.type = t /\ new.phase = "registered" /\ new.status = "pending"
      /\ new.answer = None /\ (new.alone <=> \A d \in C!UnderWay : calls[d].type # t)
  BY DEF C!Call, C!Unused
<1> HIDE DEF new
<1>5. InFlight' = InFlight /\ c \notin InFlight /\ c # inHand.response
      /\ \A d \in C!Calls : calls[d].answer # None => calls[d].answer # c
  BY <1>1 DEF ClientInv, InOnePlace, InFlight
<1>6. ClientTypes'
  BY <1>1, <1>4 DEF ClientInv, ClientTypes
<1>7. InOnePlace'
  <2>1. ASSUME NEW d \in C!Calls
        PROVE  /\ d \in InFlight \/ d = inHand.response => calls'[d].phase = "sent"
               /\ calls'[d].status = "answered" <=> calls'[d].answer # None
    BY <1>2, <1>4, <1>5 DEF ClientInv, InOnePlace
  <2>2. ASSUME NEW d \in C!Calls, calls'[d].answer # None
        PROVE  /\ calls'[d].answer \notin InFlight
               /\ calls'[d].answer # inHand.response
               /\ calls'[calls'[d].answer].phase = "sent"
               /\ \A e \in C!Calls : calls'[e].answer = calls'[d].answer => e = d
    <3>1. d # c /\ calls'[d] = calls[d]
      BY <1>2, <1>4, <2>2
    <3>2. calls[d].answer \in C!Calls /\ calls[d].answer # c
      BY <1>5, <2>2, <3>1 DEF ClientInv, ClientTypes, C!Call
    <3>3. calls'[calls[d].answer] = calls[calls[d].answer]
      BY <1>2, <3>2
    <3> QED BY <1>2, <1>4, <2>2, <3>1, <3>2, <3>3 DEF ClientInv, InOnePlace
  <2> QED BY <1>1, <1>5, <2>1, <2>2 DEF ClientInv, InOnePlace
<1>8. InOrder'
  <2>1. \A d, e \in C!Calls : e <= d /\ calls'[d].phase # "unused" => calls'[e].phase # "unused"
    BY <1>2, <1>3, <1>4, CallsAreNumbers
  <2>2. \A d \in C!Calls : IF calls'[d].phase = "unused" THEN calls'[d] = C!Unused
                           ELSE calls'[d].type \in Types
    BY <1>2, <1>4 DEF ClientInv, InOrder
  <2>3. ASSUME NEW u \in Types, NEW h \in C!Calls, handlers'[u] = h PROVE Latest(h, u)'
    <3>1. CASE u = t
      <4>1. h = c
        BY <1>2, <2>3, <3>1
      <4> QED BY <1>2, <1>3, <1>4, <3>1, <4>1, CallsAreNumbers DEF Latest
    <3>2. CASE u # t
      <4>1. Latest(h, u) /\ h # c
        BY <1>1, <1>2, <2>3, <3>2 DEF ClientInv, InOrder, Latest
      <4> QED BY <1>2, <1>4, <3>2, <4>1 DEF Latest
    <3> QED BY <3>1, <3>2
  <2>4. \A d \in expiring' : calls'[d].phase # "unused"
    BY <1>1, <1>2, <1>4 DEF ClientInv, ClientTypes, InOrder
  <2> QED BY <2>1, <2>2, <2>3, <2>4 DEF InOrder
<1>9. NoneLater'
  <2>1. ASSUME inHand # C!Nothing
        PROVE  Matches(inHand.handler, inHand.response)' /\ calls'[inHand'.handler].phase # "unused"
    <3>1. /\ inHand.handler \in C!Calls /\ inHand.response \in C!Calls
          /\ inHand.handler # c /\ inHand.response # c
      BY <1>1, <1>5, <2>1 DEF ClientInv, ClientTypes, NoneLater
    <3> QED BY <1>1, <1>2, <2>1, <3>1 DEF ClientInv, NoneLater, Matches
  <2>2. ASSUME NEW d \in C!Calls, calls'[d].answer # None
        PROVE  Matches(d, calls[d].answer)' /\ calls'[d].answer = calls[d].answer
    <3>1. d # c /\ calls'[d] = calls[d]
      BY <1>2, <1>4, <2>2
    <3>2. calls[d].answer \in C!Calls /\ calls[d].answer # c
      BY <1>5, <2>2, <3>1 DEF ClientInv, ClientTypes, C!Call
    <3>3. calls'[calls[d].answer] = calls[calls[d].answer]
      BY <1>2, <3>2
    <3> QED BY <2>2, <3>1, <3>3 DEF ClientInv, NoneLater, Matches
  <2> QED BY <1>1, <2>1, <2>2 DEF NoneLater
<1>10. Undisturbed'
  <2>1. \A d \in C!UnderWay' : d = c \/ (d \in C!UnderWay /\ calls'[d] = calls[d])
    BY <1>1, <1>2, <1>4 DEF C!UnderWay
  <2>2. ASSUME NEW d \in C!Calls, calls'[d].alone
        PROVE  /\ \A e \in C!UnderWay' : e < d => calls'[e].type # calls'[d].type
               /\ calls'[d].answer \in {None, d}
    <3>1. CASE d = c
      BY <1>2, <1>4, <2>1, <2>2, <3>1, CallsAreNumbers
    <3>2. CASE d # c
      <4>1. calls'[d] = calls[d] /\ d < c
        BY <1>2, <1>3, <2>2, <3>2 DEF ClientInv, InOrder, C!Unused
      <4>2. \A e \in C!UnderWay' : e < d => e # c
        BY <4>1, CallsAreNumbers
      <4> QED BY <2>1, <2>2, <4>1, <4>2 DEF ClientInv, Undisturbed
    <3> QED BY <3>1, <3>2
  <2> QED BY <2>2 DEF Undisturbed
<1> QED BY <1>6, <1>7, <1>8, <1>9, <1>10 DEF ClientInv

\* The answer of a call is a call, and nowhere else.
LEMMA AnswerOf ==
  ASSUME ClientInv, NEW c \in C!Calls, calls[c].answer # None
  PROVE  /\ calls[c].answer \in C!Calls
         /\ calls[c].answer \notin InFlight
         /\ calls[c].answer # inHand.response
         /\ calls[calls[c].answer].phase = "sent"
         /\ \A d \in C!Calls : calls[d].answer = calls[c].answer => d = c
         /\ Matches(c, calls[c].answer)
<1>1. calls[c].answer \in C!Calls
  BY DEF ClientInv, ClientTypes, C!Call
<1> QED BY <1>1 DEF ClientInv, InOnePlace, NoneLater

\* Nothing but a registration changes what calls there are.
SameCalls ==
  \A c \in C!Calls :
    /\ calls'[c].type = calls[c].type /\ calls'[c].alone = calls[c].alone
    /\ calls'[c].phase = "unused" <=> calls[c].phase = "unused"
    /\ calls[c].phase = "unused" => calls'[c] = calls[c]

\* Then the order stays as it is.
LEMMA KeepsOrder ==
  ASSUME ClientInv, SameCalls,
         \A t \in Types : handlers'[t] \in {handlers[t], None},
         \A c \in expiring' : c \in C!Calls /\ calls[c].phase # "unused"
  PROVE  InOrder'
<1>1. ASSUME NEW t \in Types, NEW c \in C!Calls, handlers'[t] = c PROVE Latest(c, t)'
  <2>1. Latest(c, t)
    BY <1>1, CallsAreNumbers DEF ClientInv, InOrder
  <2> QED BY <2>1 DEF Latest, SameCalls
<1>2. \A c \in C!Calls : IF calls'[c].phase = "unused" THEN calls'[c] = C!Unused
                         ELSE calls'[c].type \in Types
  BY DEF ClientInv, InOrder, SameCalls
<1>3. \A c, d \in C!Calls : d <= c /\ calls'[c].phase # "unused" => calls'[d].phase # "unused"
  BY DEF ClientInv, InOrder, SameCalls
<1>4. \A c \in expiring' : calls'[c].phase # "unused"
  BY DEF SameCalls
<1> QED BY <1>1, <1>2, <1>3, <1>4 DEF InOrder

\* And when nothing is completed or taken, so does what was given.
LEMMA KeepsAnswers ==
  ASSUME ClientInv, SameCalls, inHand' = inHand,
         \A c \in C!Calls : calls'[c].answer = calls[c].answer,
         C!UnderWay' \subseteq C!UnderWay
  PROVE  NoneLater' /\ Undisturbed'
<1>1. ASSUME NEW c \in C!Calls, NEW d \in C!Calls, Matches(c, d)
      PROVE  Matches(c, d)'
  BY <1>1 DEF Matches, SameCalls
<1>2. inHand # C!Nothing =>
        /\ inHand'.handler \in C!Calls /\ inHand'.response \in C!Calls
        /\ Matches(inHand.handler, inHand.response)
        /\ calls'[inHand'.handler].phase # "unused"
  BY DEF ClientInv, ClientTypes, NoneLater, SameCalls
<1>3. \A c \in C!Calls : calls'[c].answer # None =>
        /\ calls'[c].answer \in C!Calls /\ Matches(c, calls[c].answer)
  BY DEF ClientInv, ClientTypes, NoneLater, C!Call
<1>4. NoneLater'
  <2>1. inHand # C!Nothing => Matches(inHand.handler, inHand.response)'
    BY <1>2 DEF Matches, SameCalls
  <2>2. \A c \in C!Calls : calls[c].answer # None => Matches(c, calls[c].answer)'
    BY <1>3 DEF Matches, SameCalls
  <2> QED BY <1>2, <2>1, <2>2 DEF NoneLater
<1>5. Undisturbed'
  <2>1. C!UnderWay \subseteq C!Calls
    BY DEF C!UnderWay
  <2> QED BY <2>1 DEF ClientInv, Undisturbed, SameCalls
<1> QED BY <1>4, <1>5

\* A request that is sent was neither on its way nor answered before.
LEMMA SendPacketClient ==
  ASSUME ClientInv, NEW c \in C!Calls, C!SendPacket(c)
  PROVE  ClientInv'
<1>1. /\ calls[c].phase = "registered"
      /\ UNCHANGED <<handlers, Responses, inHand, expiring>>
  BY DEF C!SendPacket
<1>2. PICK phase \in {"sent", "refused"} :
        /\ calls' = [calls EXCEPT ![c].phase = phase]
        /\ \/ requests' = requests
           \/ requests' = Append(requests, c) /\ phase = "sent"
  <2>1. CASE /\ calls' = [calls EXCEPT ![c].phase = "sent"]
             /\ requests' = IF socket = "open" THEN Append(requests, c) ELSE requests
    BY <2>1
  <2>2. CASE calls' = [calls EXCEPT ![c].phase = "refused"] /\ UNCHANGED requests
    BY <2>2
  <2> QED BY <2>1, <2>2 DEF C!SendPacket
<1>3. /\ calls[c] \in C!Call
      /\ calls'[c] = [calls[c] EXCEPT !.phase = phase]
      /\ \A d \in C!Calls : d # c => calls'[d] = calls[d]
  BY <1>2 DEF ClientInv, ClientTypes
<1>4. /\ calls'[c] \in C!Call /\ calls'[c].phase = phase
      /\ calls'[c].type = calls[c].type /\ calls'[c].alone = calls[c].alone
      /\ calls'[c].status = calls[c].status /\ calls'[c].answer = calls[c].answer
  BY <1>3 DEF C!Call
<1>5. /\ c \notin InFlight /\ c # inHand.response
      /\ \A d \in C!Calls : calls[d].answer # None => calls[d].answer # c
  BY <1>1 DEF ClientInv, InOnePlace
<1>6. /\ requests' \in Seq(C!Calls) /\ IsInjective(requests')
      /\ \/ Range(requests') = Range(requests)
         \/ Range(requests') = Range(requests) \cup {c} /\ phase = "sent"
  <2>1. requests \in Seq(C!Calls) /\ IsInjective(requests) /\ c \notin Range(requests)
    BY <1>5 DEF ClientInv, ClientTypes, InOnePlace, InFlight
  <2>2. /\ Append(requests, c) \in Seq(C!Calls) /\ IsInjective(Append(requests, c))
        /\ Range(Append(requests, c)) = Range(requests) \cup {c}
    BY <2>1, WithLast
  <2> QED BY <1>2, <2>1, <2>2
<1>7. SameCalls
  BY <1>1, <1>2, <1>3, <1>4 DEF SameCalls
<1>8. C!UnderWay' \subseteq C!UnderWay
  BY <1>1, <1>3, <1>4, <1>6 DEF C!UnderWay, C!Range, Range
<1>9. ClientTypes'
  BY <1>1, <1>2, <1>4, <1>6 DEF ClientInv, ClientTypes
<1>10. InOnePlace'
  <2>1. \/ InFlight' = InFlight
        \/ InFlight' = InFlight \cup {c} /\ phase = "sent"
    BY <1>1, <1>6 DEF InFlight
  <2>2. \A d \in C!Calls : calls'[d].answer = calls[d].answer /\ calls'[d].status = calls[d].status
    BY <1>3, <1>4
  <2>3. ASSUME NEW d \in C!Calls, d \in InFlight' \/ d = inHand'.response
        PROVE  calls'[d].phase = "sent"
    BY <1>1, <1>3, <1>4, <1>5, <2>1, <2>3 DEF ClientInv, InOnePlace
  <2>4. ASSUME NEW d \in C!Calls, calls[d].answer # None
        PROVE  /\ calls[d].answer \notin InFlight'
               /\ calls[d].answer # inHand.response
               /\ calls'[calls[d].answer].phase = "sent"
               /\ \A e \in C!Calls : calls[e].answer = calls[d].answer => e = d
    <3>1. calls[d].answer \in C!Calls /\ calls[d].answer # c
      BY <1>5, <2>4 DEF ClientInv, ClientTypes, C!Call
    <3> QED BY <1>3, <2>1, <2>4, <3>1 DEF ClientInv, InOnePlace
  <2>5. Range(requests') \cap Range(Responses') = {} /\ inHand'.response \notin InFlight'
    BY <1>1, <1>5, <1>6, <2>1 DEF ClientInv, InOnePlace, InFlight
  <2> QED BY <1>1, <1>6, <2>2, <2>3, <2>4, <2>5 DEF ClientInv, InOnePlace
<1>11. InOrder'
  BY <1>1, <1>7, KeepsOrder DEF ClientInv, ClientTypes, InOrder
<1>12. NoneLater' /\ Undisturbed'
  <2>1. \A d \in C!Calls : calls'[d].answer = calls[d].answer
    BY <1>3, <1>4
  <2> QED BY <1>1, <1>7, <1>8, <2>1, KeepsAnswers
<1> QED BY <1>9, <1>10, <1>11, <1>12 DEF ClientInv

\* A timer completes a call with nothing.
LEMMA TimeoutClient ==
  ASSUME ClientInv, NEW c \in C!Calls, C!Timeout(c)
  PROVE  ClientInv'
<1>1. /\ calls[c].phase = "sent" /\ calls[c].status = "pending"
      /\ calls' = [calls EXCEPT ![c].status = "timed out"]
      /\ expiring' = expiring \cup {c}
      /\ UNCHANGED <<handlers, requests, Responses, inHand>>
  BY DEF C!Timeout
<1>2. /\ calls[c] \in C!Call
      /\ calls'[c] = [calls[c] EXCEPT !.status = "timed out"]
      /\ \A d \in C!Calls : d # c => calls'[d] = calls[d]
  BY <1>1 DEF ClientInv, ClientTypes
<1>3. /\ calls'[c] \in C!Call /\ calls'[c].status = "timed out"
      /\ calls'[c].type = calls[c].type /\ calls'[c].alone = calls[c].alone
      /\ calls'[c].phase = calls[c].phase /\ calls'[c].answer = calls[c].answer
  BY <1>2 DEF C!Call
<1>4. SameCalls
  BY <1>1, <1>2, <1>3 DEF SameCalls
<1>5. C!UnderWay' \subseteq C!UnderWay
  BY <1>1, <1>2, <1>3 DEF C!UnderWay
<1>6. /\ ClientTypes'
      /\ \A d \in expiring' : d \in C!Calls /\ calls[d].phase # "unused"
  BY <1>1, <1>3 DEF ClientInv, ClientTypes, InOrder
<1>7. /\ InFlight' = InFlight
      /\ \A d \in C!Calls : calls'[d].answer = calls[d].answer /\ calls'[d].phase = calls[d].phase
      /\ calls[c].answer = None
  BY <1>1, <1>2, <1>3 DEF ClientInv, InOnePlace, InFlight
<1>8. \A d \in C!Calls : calls'[d].status = "answered" <=> calls'[d].answer # None
  <2>1. \A d \in C!Calls : calls[d].status = "answered" <=> calls[d].answer # None
    BY DEF ClientInv, InOnePlace
  <2> QED BY <1>2, <1>3, <1>7, <2>1
<1>9. \A d \in C!Calls : calls[d].answer \in C!Calls \cup {None}
  BY DEF ClientInv, ClientTypes, C!Call
<1>10. InOnePlace'
  <2>1. ASSUME NEW d \in C!Calls, calls'[d].answer # None
        PROVE  /\ calls'[d].answer \notin InFlight'
               /\ calls'[d].answer # inHand'.response
               /\ calls'[calls'[d].answer].phase = "sent"
               /\ \A e \in C!Calls : calls'[e].answer = calls'[d].answer => e = d
    <3>1. calls[d].answer # None /\ calls'[d].answer = calls[d].answer
      BY <1>7, <2>1
    <3>2. /\ calls[d].answer \in C!Calls /\ calls[d].answer \notin InFlight
          /\ calls[d].answer # inHand.response
          /\ calls[calls[d].answer].phase = "sent"
          /\ \A e \in C!Calls : calls[e].answer = calls[d].answer => e = d
      BY <3>1, AnswerOf
    <3>3. \A e \in C!Calls : calls'[e].answer = calls'[d].answer => e = d
      BY <1>7, <3>1, <3>2
    <3>4. calls'[calls'[d].answer].phase = "sent"
      BY <1>7, <3>1, <3>2
    <3>5. calls'[d].answer \notin InFlight' /\ calls'[d].answer # inHand'.response
      <4>1. inHand' = inHand /\ InFlight' = InFlight
        BY <1>1, <1>7
      <4> QED BY <3>1, <3>2, <4>1
    <3> QED BY <3>3, <3>4, <3>5
  <2>2. \A d \in C!Calls : d \in InFlight' \/ d = inHand'.response => calls'[d].phase = "sent"
    BY <1>1, <1>7 DEF ClientInv, InOnePlace
  <2>3. /\ IsInjective(requests') /\ IsInjective(Responses')
        /\ Range(requests') \cap Range(Responses') = {} /\ inHand'.response \notin InFlight'
    BY <1>1, <1>7 DEF ClientInv, InOnePlace
  <2> QED BY <1>8, <2>1, <2>2, <2>3 DEF InOnePlace
<1> QED BY <1>1, <1>4, <1>5, <1>6, <1>7, <1>10, KeepsOrder, KeepsAnswers DEF ClientInv

\* What only removes handlers and moves responses on changes no call.
LEMMA MovesOn ==
  ASSUME ClientInv, UNCHANGED <<calls, inHand>>, expiring' \subseteq expiring,
         handlers' \in [Types -> C!Calls \cup {None}],
         \A t \in Types : handlers'[t] \in {handlers[t], None},
         requests' \in Seq(C!Calls), Responses' \in Seq(C!Calls),
         IsInjective(requests'), IsInjective(Responses'),
         Range(requests') \cap Range(Responses') = {}, InFlight' \subseteq InFlight
  PROVE  ClientInv'
<1>1. SameCalls
  BY DEF SameCalls
<1>2. C!UnderWay' \subseteq C!UnderWay
  BY DEF C!UnderWay, InFlight, C!Range, Range
<1>3. ClientTypes'
  BY DEF ClientInv, ClientTypes
<1>4. InOnePlace'
  BY DEF ClientInv, InOnePlace
<1>5. \A c \in expiring' : c \in C!Calls /\ calls[c].phase # "unused"
  BY DEF ClientInv, ClientTypes, InOrder
<1> QED BY <1>1, <1>2, <1>3, <1>4, <1>5, KeepsOrder, KeepsAnswers DEF ClientInv

\* The timer of one call removes the handler of whichever call of its type.
LEMMA RemoveHandlerClient ==
  ASSUME ClientInv, NEW c \in C!Calls, C!RemoveHandler(c)
  PROVE  ClientInv'
<1>1. /\ expiring' = expiring \ {c}
      /\ handlers' = [handlers EXCEPT ![calls[c].type] = None]
      /\ UNCHANGED <<calls, requests, Responses, inHand>>
  BY DEF C!RemoveHandler
<1>2. /\ handlers' \in [Types -> C!Calls \cup {None}]
      /\ \A t \in Types : handlers'[t] \in {handlers[t], None}
  BY <1>1 DEF ClientInv, ClientTypes
<1>3. /\ requests' \in Seq(C!Calls) /\ Responses' \in Seq(C!Calls)
      /\ IsInjective(requests') /\ IsInjective(Responses')
      /\ Range(requests') \cap Range(Responses') = {} /\ InFlight' = InFlight
  BY <1>1 DEF ClientInv, ClientTypes, InOnePlace, InFlight
<1> QED BY <1>1, <1>2, <1>3, MovesOn

\* A request that is handled leaves, at most, one response.
LEMMA RespondClient ==
  ASSUME ClientInv, C!Respond
  PROVE  ClientInv'
<1> DEFINE c == Head(requests)
<1>1. /\ requests # << >> /\ requests' = Tail(requests)
      /\ Responses' = Append(Responses, c) \/ Responses' = Responses
      /\ UNCHANGED <<calls, handlers, inHand, expiring>>
  BY DEF C!Respond
<1>2. /\ requests \in Seq(C!Calls) /\ IsInjective(requests)
      /\ Responses \in Seq(C!Calls) /\ IsInjective(Responses)
      /\ Range(requests) \cap Range(Responses) = {}
  BY DEF ClientInv, ClientTypes, InOnePlace
<1>3. /\ c \in Range(requests) /\ c \in C!Calls
      /\ Range(requests') = Range(requests) \ {c}
      /\ IsInjective(requests') /\ requests' \in Seq(C!Calls)
  BY <1>1, <1>2, WithoutHead
<1>4. /\ Append(Responses, c) \in Seq(C!Calls)
      /\ Range(Append(Responses, c)) = Range(Responses) \cup {c}
      /\ IsInjective(Append(Responses, c))
  BY <1>2, <1>3, WithLast
<1> HIDE DEF c
<1>5. /\ Responses' \in Seq(C!Calls) /\ IsInjective(Responses')
      /\ Range(Responses') \subseteq Range(Responses) \cup {c}
  BY <1>1, <1>2, <1>4
<1>6. /\ handlers' \in [Types -> C!Calls \cup {None}]
      /\ \A t \in Types : handlers'[t] \in {handlers[t], None}
      /\ UNCHANGED <<calls, inHand>> /\ expiring' \subseteq expiring
  BY <1>1 DEF ClientInv, ClientTypes
<1>7. /\ Range(requests') \cap Range(Responses') = {}
      /\ InFlight' \subseteq InFlight
  BY <1>2, <1>3, <1>5 DEF InFlight
<1> QED BY <1>3, <1>5, <1>6, <1>7, MovesOn

\* The end of the link, or of the client's interest in it, changes no call.
LEMMA LinkClient ==
  ASSUME ClientInv, C!LoseLink \/ C!Disconnect
  PROVE  ClientInv'
<1>1. UNCHANGED <<calls, handlers, requests, Responses, inHand, expiring>>
  BY DEF C!LoseLink, C!Disconnect
<1>2. /\ requests' \in Seq(C!Calls) /\ Responses' \in Seq(C!Calls)
      /\ IsInjective(requests') /\ IsInjective(Responses')
      /\ Range(requests') \cap Range(Responses') = {} /\ InFlight' = InFlight
      /\ handlers' \in [Types -> C!Calls \cup {None}]
  BY <1>1 DEF ClientInv, ClientTypes, InOnePlace, InFlight
<1> QED BY <1>1, <1>2, MovesOn

\* The handler that is given a response is of the last call of its type.
LEMMA ReceiveClient ==
  ASSUME ClientInv, C!Receive
  PROVE  ClientInv'
<1> DEFINE r == Head(Responses)
           t == calls[r].type
<1>1. /\ Responses # << >> /\ Responses' = Tail(Responses)
      /\ inHand = C!Nothing
      /\ inHand' = IF handlers[t] = None THEN C!Nothing
                   ELSE [handler |-> handlers[t], response |-> r]
      /\ handlers' = [handlers EXCEPT ![t] = None]
      /\ UNCHANGED <<calls, requests, expiring>>
  BY DEF C!Receive, C!Take
<1>2. /\ requests \in Seq(C!Calls) /\ IsInjective(requests)
      /\ Responses \in Seq(C!Calls) /\ IsInjective(Responses)
      /\ Range(requests) \cap Range(Responses) = {}
  BY DEF ClientInv, ClientTypes, InOnePlace
<1>3. /\ r \in Range(Responses) /\ r \in C!Calls
      /\ Range(Responses') = Range(Responses) \ {r}
      /\ IsInjective(Responses') /\ Responses' \in Seq(C!Calls)
  BY <1>1, <1>2, WithoutHead
<1>4. r \in InFlight /\ InFlight' = InFlight \ {r}
  BY <1>1, <1>2, <1>3 DEF InFlight
<1>5. calls[r].phase = "sent" /\ t \in Types
  BY <1>3, <1>4 DEF ClientInv, InOnePlace, InOrder
<1> HIDE DEF r
<1>6. /\ handlers' \in [Types -> C!Calls \cup {None}]
      /\ \A u \in Types : handlers'[u] \in {handlers[u], None}
      /\ handlers[t] \in C!Calls \cup {None}
  BY <1>1, <1>5 DEF ClientInv, ClientTypes
<1>7. inHand'.response \in {None, r}
  BY <1>1 DEF C!Nothing
<1>8. SameCalls
  BY <1>1 DEF SameCalls
<1>9. ClientTypes'
  <2>1. inHand' = C!Nothing \/ inHand' \in [handler : C!Calls, response : C!Calls]
    BY <1>1, <1>3, <1>6
  <2> QED BY <1>1, <1>2, <1>3, <1>6, <2>1 DEF ClientInv, ClientTypes
<1>10. InOnePlace'
  <2>1. inHand'.response \notin InFlight'
    <3>1. None \notin InFlight
      <4>1. \A c \in InFlight : c \in C!Calls
        BY <1>2 DEF InFlight, Range
      <4> QED BY <4>1, CallsAreNumbers
    <3> QED BY <1>4, <1>7, <3>1
  <2>2. ASSUME NEW c \in C!Calls
        PROVE  /\ c \in InFlight' \/ c = inHand'.response => calls[c].phase = "sent"
               /\ calls[c].status = "answered" <=> calls[c].answer # None
    BY <1>4, <1>5, <1>7, CallsAreNumbers DEF ClientInv, InOnePlace
  <2>3. ASSUME NEW c \in C!Calls, calls[c].answer # None
        PROVE  /\ calls[c].answer \notin InFlight'
               /\ calls[c].answer # inHand'.response
               /\ calls[calls[c].answer].phase = "sent"
               /\ \A d \in C!Calls : calls[d].answer = calls[c].answer => d = c
    BY <1>4, <1>7, <2>3 DEF ClientInv, InOnePlace
  <2> QED BY <1>1, <1>2, <1>3, <2>1, <2>2, <2>3 DEF InOnePlace
<1>11. InOrder'
  <2>1. \A c \in expiring' : c \in C!Calls /\ calls[c].phase # "unused"
    BY <1>1 DEF ClientInv, ClientTypes, InOrder
  <2> QED BY <1>6, <1>8, <2>1, KeepsOrder
<1>12. NoneLater'
  <2>1. ASSUME handlers[t] # None
        PROVE  Matches(handlers[t], r) /\ calls[handlers[t]].phase # "unused"
    <3>1. handlers[t] \in C!Calls /\ Latest(handlers[t], t)
      BY <1>5, <1>6, <2>1 DEF ClientInv, InOrder
    <3> QED BY <1>3, <1>5, <3>1 DEF Latest, Matches
  <2>2. inHand' # C!Nothing =>
          /\ Matches(inHand'.handler, inHand'.response)
          /\ calls[inHand'.handler].phase # "unused"
    BY <1>1, <2>1
  <2>3. \A c \in C!Calls : calls[c].answer # None => Matches(c, calls[c].answer)
    BY DEF ClientInv, NoneLater
  <2> QED BY <1>1, <2>2, <2>3 DEF NoneLater, Matches
<1>13. Undisturbed'
  <2>1. C!UnderWay' \subseteq C!UnderWay
    <3>1. \A c \in C!UnderWay' : c \in C!Calls /\ (calls[c].phase = "registered" \/ c \in InFlight' \/ c = inHand'.response)
      BY <1>1 DEF C!UnderWay, InFlight, C!Range, Range
    <3>2. \A c \in C!Calls : calls[c].phase = "registered" \/ c \in InFlight => c \in C!UnderWay
      BY DEF C!UnderWay, InFlight, C!Range, Range
    <3> QED BY <1>4, <1>7, <3>1, <3>2, CallsAreNumbers
  <2>2. C!UnderWay \subseteq C!Calls
    BY DEF C!UnderWay
  <2> QED BY <1>1, <2>1, <2>2 DEF ClientInv, Undisturbed
<1> QED BY <1>9, <1>10, <1>11, <1>12, <1>13 DEF ClientInv

\* What completes a call is in no other place, and of no call that came after
\* it or, if the call was alone, before it.
LEMMA InvokeClient ==
  ASSUME ClientInv, C!Invoke
  PROVE  ClientInv'
<1> DEFINE h == inHand.handler
           r == inHand.response
<1>1. /\ inHand # C!Nothing /\ calls' = C!Completes(h, r) /\ inHand' = C!Nothing
      /\ UNCHANGED <<handlers, requests, Responses, expiring>>
  BY DEF C!Invoke
<1>2. /\ h \in C!Calls /\ r \in C!Calls /\ Matches(h, r)
      /\ calls[h].phase # "unused" /\ r \notin InFlight
      /\ calls[h] \in C!Call /\ inHand'.response = None
      /\ calls[r].phase = "sent"
  BY <1>1 DEF ClientInv, ClientTypes, InOnePlace, NoneLater, C!Nothing
<1>3. \A c \in C!Calls : calls[c].answer # None => calls[c].answer # r
  BY DEF ClientInv, InOnePlace
<1>4. r \in C!UnderWay
  BY <1>2 DEF C!UnderWay
<1>5. C!UnderWay' \subseteq C!UnderWay /\ C!UnderWay \subseteq C!Calls
  <2>1. \A c \in C!Calls : calls'[c].phase = calls[c].phase
    BY <1>1, <1>2 DEF C!Completes, ClientInv, ClientTypes, C!Call
  <2> QED BY <1>1, <1>2, <2>1, CallsAreNumbers DEF C!UnderWay, C!Range, Range
<1> HIDE DEF h, r
<1>6. CASE calls[h].status # "pending"
  <2>1. calls' = calls
    BY <1>1, <1>6 DEF C!Completes
  <2>2. ClientTypes' /\ InOrder'
    BY <1>1, <2>1, KeepsOrder DEF ClientInv, ClientTypes, InOrder, SameCalls
  <2>3. NoneLater' /\ Undisturbed'
    <3>1. \A c \in C!Calls : calls[c].answer # None => Matches(c, calls[c].answer)
      BY DEF ClientInv, NoneLater
    <3> QED BY <1>1, <1>5, <2>1, <3>1 DEF ClientInv, NoneLater, Matches, Undisturbed
  <2>4. InOnePlace'
    <3>1. InFlight' = InFlight /\ None \notin InFlight
      <4>1. InFlight \subseteq C!Calls
        BY DEF ClientInv, ClientTypes, InFlight, Range
      <4> QED BY <1>1, <4>1, CallsAreNumbers DEF InFlight
    <3>2. \A c \in C!Calls : c # inHand'.response
      BY <1>2, CallsAreNumbers
    <3> QED BY <1>1, <1>2, <2>1, <3>1, <3>2 DEF ClientInv, InOnePlace
  <2> QED BY <2>2, <2>3, <2>4 DEF ClientInv
<1>7. CASE calls[h].status = "pending"
  <2>1. /\ calls' = [calls EXCEPT ![h].status = "answered", ![h].answer = r]
        /\ calls[h].answer = None
    BY <1>1, <1>2, <1>7 DEF C!Completes, ClientInv, InOnePlace
  <2>2. /\ \A c \in C!Calls : c # h => calls'[c] = calls[c]
        /\ calls'[h] = [calls[h] EXCEPT !.status = "answered", !.answer = r]
    BY <1>2, <2>1 DEF ClientInv, ClientTypes
  <2>3. /\ calls'[h] \in C!Call /\ calls'[h].status = "answered" /\ calls'[h].answer = r
        /\ calls'[h].type = calls[h].type /\ calls'[h].alone = calls[h].alone
        /\ calls'[h].phase = calls[h].phase
    BY <1>2, <2>2 DEF C!Call
  <2>4. SameCalls
    BY <1>2, <2>2, <2>3 DEF SameCalls
  <2>5. ClientTypes'
    BY <1>1, <2>1, <2>2, <2>3 DEF ClientInv, ClientTypes
  <2>6. InOrder'
    BY <1>1, <2>4, KeepsOrder DEF ClientInv, ClientTypes, InOrder
  <2>7. NoneLater'
    <3>1. ASSUME NEW c \in C!Calls, NEW d \in C!Calls, Matches(c, d) PROVE Matches(c, d)'
      BY <2>4, <3>1 DEF Matches, SameCalls
    <3>2. ASSUME NEW c \in C!Calls, calls'[c].answer # None
          PROVE  \E d \in C!Calls : calls'[c].answer = d /\ Matches(c, d)'
      <4>1. CASE c = h
        BY <1>2, <2>3, <3>1, <4>1
      <4>2. CASE c # h
        BY <2>2, <3>1, <3>2, <4>2, AnswerOf
      <4> QED BY <4>1, <4>2
    <3> QED BY <1>1, <3>2 DEF NoneLater, Matches
  <2>8. Undisturbed'
    <3>1. ASSUME calls[h].alone PROVE r = h
      BY <1>2, <1>4, <3>1, CallsAreNumbers DEF ClientInv, Undisturbed, Matches
    <3>2. ASSUME NEW c \in C!Calls, calls'[c].alone PROVE calls'[c].answer \in {None, c}
      BY <2>2, <2>3, <3>1, <3>2 DEF ClientInv, Undisturbed
    <3> QED BY <1>5, <2>4, <3>2 DEF ClientInv, Undisturbed, SameCalls
  <2>9. InOnePlace'
    <3>1. InFlight' = InFlight /\ InFlight \subseteq C!Calls
      BY <1>1 DEF ClientInv, ClientTypes, InFlight, Range
    <3>2. /\ IsInjective(requests') /\ IsInjective(Responses')
          /\ Range(requests') \cap Range(Responses') = {} /\ inHand'.response \notin InFlight'
      BY <1>1, <1>2, <3>1, CallsAreNumbers DEF ClientInv, InOnePlace
    <3>3. ASSUME NEW c \in C!Calls
          PROVE  /\ c \in InFlight' \/ c = inHand'.response => calls'[c].phase = "sent"
                 /\ calls'[c].status = "answered" <=> calls'[c].answer # None
      <4>1. c \in InFlight' \/ c = inHand'.response => calls[c].phase = "sent"
        BY <1>2, <3>1, CallsAreNumbers DEF ClientInv, InOnePlace
      <4>2. calls[c].status = "answered" <=> calls[c].answer # None
        BY DEF ClientInv, InOnePlace
      <4> QED BY <1>2, <2>2, <2>3, <4>1, <4>2, CallsAreNumbers
    <3>4. ASSUME NEW c \in C!Calls, calls'[c].answer # None
          PROVE  /\ calls'[c].answer \notin InFlight'
                 /\ calls'[c].answer # inHand'.response
                 /\ calls'[calls'[c].answer].phase = "sent"
                 /\ \A d \in C!Calls : calls'[d].answer = calls'[c].answer => d = c
      <4>1. CASE c = h
        BY <1>2, <1>3, <2>2, <2>3, <3>1, <4>1, CallsAreNumbers
      <4>2. CASE c # h
        <5>1. calls'[c] = calls[c] /\ calls[c].answer # None
          BY <2>2, <3>4, <4>2
        <5>2. /\ calls[c].answer \in C!Calls /\ calls[c].answer \notin InFlight
              /\ calls[calls[c].answer].phase = "sent"
              /\ \A d \in C!Calls : calls[d].answer = calls[c].answer => d = c
          BY <5>1, AnswerOf
        <5>3. calls'[calls[c].answer].phase = "sent"
          BY <2>2, <2>3, <5>2
        <5>4. calls[c].answer # r
          BY <1>3, <5>1
        <5>5. \A d \in C!Calls : calls'[d].answer = calls[c].answer => d = c
          BY <2>2, <2>3, <5>2, <5>4
        <5> QED BY <1>2, <3>1, <5>1, <5>2, <5>3, <5>5, CallsAreNumbers
      <4> QED BY <4>1, <4>2
    <3> QED BY <3>2, <3>3, <3>4 DEF InOnePlace
  <2> QED BY <2>5, <2>6, <2>7, <2>8, <2>9 DEF ClientInv
<1> QED BY <1>6, <1>7

\* ClientInv is kept by whatever a client, its server and its link do.
LEMMA NextClient ==
  ASSUME ClientInv, [C!Next]_(C!vars)
  PROVE  ClientInv'
<1>1. CASE UNCHANGED C!vars
  <2>1. UNCHANGED <<calls, handlers, requests, Responses, inHand, expiring>>
    BY <1>1 DEF C!vars
  <2>2. /\ InFlight' = InFlight /\ IsInjective(requests') /\ IsInjective(Responses')
        /\ Range(requests') \cap Range(Responses') = {}
        /\ requests' \in Seq(C!Calls) /\ Responses' \in Seq(C!Calls)
        /\ handlers' \in [Types -> C!Calls \cup {None}]
    BY <2>1 DEF ClientInv, ClientTypes, InOnePlace, InFlight
  <2> QED BY <2>1, <2>2, MovesOn
<1>2. CASE C!Next
  BY <1>2, RegisterClient, SendPacketClient, RemoveHandlerClient, TimeoutClient, RespondClient,
     LinkClient, ReceiveClient, InvokeClient DEF C!Next, C!Timers
<1> QED BY <1>1, <1>2

-----------------------------------------------------------------------------
(* The connection is the server and the network a client takes for granted. *)

\* What the receive thread has read has arrived, and a body that is read is
\* that of a request.
Linked ==
  /\ consumed \in 0..(Len(wire) \div 2)
  /\ reading = "body" => requests # << >>

WInv == CInv /\ Whole /\ Linked /\ ClientInv

\* A call of send that the I/O thread starts itself.
LEMMA CalledKeeps ==
  ASSUME Threads = {IO}, CInv, Whole, NEW p \in Packets, sending[IO] = Idle,
         sending' = [sending EXCEPT ![IO] = Called(p)],
         UNCHANGED <<socket, writeQueue, isWriting, writes, wire, sent, ends>>,
         reading' \in {"header", "body", "over"}
  PROVE  CInv' /\ Whole' /\ [CH!Next]_ChannelVars
<1>1. sending'[IO] = Called(p) /\ Called(p).at = "read" /\ Called(p).packet = p
  BY DEF CInv, ConnTypeOK, Called, Idle
<1>2. ConnTypeOK'
  BY DEF CInv, ConnTypeOK, Called, Idle
<1>3. Sending' /\ Attended' /\ FrontWrite'
  BY <1>1 DEF CInv, Sending, Attended, FrontWrite, Idle
<1> QED BY <1>2, <1>3, OthersWhole, OthersCut DEF CInv

\* The end of a sequence grows with it.
LEMMA SubSeqAppend ==
  ASSUME NEW S, NEW s \in Seq(S), NEW e \in S, NEW k \in 0..Len(s)
  PROVE  SubSeq(Append(s, e), k + 1, Len(s) + 1) = Append(SubSeq(s, k + 1, Len(s)), e)
<1> DEFINE t == Append(s, e)
           left == SubSeq(t, k + 1, Len(s) + 1)
           part == SubSeq(s, k + 1, Len(s))
<1>1. /\ t \in Seq(S) /\ Len(t) = Len(s) + 1 /\ Len(s) \in Nat
      /\ \A i \in 1..Len(s) : t[i] = s[i] /\ s[i] \in S
      /\ t[Len(s) + 1] = e
  OBVIOUS
<1> HIDE DEF t
<1>2. /\ left \in Seq(S) /\ Len(left) = Len(s) - k + 1
      /\ \A i \in 1..(Len(s) - k + 1) : left[i] = t[k + i]
  <2>1. \A i \in (k + 1)..(Len(s) + 1) : t[i] \in S
    BY <1>1
  <2> QED BY <1>1, <2>1
<1>3. /\ part \in Seq(S) /\ Len(part) = Len(s) - k
      /\ \A i \in 1..(Len(s) - k) : part[i] = s[k + i]
  <2>1. \A i \in (k + 1)..Len(s) : s[i] \in S
    BY <1>1
  <2> QED BY <1>1, <2>1
<1> HIDE DEF left, part
<1>4. /\ Append(part, e) \in Seq(S) /\ Len(Append(part, e)) = Len(s) - k + 1
      /\ \A i \in 1..(Len(s) - k) : Append(part, e)[i] = part[i]
      /\ Append(part, e)[Len(s) - k + 1] = e
  BY <1>3
<1>5. ASSUME NEW i \in 1..(Len(s) - k + 1) PROVE left[i] = Append(part, e)[i]
  <2>1. CASE i <= Len(s) - k
    <3>1. i \in 1..(Len(s) - k) /\ k + i \in 1..Len(s)
      BY <1>1, <2>1
    <3> QED BY <1>1, <1>2, <1>3, <1>4, <3>1
  <2>2. CASE i = Len(s) - k + 1
    <3>1. k + i = Len(s) + 1
      BY <1>1, <2>2
    <3> QED BY <1>1, <1>2, <1>4, <2>2, <3>1
  <2>3. i <= Len(s) - k \/ i = Len(s) - k + 1
    BY <1>1
  <2> QED BY <2>1, <2>2, <2>3
<1>6. left = Append(part, e)
  BY <1>2, <1>4, <1>5, SeqEqual
<1> QED BY <1>6 DEF left, part, t

\* What is on its way when nothing is being sent, and when something is.
LEMMA ResponsesAre ==
  ASSUME Threads = {IO}, CInv, Whole, Linked
  PROVE  LET after == SubSeq(sent, consumed + 1, Len(sent))
         IN  /\ after \in Seq(Packets)
             /\ sending[IO].at \in {"idle", "start"} => Responses = after
             /\ sending[IO].at \in {"read", "push"} =>
                  Responses = Append(after, sending[IO].packet)
<1> DEFINE after == SubSeq(sent, consumed + 1, Len(sent))
<1>1. /\ sent \in Seq(Packets) /\ Len(sent) \in Nat /\ Len(wire) \in Nat
      /\ consumed \in 0..Len(sent)
  <2>1. sent \in Seq(Packets) /\ Len(sent) \in Nat /\ Len(wire) \in Nat
    BY DEF CInv, ConnTypeOK
  <2> QED BY <2>1 DEF Whole, Carries, Linked
<1>2. after \in Seq(Packets)
  <2>1. \A i \in (consumed + 1)..Len(sent) : sent[i] \in Packets
    BY <1>1
  <2> QED BY <1>1, <2>1
<1>3. sending[IO].at \in {"idle", "start"} => Responses = after
  <2>1. ASSUME sending[IO].at \in {"idle", "start"} PROVE Responses = after \o << >>
    BY <2>1 DEF Responses
  <2>2. after \o << >> = after
    BY <1>2
  <2> QED BY <2>1, <2>2
<1>4. sending[IO].at \in {"read", "push"} => Responses = Append(after, sending[IO].packet)
  <2>1. ASSUME sending[IO].at \in {"read", "push"}
        PROVE  Responses = after \o <<sending[IO].packet>>
    BY <2>1 DEF Responses
  <2>2. sending[IO].at \in {"read", "push"} => sending[IO].packet \in Packets
    BY DEF CInv, Sending, Idle
  <2> QED BY <1>2, <2>1, <2>2, AppendIsConcat
<1> QED BY <1>2, <1>3, <1>4

\* Nothing is on its way that was not, and nothing comes in, when the
\* connection is at work.
LEMMA InternalStutters ==
  ASSUME Threads = {IO}, CInv, Whole, Linked, Internal, CInv', Whole', Linked', consumed' = consumed
  PROVE  Responses' = Responses
<1>1. CASE ReadFlag(IO)
  <2>1. /\ sent' = sent /\ sending[IO].at = "read" /\ sending'[IO].at = "push"
        /\ sending'[IO].packet = sending[IO].packet
    BY <1>1, ThreadsAssumption DEF ReadFlag, CInv, ConnTypeOK
  <2> QED BY <2>1 DEF Responses
<1>2. CASE Push(IO)
  <2> DEFINE p == sending[IO].packet
  <2>1. /\ sent' = Append(sent, p) /\ sending[IO].at = "push" /\ sending'[IO].at \in {"idle", "start"}
        /\ p \in Packets
    BY <1>2, ThreadsAssumption DEF Push, CInv, ConnTypeOK, Sending, Idle
  <2>2. /\ sent \in Seq(Packets) /\ Len(sent) \in Nat /\ consumed \in 0..Len(sent)
        /\ Append(sent, p) \in Seq(Packets) /\ Len(Append(sent, p)) = Len(sent) + 1
    <3>1. sent \in Seq(Packets) /\ Len(sent) \in Nat /\ Len(wire) \in Nat
      BY DEF CInv, ConnTypeOK
    <3> QED BY <2>1, <3>1 DEF Whole, Carries, Linked
  <2>3. Responses = Append(SubSeq(sent, consumed + 1, Len(sent)), p)
    BY <2>1, ResponsesAre
  <2>4. Responses' = SubSeq(Append(sent, p), consumed + 1, Len(sent) + 1) \o << >>
    BY <2>1, <2>2 DEF Responses
  <2> HIDE DEF p
  <2>5. SubSeq(Append(sent, p), consumed + 1, Len(sent) + 1)
        = Append(SubSeq(sent, consumed + 1, Len(sent)), p)
    BY <2>1, <2>2, SubSeqAppend
  <2>6. Append(SubSeq(sent, consumed + 1, Len(sent)), p) \in Seq(Packets)
    BY <2>1, ResponsesAre
  <2> QED BY <2>3, <2>4, <2>5, <2>6, ConcatEmptySeq
<1>3. CASE Start(IO)
  <2>1. sent' = sent /\ sending[IO].at = "start" /\ sending'[IO].at = "idle"
    BY <1>3, ThreadsAssumption DEF Start, CInv, ConnTypeOK, Idle
  <2> QED BY <2>1 DEF Responses
<1>4. ASSUME NEW i \in DOMAIN writes, Progress(i) \/ EndWrite(i) \/ FailWrite(i)
      PROVE  Responses' = Responses
  <2>1. UNCHANGED <<sent, sending>>
    BY <1>4 DEF Progress, EndWrite, FailWrite
  <2> QED BY <2>1 DEF Responses
<1>5. ASSUME NEW i \in DOMAIN writes, Absorb(i) PROVE Responses' = Responses
  BY <1>5 DEF Absorb, Responses
<1>6. CASE GiveUp
  BY <1>6 DEF GiveUp, Responses
<1> QED BY <1>1, <1>2, <1>3, <1>4, <1>5, <1>6 DEF Internal

\* The request that was read is handled, and what it is answered with joins
\* what is on its way.
LEMMA ReadRequestStep ==
  ASSUME Threads = {IO}, WInv, ReadRequest
  PROVE  CInv' /\ Whole' /\ Linked' /\ [CH!Next]_ChannelVars /\ C!Respond
<1> DEFINE c == Head(requests)
<1>1. /\ sending[IO] = Idle /\ reading = "body" /\ socket # "closed" /\ reading' = "header"
      /\ requests # << >> /\ requests' = Tail(requests)
      /\ \/ calls[c].type \in Answered /\ sending' = [sending EXCEPT ![IO] = Called(c)]
         \/ UNCHANGED sending
      /\ UNCHANGED <<socket, writeQueue, isWriting, writes, wire, sent, ends>>
      /\ UNCHANGED <<calls, handlers, inHand, expiring, connected, consumed>>
  BY DEF ReadRequest, Free, WInv, Linked, writeVars
<1>2. c \in Packets
  BY <1>1, PacketsAssumption DEF WInv, ClientInv, ClientTypes
<1> HIDE DEF c
<1>3. CASE UNCHANGED sending
  <2>1. Responses' = Responses
    BY <1>1, <1>3 DEF Responses
  <2>2. C!Respond
    BY <1>1, <2>1 DEF C!Respond
  <2>3. ReadBody
    BY <1>1, <1>3 DEF ReadBody, Free, writeVars
  <2> QED BY <1>1, <2>2, <2>3, ReadingKeeps DEF WInv, Linked
<1>4. CASE calls[c].type \in Answered /\ sending' = [sending EXCEPT ![IO] = Called(c)]
  <2>1. CInv' /\ Whole' /\ [CH!Next]_ChannelVars
    BY <1>1, <1>2, <1>4, CalledKeeps DEF WInv
  <2>2. Linked'
    BY <1>1 DEF WInv, Linked
  <2>3. sending'[IO].at = "read" /\ sending'[IO].packet = c /\ sending[IO].at = "idle"
    BY <1>1, <1>4, ThreadsAssumption DEF WInv, CInv, ConnTypeOK, Called, Idle
  <2>4. Responses = SubSeq(sent, consumed + 1, Len(sent)) /\ Responses \in Seq(Packets)
    BY <2>3, ResponsesAre DEF WInv
  <2>5. Responses' = SubSeq(sent, consumed + 1, Len(sent)) \o <<c>>
    BY <1>1, <2>3 DEF Responses
  <2>6. Responses' = Append(Responses, c)
    BY <1>2, <2>4, <2>5, AppendIsConcat
  <2>7. C!Respond
    BY <1>1, <1>4, <2>6 DEF C!Respond, c
  <2> QED BY <2>1, <2>2, <2>7
<1> QED BY <1>1, <1>3, <1>4

\* The frame that is read is the next response.
LEMMA ReceiveFrameStep ==
  ASSUME Threads = {IO}, WInv, ReceiveFrame
  PROVE  CInv' /\ Whole' /\ Linked' /\ [CH!Next]_ChannelVars /\ C!Receive
<1> DEFINE after == SubSeq(sent, consumed + 1, Len(sent))
<1>1. /\ consumed < Len(Frames) /\ consumed' = consumed + 1
      /\ C!Take(Frames[consumed + 1])
      /\ UNCHANGED connVars /\ requests' = requests
  BY DEF ReceiveFrame, C!Take
<1>2. UNCHANGED <<socket, reading, writeQueue, isWriting, sending, writes, wire, sent, ends>>
  BY <1>1 DEF connVars, writeVars
<1>3. /\ sent \in Seq(Packets) /\ Len(sent) \in Nat /\ wire \in Seq(Piece) /\ Len(wire) \in Nat
      /\ Carries(wire, sent) /\ Len(wire) \div 2 <= Len(sent) /\ Len(wire) \div 2 \in Nat
      /\ consumed \in Nat
  BY DEF WInv, CInv, ConnTypeOK, Whole, Carries, Linked
<1>4. Frames = [i \in 1..(Len(wire) \div 2) |-> sent[i]]
  BY <1>3, FramesAre DEF Frames
<1>5. Len(Frames) = Len(wire) \div 2
  BY <1>3, <1>4
<1>6. /\ consumed + 1 \in 1..Len(sent) /\ consumed + 1 \in 1..(Len(wire) \div 2)
      /\ Frames[consumed + 1] = sent[consumed + 1]
  BY <1>1, <1>3, <1>4, <1>5
<1>7. CInv' /\ Whole' /\ [CH!Next]_ChannelVars
  <2>1. CInv'
    BY <1>2 DEF WInv, CInv, ConnTypeOK, Sending, Attended, FrontWrite
  <2> QED BY <1>2, <2>1, OthersWhole, OthersCut DEF WInv
<1>8. Linked'
  BY <1>1, <1>2, <1>3, <1>6 DEF WInv, Linked
<1>9. /\ after \in Seq(Packets) /\ after # << >> /\ Head(after) = sent[consumed + 1]
      /\ Tail(after) = SubSeq(sent, consumed + 2, Len(sent))
  <2>1. after \in Seq(Packets)
    BY ResponsesAre DEF WInv
  <2>2. Len(after) = Len(sent) - consumed
    <3>1. \A i \in (consumed + 1)..Len(sent) : sent[i] \in Packets
      BY <1>3, <1>6
    <3> QED BY <1>3, <1>6, <3>1
  <2>3. after # << >>
    <3> HIDE DEF after
    <3>1. after = << >> => Len(after) = 0
      OBVIOUS
    <3> QED BY <1>3, <1>6, <2>2, <3>1
  <2>4. Len(sent) \in (consumed + 1)..Len(sent) /\ (consumed + 1) + 1 = consumed + 2
    BY <1>3, <1>6
  <2>5. Head(after) = sent[consumed + 1] /\ Tail(after) = SubSeq(sent, (consumed + 1) + 1, Len(sent))
    BY <1>3, <1>6, <2>4, HeadTailOfSubSeq
  <2> QED BY <2>1, <2>3, <2>4, <2>5
<1> DEFINE rest == SubSeq(sent, consumed + 2, Len(sent))
<1>10. rest = SubSeq(sent', consumed' + 1, Len(sent'))
  <2>1. consumed' + 1 = consumed + 2
    BY <1>1, <1>3
  <2> QED BY <1>2, <2>1
<1> HIDE DEF after, rest
<1>11. rest \in Seq(Packets)
  <2>1. Tail(after) \in Seq(Packets)
    BY <1>9, HeadTailProperties
  <2> QED BY <1>9, <2>1 DEF rest
<1>12. /\ Responses # << >> /\ Head(Responses) = sent[consumed + 1]
       /\ Responses' = Tail(Responses)
  <2>1. sending[IO].at \in {"idle", "start", "read", "push"} /\ sending' = sending
    BY <1>2, ThreadsAssumption DEF WInv, CInv, ConnTypeOK
  <2>2. CASE sending[IO].at \in {"idle", "start"}
    <3>1. Responses = after
      BY <2>2, ResponsesAre DEF WInv, after
    <3>2. Responses' = rest \o << >>
      BY <1>10, <2>1, <2>2 DEF Responses
    <3> QED BY <1>9, <1>11, <3>1, <3>2, ConcatEmptySeq DEF rest
  <2>3. CASE sending[IO].at \in {"read", "push"}
    <3> DEFINE p == sending[IO].packet
    <3>1. Responses = Append(after, p) /\ p \in Packets
      BY <2>3, ResponsesAre DEF WInv, after, CInv, Sending, Idle
    <3>2. Responses' = rest \o <<p>>
      BY <1>10, <2>1, <2>3 DEF Responses
    <3> HIDE DEF p
    <3>3. /\ Head(Responses) = Head(after) /\ Responses # << >>
          /\ Tail(Responses) = Append(Tail(after), p)
      BY <1>9, <3>1, HeadTailAppend
    <3>4. Append(rest, p) = rest \o <<p>>
      BY <1>11, <3>1, AppendIsConcat
    <3> QED BY <1>9, <3>2, <3>3, <3>4 DEF rest
  <2> QED BY <2>1, <2>2, <2>3
<1>13. C!Receive
  BY <1>1, <1>2, <1>6, <1>12 DEF C!Receive
<1> QED BY <1>7, <1>8, <1>13

\* What leaves the server alone and is nothing the client sees.
LEMMA Unseen ==
  ASSUME UNCHANGED <<clientVars, sent, sending>>, (socket' = "open") = (socket = "open")
  PROVE  UNCHANGED C!vars
<1>1. Responses' = Responses
  BY DEF Responses, clientVars
<1> QED BY <1>1 DEF C!vars, clientVars

\* The end of the link is all a client sees of it.
LEMMA LinkLost ==
  ASSUME UNCHANGED <<clientVars, sent, sending>>, socket' # "open"
  PROVE  [C!Next]_(C!vars)
<1>1. CASE socket = "open"
  <2>1. Responses' = Responses
    BY DEF Responses, clientVars
  <2>2. C!LoseLink
    BY <1>1, <2>1 DEF C!LoseLink, clientVars
  <2> QED BY <2>2 DEF C!Next
<1>2. CASE socket # "open"
  BY <1>2, Unseen
<1> QED BY <1>1, <1>2

\* What the client does by itself is a step of Client that the connection
\* has no part in.
LEMMA LocalStep ==
  ASSUME Threads = {IO}, WInv, UNCHANGED <<connVars, consumed>>, Local
  PROVE  CInv' /\ Whole' /\ Linked' /\ [CH!Next]_ChannelVars /\ C!Next
<1>1. UNCHANGED <<socket, reading, writeQueue, isWriting, sending, writes, wire, sent, ends>>
  BY DEF connVars, writeVars
<1>2. CInv'
  BY <1>1 DEF WInv, CInv, ConnTypeOK, Sending, Attended, FrontWrite
<1>3. Whole' /\ [CH!Next]_ChannelVars
  BY <1>1, <1>2, OthersWhole, OthersCut DEF WInv
<1>4. requests' = requests \/ \E c \in C!Calls : requests' = Append(requests, c)
  <2>1. ASSUME NEW c \in C!Calls, C!SendPacket(c)
        PROVE  requests' = requests \/ requests' = Append(requests, c)
    BY <2>1 DEF C!SendPacket
  <2>2. ASSUME NEW c \in C!Calls, \/ \E t \in Types : C!Register(c, t)
                                  \/ C!RemoveHandler(c) \/ C!Timeout(c) \/ C!Invoke
        PROVE  requests' = requests
    BY <2>2 DEF C!Register, C!RemoveHandler, C!Timeout, C!Invoke
  <2>3. C!Invoke => requests' = requests
    BY DEF C!Invoke
  <2> QED BY <2>1, <2>2, <2>3 DEF Local, C!Timers
<1>5. requests # << >> => requests' # << >>
  <2>1. requests \in Seq(C!Calls)
    BY DEF WInv, ClientInv, ClientTypes
  <2> QED BY <1>4, <2>1
<1>6. Linked'
  BY <1>1, <1>5 DEF WInv, Linked
<1>7. C!Next
  BY DEF Local, C!Next
<1> QED BY <1>2, <1>3, <1>6, <1>7

\* WInv is kept, and every step of the client and its connection is one of
\* the channel and one of a client with the server it takes for granted.
LEMMA WireStep ==
  ASSUME Threads = {IO}, WInv, [WireNext]_wireVars
  PROVE  WInv' /\ [CH!Next]_ChannelVars /\ [C!Next]_(C!vars)
<1> SUFFICES CInv' /\ Whole' /\ Linked' /\ [CH!Next]_ChannelVars /\ [C!Next]_(C!vars)
  BY NextClient DEF WInv
<1>1. CASE UNCHANGED wireVars
  <2>1. /\ UNCHANGED <<socket, reading, writeQueue, isWriting, sending, writes, wire, sent, ends>>
        /\ UNCHANGED clientVars
    BY <1>1 DEF wireVars, connVars, writeVars
  <2>2. CInv'
    BY <2>1 DEF WInv, CInv, ConnTypeOK, Sending, Attended, FrontWrite
  <2>3. Linked'
    BY <2>1 DEF WInv, Linked, clientVars
  <2> QED BY <2>1, <2>2, <2>3, OthersWhole, OthersCut, Unseen DEF WInv
<1>2. CASE ServerRuns
  <2>1. CInv' /\ Whole' /\ [CH!Next]_ChannelVars
    BY <1>2, InternalKeeps DEF ServerRuns, WInv
  <2>2. /\ (socket' = "open") = (socket = "open")
        /\ UNCHANGED <<reading, clientVars>> /\ Len(wire) <= Len(wire')
    <3>1. Len(wire) \in Nat /\ wire \in Seq(Piece)
      BY DEF WInv, CInv, ConnTypeOK
    <3>2. (socket' = "open") = (socket = "open") /\ reading' = reading
      BY <1>2 DEF ServerRuns, Internal, ReadFlag, Push, Start, Progress, Absorb, EndWrite,
                  FailWrite, GiveUp, Known
    <3>3. wire' = wire \/ \E piece : wire' = Append(wire, piece)
      BY <1>2 DEF ServerRuns, Internal, ReadFlag, Push, Start, Progress, Absorb, EndWrite,
                  FailWrite, GiveUp
    <3> QED BY <1>2, <3>1, <3>2, <3>3 DEF ServerRuns
  <2>3. Linked'
    <3>1. Len(wire) \in Nat /\ Len(wire') \in Nat
      BY <2>1 DEF WInv, CInv, ConnTypeOK
    <3>2. Len(wire) \div 2 <= Len(wire') \div 2
      BY <2>2, <3>1
    <3> QED BY <2>2, <3>1, <3>2 DEF WInv, Linked, clientVars
  <2>4. Responses' = Responses
    BY <1>2, <2>1, <2>3, InternalStutters DEF ServerRuns, WInv, clientVars
  <2>5. UNCHANGED C!vars
    BY <2>2, <2>4 DEF C!vars, clientVars
  <2> QED BY <2>1, <2>3, <2>5
<1>3. CASE ReadRequestHeader
  <2>1. ReadHeader /\ requests # << >> /\ UNCHANGED clientVars
    BY <1>3 DEF ReadRequestHeader
  <2>2. UNCHANGED <<socket, wire, sent, sending>>
    BY <2>1 DEF ReadHeader
  <2>3. Linked'
    BY <2>1, <2>2 DEF WInv, Linked, clientVars
  <2> QED BY <2>1, <2>2, <2>3, ReadingKeeps, Unseen DEF WInv
<1>4. CASE ReadRequest
  BY <1>4, ReadRequestStep DEF C!Next
<1>5. CASE RefuseRequest
  <2>1. ReadOversized /\ UNCHANGED clientVars
    BY <1>5 DEF RefuseRequest
  <2>2. UNCHANGED <<wire, sent, sending>> /\ socket' = "closed" /\ reading' = "over"
    BY <2>1 DEF ReadOversized
  <2>3. Linked'
    BY <2>1, <2>2 DEF WInv, Linked, clientVars
  <2> QED BY <2>1, <2>2, <2>3, ReadingKeeps, LinkLost DEF WInv
<1>6. CASE EndOfStream
  <2>1. FailRead /\ UNCHANGED clientVars
    BY <1>6 DEF EndOfStream
  <2>2. UNCHANGED <<socket, wire, sent, sending>> /\ reading' = "over"
    BY <2>1 DEF FailRead
  <2>3. Linked'
    BY <2>1, <2>2 DEF WInv, Linked, clientVars
  <2> QED BY <2>1, <2>2, <2>3, ReadingKeeps, Unseen DEF WInv
<1>7. CASE (Break \/ Vanish) /\ UNCHANGED clientVars
  <2>1. UNCHANGED <<wire, sent, sending, reading>> /\ socket' # "open"
    BY <1>7 DEF Break, Vanish
  <2>2. Linked'
    BY <1>7, <2>1 DEF WInv, Linked, clientVars
  <2> QED BY <1>7, <2>1, <2>2, ReadingKeeps, LinkLost DEF WInv
<1>8. CASE UNCHANGED <<connVars, consumed>> /\ Local
  BY <1>8, LocalStep
<1>9. CASE ReceiveFrame
  BY <1>9, ReceiveFrameStep DEF C!Next
<1>10. CASE Disconnect
  <2>1. /\ connected /\ connected' = FALSE
        /\ socket' # "open" /\ socket' \in {"broken", socket}
        /\ UNCHANGED <<reading, writeQueue, isWriting, writes, sending, wire, sent, ends>>
        /\ UNCHANGED <<calls, handlers, requests, inHand, expiring, consumed>>
    BY <1>10 DEF Disconnect, writeVars
  <2>2. CInv'
    BY <2>1 DEF WInv, CInv, ConnTypeOK, Sending, Attended, FrontWrite
  <2>3. Whole' /\ [CH!Next]_ChannelVars
    BY <2>1, <2>2, OthersWhole, OthersCut DEF WInv
  <2>4. Linked'
    BY <2>1 DEF WInv, Linked
  <2>5. Responses' = Responses
    BY <2>1 DEF Responses
  <2>6. C!Disconnect
    BY <2>1, <2>5 DEF C!Disconnect
  <2> QED BY <2>2, <2>3, <2>4, <2>6 DEF C!Next
<1> QED BY <1>1, <1>2, <1>3, <1>4, <1>5, <1>6, <1>7, <1>8, <1>9, <1>10 DEF WireNext

\* Before anything is sent the two sides agree.
LEMMA InitWire == Threads = {IO} /\ WireInit => WInv /\ CH!Init
<1> SUFFICES ASSUME Threads = {IO}, WireInit PROVE WInv /\ CH!Init
  OBVIOUS
<1>1. CInv /\ Whole /\ CH!Init
  BY InitCInv, InitWhole DEF WireInit
<1>2. ClientInv
  BY InitClient DEF WireInit
<1>3. Linked
  BY DEF WireInit, ConnInit, Linked
<1> QED BY <1>1, <1>2, <1>3 DEF WInv

\* WInv is an invariant.
THEOREM WireInvariance ==
  ASSUME Threads = {IO}
  PROVE  WireSpec => []WInv
<1>1. WireInit => WInv
  BY InitWire
<1>2. WInv /\ [WireNext]_wireVars => WInv'
  BY WireStep
<1> QED BY <1>1, <1>2, PTL DEF WireSpec

\* With requests that come in at any time, also while what answers others is
\* being written: one write at a time, and none missing.
THEOREM WireOneWrite ==
  ASSUME Threads = {IO}
  PROVE  WireSpec => []OneWrite
<1>1. WInv => OneWrite
  BY DEF WInv, CInv, FrontWrite, Attended, OneWrite
<1> QED BY WireInvariance, <1>1, PTL

\* However many calls are made, and however handlers are replaced, removed by
\* the timers of others and handed over between threads: no response
\* completes two calls, and none one of another type or an earlier one.
THEOREM AnsweredOnceHolds ==
  ASSUME Threads = {IO}
  PROVE  WireSpec => []AnsweredOnce
<1>1. ASSUME WInv, NEW c \in C!Calls, calls[c].status = "answered"
      PROVE  LET d == calls[c].answer
             IN  /\ d <= c
                 /\ calls[d].type = calls[c].type
                 /\ \A e \in C!Calls : calls[e].answer = d => e = c
  <2>1. calls[c].answer # None
    BY <1>1 DEF WInv, ClientInv, InOnePlace
  <2> QED BY <1>1, <2>1, AnswerOf DEF WInv, Matches
<1>2. WInv => AnsweredOnce
  BY <1>1 DEF AnsweredOnce, C!AnsweredOnce
<1> QED BY WireInvariance, <1>2, PTL

\* A call made while nothing of its type is under way is never given the
\* response of another, whatever calls precede and follow it.
THEOREM OwnAnswerHolds ==
  ASSUME Threads = {IO}
  PROVE  WireSpec => []OwnAnswer
<1>1. WInv => OwnAnswer
  BY DEF WInv, ClientInv, InOnePlace, Undisturbed, OwnAnswer, C!OwnAnswer
<1> QED BY WireInvariance, <1>1, PTL

\* Every behaviour of the connection and the network is, to the client, one
\* of the server it takes for granted: requests handled in order, responses
\* that arrive whole, in order and once, until the link goes.
THEOREM WireIsClient ==
  ASSUME Threads = {IO}
  PROVE  WireSpec => ImplementsClient
<1>1. WireInit => WInv /\ C!Init
  BY InitWire DEF WireInit
<1>2. WInv /\ [WireNext]_wireVars => WInv' /\ [C!Next]_(C!vars)
  BY WireStep
<1> QED BY <1>1, <1>2, PTL DEF WireSpec, ImplementsClient, C!Spec

\* And what the server sends arrives whole, once and in order.
THEOREM WireIsChannel ==
  ASSUME Threads = {IO}
  PROVE  WireSpec => ChannelSteps
<1>1. WireInit => WInv /\ CH!Init
  BY InitWire
<1>2. WInv /\ [WireNext]_wireVars => WInv' /\ [CH!Next]_ChannelVars
  BY WireStep
<1> QED BY <1>1, <1>2, PTL DEF WireSpec, ChannelSteps

=============================================================================
