----------------------------- MODULE Connection -----------------------------
(***************************************************************************)
(* One connection of the server: src/network/Connection.cpp and what       *)
(* TCPServer.cpp adds to it.                                               *)
(*                                                                         *)
(* Its two loops are chains of completion handlers on the I/O thread;      *)
(* send is called by whatever thread has something to tell the client, and *)
(* is broken into its accesses of isWriting_ and writeQueue_, which no     *)
(* mutex protects.  A handler of the I/O thread is atomic otherwise.  The  *)
(* operating system takes a packet in two pieces, the length header and    *)
(* the payload.                                                            *)
(*                                                                         *)
(* Left out: the contents of packets, the buffers, and a front of an empty *)
(* queue after a race, which is Garbage here.                              *)
(***************************************************************************)
EXTENDS Naturals, SequencesExt

CONSTANTS
  Packets,   \* what the server may send, each of them at most once (bound)
  Threads,   \* the threads that call send
  IO,        \* the I/O thread, one of them
  Garbage    \* no packet, or none that anybody sent

ASSUME ThreadsAssumption == IO \in Threads
ASSUME GarbageAssumption == Garbage \notin Packets

VARIABLES
  socket,      \* "open"; "broken", when the peer is gone and the system
               \* says so; "closed" by disconnect(); "vanished", when the
               \* peer is gone without a word; "unanswered", when the
               \* system, besides, repeats what nobody acknowledges
  reading,     \* what the read loop waits for: "header", "body"; "over"
  writeQueue,  \* writeQueue_
  isWriting,   \* isWriting_
  sending,     \* per thread: how far its call of send has got
  writes,      \* the asynchronous writes in progress: packet, pieces left
  wire,        \* all pieces that left, in that order
  sent,        \* all packets pushed on the queue (history)
  ends         \* whether onDisconnect_ has been called

writeVars == <<writeQueue, isWriting, writes>>

connVars == <<socket, reading, writeQueue, isWriting, sending, writes, wire, sent, ends>>

Idle == [at |-> "idle", packet |-> Garbage, inProgress |-> FALSE]

\* The I/O thread runs one handler after the other.
Free == sending[IO] = Idle

ConnInit ==
  /\ socket = "open" /\ reading = "header"
  /\ writeQueue = << >> /\ isWriting = FALSE
  /\ sending = [t \in Threads |-> Idle]
  /\ writes = << >> /\ wire = << >>
  /\ sent = << >> /\ ends = FALSE

-----------------------------------------------------------------------------
(* Sending.                                                                *)

\* send(p) has been called.
Called(p) == [Idle EXCEPT !.at = "read", !.packet = p]

\* By a handler, of a packet that came in here or on another connection, or
\* by the matchmaker thread.
Send(t, p) ==
  /\ sending[t] = Idle
  /\ p \notin Range(sent) /\ \A u \in Threads : sending[u].packet # p
  /\ sending' = [sending EXCEPT ![t] = Called(p)]
  /\ UNCHANGED <<socket, reading, writeVars, wire, sent, ends>>

\* bool writeInProgress = isWriting_;
ReadFlag(t) ==
  /\ sending[t].at = "read"
  /\ sending' = [sending EXCEPT ![t].at = "push", ![t].inProgress = isWriting]
  /\ UNCHANGED <<socket, reading, writeVars, wire, sent, ends>>

Push(t) ==
  /\ sending[t].at = "push"
  /\ writeQueue' = Append(writeQueue, sending[t].packet)
  /\ sent' = Append(sent, sending[t].packet)
  /\ sending' = [sending EXCEPT ![t] = IF @.inProgress THEN Idle ELSE [@ EXCEPT !.at = "start"]]
  /\ UNCHANGED <<socket, reading, isWriting, writes, wire, ends>>

\* doWrite: an asynchronous write of the front of the queue.
Write(queue) ==
  [packet |-> IF queue = << >> THEN Garbage ELSE Head(queue), left |-> 2]

Start(t) ==
  /\ sending[t].at = "start"
  /\ isWriting' = TRUE
  /\ writes' = Append(writes, Write(writeQueue))
  /\ sending' = [sending EXCEPT ![t] = Idle]
  /\ UNCHANGED <<socket, reading, writeQueue, wire, sent, ends>>

\* The network takes the next piece of a packet.
Progress(i) ==
  /\ socket = "open"
  /\ i \in DOMAIN writes /\ writes[i].left > 0
  /\ writes' = [writes EXCEPT ![i].left = @ - 1]
  /\ wire' = Append(wire, [packet |-> writes[i].packet,
                           piece  |-> IF writes[i].left = 2 THEN "header" ELSE "payload"])
  /\ UNCHANGED <<socket, reading, writeQueue, isWriting, sending, sent, ends>>

\* A peer that is gone without a word: the system takes the piece, to send it
\* in vain.
Absorb(i) ==
  /\ socket \in {"vanished", "unanswered"}
  /\ i \in DOMAIN writes /\ writes[i].left > 0
  /\ writes' = [writes EXCEPT ![i].left = @ - 1]
  /\ socket' = "unanswered"
  /\ UNCHANGED <<reading, writeQueue, isWriting, sending, wire, sent, ends>>

\* The system gives up, and tells whoever reads or writes.
GiveUp ==
  /\ socket = "unanswered"
  /\ socket' = "broken"
  /\ UNCHANGED <<reading, writeVars, sending, wire, sent, ends>>

\* Faulty: what was queued in the meantime waits for the next call of send.
ContinueLater(i, rest) ==
  /\ isWriting' = FALSE
  /\ writes' = RemoveAt(writes, i)

\* Faulty: the next write is not marked.
ContinueUnmarked(i, rest) ==
  /\ isWriting' = FALSE
  /\ writes' = IF rest # << >> THEN Append(RemoveAt(writes, i), Write(rest))
               ELSE RemoveAt(writes, i)

\* On to what was queued in the meantime.
Continue(i, rest) ==
  IF rest # << >>
  THEN /\ isWriting' = TRUE
       /\ writes' = Append(RemoveAt(writes, i), Write(rest))
  ELSE /\ isWriting' = FALSE
       /\ writes' = RemoveAt(writes, i)

\* The completion of a write pops the front.
EndWrite(i) ==
  LET rest == IF writeQueue = << >> THEN << >> ELSE Tail(writeQueue)
  IN  /\ Free
      /\ i \in DOMAIN writes /\ writes[i].left = 0
      /\ writeQueue' = rest
      /\ Continue(i, rest)
      /\ UNCHANGED <<socket, reading, sending, wire, sent, ends>>

\* The system has told of the end of the connection.
Known == socket \in {"broken", "closed"}

\* A write that fails leaves the queue alone and calls onDisconnect_; the
\* read loop goes on.
FailWrite(i) ==
  /\ Free
  /\ Known
  /\ i \in DOMAIN writes /\ writes[i].left > 0
  /\ writes' = RemoveAt(writes, i)
  /\ isWriting' = FALSE
  /\ ends' = TRUE
  /\ UNCHANGED <<socket, reading, writeQueue, sending, wire, sent>>

-----------------------------------------------------------------------------
(* Reading.                                                                *)

\* A header with an acceptable length has come in, maybe before the peer left.
ReadHeader ==
  /\ Free
  /\ reading = "header" /\ socket # "closed"
  /\ reading' = "body"
  /\ UNCHANGED <<socket, writeVars, sending, wire, sent, ends>>

\* The packet is handled, or, if it does not parse, dropped.
ReadBody ==
  /\ Free
  /\ reading = "body" /\ socket # "closed"
  /\ reading' = "header"
  /\ UNCHANGED <<socket, writeVars, sending, wire, sent, ends>>

\* More than 1 MiB announced: the socket is closed and the loop ends.
ReadOversized ==
  /\ Free
  /\ reading = "header" /\ socket # "closed"
  /\ socket' = "closed"
  /\ reading' = "over"
  /\ ends' = TRUE
  /\ UNCHANGED <<writeVars, sending, wire, sent>>

\* Faulty: the end is only logged.
FailReadSilent ==
  /\ Free
  /\ reading # "over" /\ Known
  /\ reading' = "over"
  /\ UNCHANGED <<socket, writeVars, sending, wire, sent, ends>>

\* The end of the stream, in the middle of a packet or between two.  A read has
\* no deadline and the socket no keepalive: as long as the system does not know
\* of the end, it waits.
FailRead ==
  /\ Free
  /\ reading # "over" /\ Known
  /\ reading' = "over"
  /\ ends' = TRUE
  /\ UNCHANGED <<socket, writeVars, sending, wire, sent>>

\* The peer closes, or resets the connection, and the system hears of it.
Break ==
  /\ socket = "open"
  /\ socket' = "broken"
  /\ UNCHANGED <<reading, writeVars, sending, wire, sent, ends>>

\* The peer's machine or the network is gone and nothing comes in any more, no
\* acknowledgement either of what was sent before.
Vanish ==
  /\ socket = "open"
  /\ socket' \in {"vanished"} \cup (IF wire # << >> THEN {"unanswered"} ELSE {})
  /\ UNCHANGED <<reading, writeVars, sending, wire, sent, ends>>

-----------------------------------------------------------------------------

\* What goes on without anybody outside.
Internal ==
  \/ \E t \in Threads : ReadFlag(t) \/ Push(t) \/ Start(t)
  \/ \E i \in DOMAIN writes : Progress(i) \/ Absorb(i) \/ EndWrite(i) \/ FailWrite(i)
  \/ GiveUp

ConnNext ==
  \/ \E t \in Threads, p \in Packets : Send(t, p)
  \/ Internal
  \/ ReadHeader \/ ReadBody \/ ReadOversized \/ FailRead
  \/ Break \/ Vanish

ConnSpec == ConnInit /\ [][ConnNext]_connVars

\* Threads run, the system takes what it is given and does not repeat it for
\* ever, and the I/O thread looks at every connection that is ready.
ConnFairSpec == ConnSpec /\ WF_connVars(Internal) /\ WF_connVars(FailRead)

-----------------------------------------------------------------------------
(* Properties.                                                             *)

Piece == [packet : Packets \cup {Garbage}, piece : {"header", "payload"}]

\* The variables keep their types.
ConnTypeOK ==
  /\ socket \in {"open", "vanished", "unanswered", "broken", "closed"}
  /\ reading \in {"header", "body", "over"}
  /\ writeQueue \in Seq(Packets) /\ sent \in Seq(Packets)
  /\ isWriting \in BOOLEAN /\ ends \in BOOLEAN
  /\ sending \in [Threads -> [at : {"idle", "read", "push", "start"},
                              packet : Packets \cup {Garbage}, inProgress : BOOLEAN]]
  /\ writes \in Seq([packet : Packets \cup {Garbage}, left : 0..2])
  /\ wire \in Seq(Piece)

\* isWriting_ is all that keeps a second write from being started beside the
\* first, and the only sign that somebody will take care of the queue: it
\* says whether a write of the front is in progress, and without one nothing
\* is queued, unless the peer is gone or the write is about to be started.
OneWrite ==
  /\ Len(writes) = IF isWriting THEN 1 ELSE 0
  /\ isWriting => writeQueue # << >> /\ writes[1].packet = Head(writeQueue)
  /\ writeQueue # << >> /\ socket = "open" =>
       isWriting \/ \E t \in Threads : sending[t].at = "start"

\* "We send 4 bytes length header followed by the payload": every header is
\* followed by its own payload, and by nothing else.
Framed ==
  \A i \in DOMAIN wire :
    IF i % 2 = 1 THEN wire[i].piece = "header"
    ELSE wire[i] = [packet |-> wire[i - 1].packet, piece |-> "payload"]

\* What the peer reads: a header, and as much as it announces.
Frames ==
  [i \in 1..(Len(wire) \div 2) |->
     IF wire[2 * i] = [packet |-> wire[2 * i - 1].packet, piece |-> "payload"]
     THEN wire[2 * i].packet ELSE Garbage]

CH == INSTANCE Channel WITH arrived <- Frames, cut <- (socket # "open")

\* Whatever is sent while other writes are in progress or have just ended:
\* all of it arrives, whole, once and in order.
ImplementsChannel == CH!Spec

\* Somebody can find out that the peer is gone.
Noticeable ==
  \/ Known \/ socket = "unanswered"
  \/ socket = "vanished" /\ \E i \in DOMAIN writes : writes[i].left > 0

\* The disconnect handler is called in the end when the peer closes, and also
\* when it vanished and there is anything left to write to it, whichever of the
\* read and the write fails first, and even if the write does not.  Not in the
\* code's hands, and not claimed, is a peer that vanishes and is sent nothing.
EndNoticed == Noticeable ~> ends

=============================================================================
