-------------------------------- MODULE Wire --------------------------------
(***************************************************************************)
(* A client of the SDK and its connection on the server, together: what    *)
(* Client takes for granted of the server (requests handled in order,      *)
(* responses that arrive whole and in order) provided by Connection, when  *)
(* only the I/O thread sends.  A packet is the number of the call it is    *)
(* the request or the response of.                                         *)
(*                                                                         *)
(* Left out: events, which nobody awaits.                                  *)
(***************************************************************************)
EXTENDS Connection, Integers

CONSTANTS MaxCalls, Types, Answered, None   \* as in Client

VARIABLES
  calls, handlers, requests, inHand, expiring, connected,   \* as in Client
  consumed   \* how many frames the receive thread has read

clientVars == <<calls, handlers, requests, inHand, expiring, connected, consumed>>

wireVars == <<connVars, clientVars>>

\* On their way: in the call of send that is going on, queued, being written
\* or written.
Responses ==
  SubSeq(sent, consumed + 1, Len(sent))
    \o (IF sending[IO].at \in {"read", "push"} THEN <<sending[IO].packet>> ELSE << >>)

C == INSTANCE Client WITH responses <- Responses, link <- (socket = "open")

ASSUME PacketsAssumption == Packets = C!Calls
ASSUME MaxCallsAssumption == MaxCalls \in Nat
ASSUME TypesAssumption    == Answered \subseteq Types /\ None \notin Types
ASSUME NoneAssumption     == None \notin Int

WireInit ==
  /\ ConnInit
  /\ consumed = 0
  /\ C!Init

-----------------------------------------------------------------------------

\* A header has come in.
ReadRequestHeader ==
  /\ requests # << >>
  /\ ReadHeader
  /\ UNCHANGED clientVars

\* Faulty: the packet is handled again.
ReadRequestAgain ==
  /\ Free
  /\ reading = "body" /\ socket # "closed"
  /\ reading' = "header"
  /\ \/ /\ calls[Head(requests)].type \in Answered
        /\ sending' = [sending EXCEPT ![IO] = Called(Head(requests))]
     \/ UNCHANGED sending
  /\ UNCHANGED <<socket, writeVars, wire, sent, ends, clientVars>>

\* The rest has come in: the handler calls send, or does not answer.
ReadRequest ==
  /\ Free
  /\ reading = "body" /\ socket # "closed"
  /\ reading' = "header"
  /\ requests' = Tail(requests)
  /\ \/ /\ calls[Head(requests)].type \in Answered
        /\ sending' = [sending EXCEPT ![IO] = Called(Head(requests))]
     \/ UNCHANGED sending
  /\ UNCHANGED <<socket, writeVars, wire, sent, ends>>
  /\ UNCHANGED <<calls, handlers, inHand, expiring, connected, consumed>>

\* The request has more than 1 MiB.
RefuseRequest ==
  /\ requests # << >>
  /\ ReadOversized
  /\ UNCHANGED clientVars

\* Faulty: what was read is not taken from the stream.
ReceiveAgain ==
  /\ consumed < Len(Frames)
  /\ UNCHANGED <<consumed, connVars>>
  /\ C!Take(Frames[consumed + 1])

\* The receive thread has read a header and what it announces.
ReceiveFrame ==
  /\ consumed < Len(Frames)
  /\ consumed' = consumed + 1
  /\ C!Take(Frames[consumed + 1])
  /\ UNCHANGED connVars

\* The application, or the end of the stream, closes the socket.
Disconnect ==
  /\ connected
  /\ connected' = FALSE
  /\ socket' = IF socket = "open" THEN "broken" ELSE socket
  /\ UNCHANGED <<reading, writeVars, sending, wire, sent, ends>>
  /\ UNCHANGED <<calls, handlers, requests, inHand, expiring, consumed>>

\* What a client does without the network.
Local ==
  \/ \E c \in C!Calls :
       \/ \E t \in Types : C!Register(c, t)
       \/ C!SendPacket(c)
       \/ C!RemoveHandler(c)
  \/ C!Timers
  \/ C!Invoke

ServerRuns == Internal /\ UNCHANGED clientVars

EndOfStream == FailRead /\ UNCHANGED clientVars

WireNext ==
  \/ ServerRuns
  \/ ReadRequestHeader \/ ReadRequest \/ RefuseRequest
  \/ EndOfStream
  \/ (Break \/ Vanish) /\ UNCHANGED clientVars
  \/ UNCHANGED <<connVars, consumed>> /\ Local
  \/ ReceiveFrame
  \/ Disconnect

WireSpec == WireInit /\ [][WireNext]_wireVars

\* The fairness of the two sides.
WireFairSpec ==
  /\ WireSpec
  /\ WF_wireVars(ServerRuns) /\ WF_wireVars(EndOfStream)
  /\ \A c \in C!Calls : WF_wireVars(UNCHANGED <<connVars, consumed>> /\ C!Timeout(c))

-----------------------------------------------------------------------------
(* Properties: those of the two sides, and                                 *)

\* No response is shared by two calls or given to an earlier one, as seen
\* by the client; see Client.
AnsweredOnce == C!AnsweredOnce

\* A call made while nothing of its type is under way gets its own response
\* or none; see Client.
OwnAnswer == C!OwnAnswer

\* Every request that was sent is completed, by a response or the timer; see
\* Client.
Completed == C!Completed

\* The connection and the network are, to a client, the server it takes for
\* granted, whatever is queued, half written or lost when the link goes.
ImplementsClient == C!Spec

=============================================================================
