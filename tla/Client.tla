------------------------------- MODULE Client -------------------------------
(***************************************************************************)
(* The C# SDK (sdk/ArenaNet.SDK/ArenaNetClient.cs): calls that send a      *)
(* request and await the response, matched by packet type alone.           *)
(*                                                                         *)
(* Calls are made from any thread of the application; the receive thread   *)
(* and the timers of the thread pool complete them.  What shares           *)
(* _responseHandlers is one action per access.  The server is here as far  *)
(* as a client sees it: it takes requests in the order they were sent and  *)
(* its responses arrive in the order they were given.                      *)
(*                                                                         *)
(* Left out: the text of packets, events that are not awaited, what the    *)
(* services do with a response, and a second ConnectAsync on one client.   *)
(***************************************************************************)
EXTENDS Integers, SequencesExt

CONSTANTS
  MaxCalls,   \* bound: the number of calls made
  Types,      \* the response types calls wait for
  Answered,   \* the types the server sends; the others are numbers on which
              \* the SDK and Packet.h disagree (53 for a list of friends)
  None        \* no call

Calls == 1..MaxCalls

Call == [type   : Types \cup {None},
         phase  : {"unused", "registered", "sent", "refused"},
         status : {"pending", "answered", "timed out"},
         answer : Calls \cup {None},  \* the call whose response completed it
         alone  : BOOLEAN]            \* nothing of its type was under way
                                      \* when it was registered (history)

VARIABLES
  calls,      \* the calls, in the order of registration
  handlers,   \* _responseHandlers: the call registered for each type
  requests,   \* the calls whose requests are on their way to the server
  responses,  \* the calls whose responses are on their way back
  inHand,     \* the response the receive thread passes to a handler
  expiring,   \* calls whose timer has yet to remove the handler
  connected,  \* IsConnected, until Disconnect
  link        \* FALSE once nothing passes the network any more

vars == <<calls, handlers, requests, responses, inHand, expiring, connected, link>>

Nothing == [handler |-> None, response |-> None]

Unused == [type |-> None, phase |-> "unused", status |-> "pending",
           answer |-> None, alone |-> FALSE]

Init ==
  /\ calls = [c \in Calls |-> Unused]
  /\ handlers = [t \in Types |-> None]
  /\ requests = << >> /\ responses = << >>
  /\ inHand = Nothing
  /\ expiring = {}
  /\ connected = TRUE /\ link = TRUE

\* Calls whose response is still to come, or would be, had they been sent.
UnderWay ==
  {c \in Calls : \/ calls[c].phase = "registered"
                 \/ c \in Range(requests) \cup Range(responses)
                 \/ inHand.response = c}

-----------------------------------------------------------------------------
(* SendAndAwaitResponseAsync.                                              *)

\* Faulty: a handler already there is kept.
RegisterFirst(c, t) == IF handlers[t] = None THEN c ELSE handlers[t]

\* The handler replaces one that is there for the type.
Handler(c, t) == c

Register(c, t) ==
  /\ calls[c].phase = "unused"
  /\ \A d \in 1..(c - 1) : calls[d].phase # "unused"
  /\ calls' = [calls EXCEPT ![c] =
                 [Unused EXCEPT !.type  = t,
                                !.phase = "registered",
                                !.alone = \A d \in UnderWay : calls[d].type # t]]
  /\ handlers' = [handlers EXCEPT ![t] = Handler(c, t)]
  /\ UNCHANGED <<requests, responses, inHand, expiring, connected, link>>

\* SendPacket throws when not connected, and may when the network is gone,
\* or the request is lost; when it throws the handler stays, and no timer is
\* started.
SendPacket(c) ==
  /\ calls[c].phase = "registered"
  /\ \/ /\ connected
        /\ calls' = [calls EXCEPT ![c].phase = "sent"]
        /\ requests' = IF link THEN Append(requests, c) ELSE requests
     \/ /\ ~(connected /\ link)
        /\ calls' = [calls EXCEPT ![c].phase = "refused"]
        /\ UNCHANGED requests
  /\ UNCHANGED <<handlers, responses, inHand, expiring, connected, link>>

\* Faulty: a call whose handler was replaced is forgotten.
TimeoutOfHandled(c) ==
  /\ calls[c].phase = "sent" /\ calls[c].status = "pending"
  /\ handlers[calls[c].type] = c
  /\ calls' = [calls EXCEPT ![c].status = "timed out"]
  /\ expiring' = expiring \cup {c}
  /\ UNCHANGED <<handlers, requests, responses, inHand, connected, link>>

\* TrySetException
Timeout(c) ==
  /\ calls[c].phase = "sent" /\ calls[c].status = "pending"
  /\ calls' = [calls EXCEPT ![c].status = "timed out"]
  /\ expiring' = expiring \cup {c}
  /\ UNCHANGED <<handlers, requests, responses, inHand, connected, link>>

\* TryRemove, of whichever handler is there by now.
RemoveHandler(c) ==
  /\ c \in expiring
  /\ expiring' = expiring \ {c}
  /\ handlers' = [handlers EXCEPT ![calls[c].type] = None]
  /\ UNCHANGED <<calls, requests, responses, inHand, connected, link>>

-----------------------------------------------------------------------------
(* The server, as seen from here.                                          *)

\* The next request is handled, and answered if the server knows its number
\* and its handler does not throw.
Respond ==
  /\ requests # << >>
  /\ requests' = Tail(requests)
  /\ \/ /\ calls[Head(requests)].type \in Answered
        /\ responses' = Append(responses, Head(requests))
     \/ UNCHANGED responses
  /\ UNCHANGED <<calls, handlers, inHand, expiring, connected, link>>

LoseLink ==
  /\ link
  /\ link' = FALSE
  /\ UNCHANGED <<calls, handlers, requests, responses, inHand, expiring, connected>>

-----------------------------------------------------------------------------
(* The receive thread.                                                     *)

\* The handler for the type of response c is removed; without one, nobody is
\* told.
Take(c) ==
  LET t == calls[c].type
  IN  /\ connected
      /\ inHand = Nothing
      /\ inHand' = IF handlers[t] = None THEN Nothing
                   ELSE [handler |-> handlers[t], response |-> c]
      /\ handlers' = [handlers EXCEPT ![t] = None]
      /\ UNCHANGED <<calls, requests, expiring, connected>>

Receive ==
  /\ responses # << >>
  /\ responses' = Tail(responses)
  /\ Take(Head(responses))
  /\ UNCHANGED link

\* TrySetResult: the first result stays.
Completes(c, response) ==
  IF calls[c].status = "pending"
  THEN [calls EXCEPT ![c].status = "answered", ![c].answer = response]
  ELSE calls

Invoke ==
  /\ inHand # Nothing
  /\ calls' = Completes(inHand.handler, inHand.response)
  /\ inHand' = Nothing
  /\ UNCHANGED <<handlers, requests, responses, expiring, connected, link>>

\* By the application, or by the receive thread, which has read the end of
\* the stream.
Disconnect ==
  /\ connected
  /\ connected' = FALSE
  /\ link' = FALSE
  /\ UNCHANGED <<calls, handlers, requests, responses, inHand, expiring>>

Timers == \E c \in Calls : Timeout(c)

Next ==
  \/ \E c \in Calls :
       \/ \E t \in Types : Register(c, t)
       \/ SendPacket(c)
       \/ RemoveHandler(c)
  \/ Timers
  \/ Respond
  \/ LoseLink
  \/ Receive
  \/ Invoke
  \/ Disconnect

Spec == Init /\ [][Next]_vars

\* Task.Delay ends; nothing else is owed to anybody.
FairSpec == Spec /\ \A c \in Calls : WF_vars(Timeout(c))

-----------------------------------------------------------------------------
(* Properties.                                                             *)

\* However handlers are replaced, removed by the timers of others and handed
\* over between threads: no response completes two calls, and none completes
\* a call of another type, or one made before the request it answers.
AnsweredOnce ==
  \A c \in Calls : calls[c].status = "answered" =>
    LET d == calls[c].answer
    IN  /\ d <= c
        /\ calls[d].type = calls[c].type
        /\ \A e \in Calls : calls[e].answer = d => e = c

\* A call made while nothing of its type is under way is completed by its
\* own response or by its timer, whatever calls follow it.  Any other call
\* may be given the response of an earlier one that overlapped or timed out.
OwnAnswer ==
  \A c \in Calls : calls[c].alone /\ calls[c].status = "answered" => calls[c].answer = c

\* Every request that was sent is completed in the end, answered or not,
\* also when its handler was replaced or removed by the timer of another.
Completed ==
  \A c \in Calls : calls[c].phase = "sent" ~> calls[c].status # "pending"

=============================================================================
