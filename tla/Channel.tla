------------------------------ MODULE Channel -------------------------------
(***************************************************************************)
(* What the server promises of the packets it sends to one client: they    *)
(* arrive whole, once, and in the order of sending, until the network is   *)
(* gone, and until then all of them do.                                    *)
(***************************************************************************)
EXTENDS Sequences, Naturals

CONSTANT Packets

VARIABLES
  sent,      \* all packets given to Connection::send, in that order
  arrived,   \* all packets that came out at the other end
  cut        \* TRUE once the network is gone

vars == <<sent, arrived, cut>>

Init == sent = << >> /\ arrived = << >> /\ cut = FALSE

Send(p) ==
  /\ sent' = Append(sent, p)
  /\ UNCHANGED <<arrived, cut>>

Arrive ==
  /\ ~cut
  /\ Len(arrived) < Len(sent)
  /\ arrived' = Append(arrived, sent[Len(arrived) + 1])
  /\ UNCHANGED <<sent, cut>>

Cut ==
  /\ cut' = TRUE
  /\ UNCHANGED <<sent, arrived>>

Next == (\E p \in Packets : Send(p)) \/ Arrive \/ Cut

Spec == Init /\ [][Next]_vars /\ WF_vars(Arrive)

=============================================================================
