------------------------------ MODULE Friends -------------------------------
(***************************************************************************)
(* The table `friends': the handlers of friend/FriendManager.cpp and the   *)
(* statements of database/PostgresClient.cpp they run, each of them one    *)
(* transaction.  A row (a, b) says what b is to a.                         *)
(*                                                                         *)
(* Left out: notifications, and presence in the list, which is Sessions'.  *)
(***************************************************************************)
EXTENDS Accounts

CONSTANT NoRow   \* no row of the table

ASSUME NoRowAssumption == NoRow \notin {"PENDING", "ACCEPTED"}

VARIABLES
  status,    \* the status of each pair of players, or NoRow
  said,      \* pairs (a, b): a asked for b, or accepted b, since the row
             \* (a, b) was last deleted (history)
  oneSided   \* pairs (a, b): a accepted b, who had not asked, or b was
             \* rejected by a afterwards (history)

friendVars == <<status, said, oneSided>>

Pairs == Players \X Players

FriendsInit ==
  /\ status = [pair \in Pairs |-> NoRow]
  /\ said = {} /\ oneSided = {}

\* Faulty: the columns have no foreign keys.
StoredUnchecked(a, b) == dbUp

\* Ids that both have an account pass the foreign keys.
Stored(a, b) == dbUp /\ a \in Known /\ b \in Known

\* ON CONFLICT DO NOTHING
sendFriendRequest(sender, receiver) ==
  LET row == <<sender, receiver>>
  IN  /\ Stored(sender, receiver)
      /\ status' = IF status[row] = NoRow THEN [status EXCEPT ![row] = "PENDING"] ELSE status
      /\ said' = said \cup {row}
      /\ UNCHANGED <<accountVars, oneSided>>

\* Faulty: the row of the sender is not updated.
InsertOnly(sent, own) == [status EXCEPT ![own] = "ACCEPTED"]

\* The row of the request is updated if it is there, the other one inserted
\* or updated.
Accepted(sent, own) ==
  [status EXCEPT ![sent] = IF @ = NoRow THEN NoRow ELSE "ACCEPTED",
                 ![own]  = "ACCEPTED"]

acceptFriendRequest(receiver, sender) ==
  LET sent == <<sender, receiver>>
      own  == <<receiver, sender>>
  IN  /\ Stored(receiver, sender)
      /\ status' = Accepted(sent, own)
      /\ said' = said \cup {own}
      /\ oneSided' = IF status[sent] = NoRow /\ sent # own THEN oneSided \cup {own}
                     ELSE oneSided \ {sent, own}
      /\ UNCHANGED accountVars

\* Deletes the sender's row, whatever its status.
rejectFriendRequest(receiver, sender) ==
  LET sent == <<sender, receiver>>
      own  == <<receiver, sender>>
  IN  /\ dbUp
      /\ status' = [status EXCEPT ![sent] = NoRow]
      /\ said' = said \ {sent}
      /\ oneSided' = IF status'[own] = "ACCEPTED" THEN (oneSided \cup {own}) \ {sent}
                     ELSE oneSided \ {sent}
      /\ UNCHANGED accountVars

removeFriend(a, b) ==
  LET rows == {<<a, b>>, <<b, a>>}
  IN  /\ dbUp
      /\ status' = [pair \in Pairs |-> IF pair \in rows THEN NoRow ELSE status[pair]]
      /\ said' = said \ rows /\ oneSided' = oneSided \ rows
      /\ UNCHANGED accountVars

\* What a player is sent: its own rows, and requests by others.
getFriendsList(p) ==
  {[id |-> q, status |-> status[<<p, q>>]] : q \in {x \in Known : status[<<p, x>>] # NoRow}}
    \cup {[id |-> q, status |-> "INCOMING_REQUEST"] :
            q \in {x \in Known : status[<<x, p>>] = "PENDING"}}

\* A packet of a player who is logged in; ids in it may be any.
FriendsPacket ==
  \E p \in Known, q \in Players :
    \/ sendFriendRequest(p, q)
    \/ acceptFriendRequest(p, q)
    \/ rejectFriendRequest(p, q)
    \/ removeFriend(p, q)

-----------------------------------------------------------------------------

\* Whatever is asked, accepted, rejected and removed in any order: nobody is
\* on the list of a player who did not ask for or accept it since it was last
\* taken off, nor as a request to a player by somebody who did not ask; and
\* friends are friends of each other, unless one accepted the other unasked
\* or rejected a request after having accepted it.
Friendship ==
  \A p \in Known : \A f \in getFriendsList(p) :
    IF f.status = "INCOMING_REQUEST" THEN <<f.id, p>> \in said
    ELSE /\ <<p, f.id>> \in said
         /\ f.status = "ACCEPTED" /\ <<p, f.id>> \notin oneSided =>
              [id |-> p, status |-> "ACCEPTED"] \in getFriendsList(f.id)

=============================================================================
