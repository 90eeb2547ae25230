--------------------------- MODULE MessageLifecycle ---------------------------
(* What a mailbox promises about one message: the five statuses of           *)
(* async_comm/constants.py and the transition table of async_comm/mailbox.py. *)
(* A message is unknown until the mailbox records it; a terminal status is    *)
(* never left.  Crashes, files and caches do not appear at this level.        *)
EXTENDS FiniteSets

CONSTANTS OutIds,   \* messages the local peer queues for others
          InIds     \* messages other peers queue for the local peer

VARIABLE status     \* status[e] : what the mailbox answers for message e

Ids == OutIds \cup InIds

Terminal == {"confirmed", "revised", "needs_human_review"}
Statuses == {"pending_delivery", "delivered"} \cup Terminal
Unknown  == "unknown"
Known    == Statuses \cup {Unknown}

\* _VALID_TRANSITIONS: the moves of one message's status.
Transitions == ({"pending_delivery"} \X {"delivered"})
          \cup ({"pending_delivery", "delivered"} \X Terminal)

\* The status a message gets when it enters a box.
FirstStatus(e) == IF e \in OutIds THEN "pending_delivery" ELSE "delivered"

\* One legal change of one message's status.
LegalChange(e, old, new) ==
    \/ old = Unknown /\ new = FirstStatus(e)
    \/ <<old, new>> \in Transitions

Init == status = [e \in Ids |-> Unknown]

Change(e, s) == /\ LegalChange(e, status[e], s)
                /\ status' = [status EXCEPT ![e] = s]

Next == \E e \in Ids : \E s \in Statuses : Change(e, s)

Spec == Init /\ [][Next]_status
===============================================================================
