------------------------------ MODULE SendSlot ------------------------------
(***************************************************************************)
(* What the IR send path promises its callers: one message is sent at a   *)
(* time.  A message enters the slot only when it is empty, nothing         *)
(* replaces it there, and it leaves only when the sender has finished it,  *)
(* which it eventually does.  IrSend implements this with the one-slot     *)
(* FreeRTOS queue m_queue, peeked by the send task and reset when done.    *)
(***************************************************************************)
CONSTANTS
    Msgs,   \* the messages callers may hand over
    None    \* the empty slot

ASSUME None \notin Msgs

VARIABLE slot

Init == slot = None

\* A caller hands over a message while nothing is being sent.
Take(m) ==
    /\ slot = None
    /\ slot' = m

\* The sender finishes the message in the slot.
Finish ==
    /\ slot # None
    /\ slot' = None

Next == (\E m \in Msgs : Take(m)) \/ Finish

Spec == Init /\ [][Next]_slot /\ WF_slot(Finish)
=============================================================================
