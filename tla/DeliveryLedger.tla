--------------------------- MODULE DeliveryLedger ---------------------------
(***************************************************************************)
(* What an outbox promises to the domain services, with no rows, relays or *)
(* retries: an accepted event stays open until the broker has it and it is *)
(* settled, or until it is given up and parked; a parked event can be      *)
(* reopened; a settled one is never touched again.                         *)
(***************************************************************************)
CONSTANT Events

VARIABLES
  open,       \* accepted events still to be settled
  delivered,  \* events the broker holds at least one message of
  settled,    \* events that are done
  parked      \* events given up for now

vars == <<open, delivered, settled, parked>>

\* The ledger only ever names events of Events.
TypeOK == {open, delivered, settled, parked} \subseteq SUBSET Events

Init == open = {} /\ delivered = {} /\ settled = {} /\ parked = {}

Accept(e) ==
  /\ e \notin open \cup settled \cup parked
  /\ open' = open \cup {e}
  /\ UNCHANGED <<delivered, settled, parked>>

\* Only an accepted event may reach the broker; one given up may do so late.
Deliver(e) ==
  /\ e \in open \cup parked
  /\ delivered' = delivered \cup {e}
  /\ UNCHANGED <<open, settled, parked>>

Settle(e) ==
  /\ e \in open \cap delivered
  /\ open' = open \ {e}
  /\ settled' = settled \cup {e}
  /\ UNCHANGED <<delivered, parked>>

Park(e) ==
  /\ e \in open
  /\ open' = open \ {e}
  /\ parked' = parked \cup {e}
  /\ UNCHANGED <<delivered, settled>>

Reopen ==
  /\ open' = open \cup parked
  /\ parked' = {}
  /\ UNCHANGED <<delivered, settled>>

Next ==
  \/ \E e \in Events : Accept(e) \/ Deliver(e) \/ Settle(e) \/ Park(e)
  \/ Reopen

Spec == Init /\ [][Next]_vars
=============================================================================
