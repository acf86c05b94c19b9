--------------------------- MODULE EventDelivery ---------------------------
(***************************************************************************)
(* What the event bus promises, without tables, batches, streams or        *)
(* acknowledgements: an event is accepted once, the outbox hands it over   *)
(* only after that, its handler takes effect only for accepted events, and *)
(* only an effect is ever put on record.                                   *)
(***************************************************************************)
CONSTANT Events

VARIABLES
  accepted,   \* events whose transaction has committed
  relayed,    \* events the outbox no longer answers for
  effected,   \* events whose handler took effect, once or more often
  recorded    \* events that will not be handled again

vars == <<accepted, relayed, effected, recorded>>

Init ==
  /\ accepted = {}
  /\ relayed = {}
  /\ effected = {}
  /\ recorded = {}

Accept(e) ==
  /\ accepted' = accepted \cup {e}
  /\ UNCHANGED <<relayed, effected, recorded>>

Relay(e) ==
  /\ e \in accepted
  /\ relayed' = relayed \cup {e}
  /\ UNCHANGED <<accepted, effected, recorded>>

TakeEffect(e) ==
  /\ e \in accepted
  /\ effected' = effected \cup {e}
  /\ UNCHANGED <<accepted, relayed, recorded>>

Record(e) ==
  /\ e \in effected
  /\ recorded' = recorded \cup {e}
  /\ UNCHANGED <<accepted, relayed, effected>>

Next == \E e \in Events : Accept(e) \/ Relay(e) \/ TakeEffect(e) \/ Record(e)

Spec == Init /\ [][Next]_vars

=============================================================================
