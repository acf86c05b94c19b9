--------------------------- MODULE MCEventConsumer ---------------------------
(* Small instances of EventConsumer for TLC. *)
EXTENDS EventConsumer, TLC

\* Loops that share a durable name are interchangeable.
ConsumerSymmetry == Permutations(Consumers)

=============================================================================
