------------------------------ MODULE MCOutbox ------------------------------
(* Small instances of Outbox for TLC. *)
EXTENDS Outbox, TLC

\* Publishers run the same loop and no property names one of them.
PublisherSymmetry == Permutations(Publishers)

=============================================================================
