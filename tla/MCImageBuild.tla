---------------------------- MODULE MCImageBuild ----------------------------
(* Small instances of ImageBuild for TLC. *)
EXTENDS ImageBuild

\* Every request builds for a repository of its own.
const_OwnRepo == [r \in Requests |-> r]

=============================================================================
