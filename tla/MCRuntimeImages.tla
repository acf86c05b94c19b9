-------------------------- MODULE MCRuntimeImages ---------------------------
(* Two builds for one repository with its lookups, for TLC. *)
EXTENDS RuntimeImageLookup

CONSTANTS r1, r2

const_Requests == {r1, r2}
const_OneRepo == [r \in Requests |-> "repo"]

\* The tags cli-9.0.0 and cli-10.0.0: the later version is the earlier string.
const_Semver == r1 :> 9 @@ r2 :> 10
const_Spelling == r1 :> 2 @@ r2 :> 1

=============================================================================
