--------------------------- MODULE MCModelQueries ---------------------------
(* A small instance of ModelQueries for TLC. *)
EXTENDS ModelQueries, TLC

CONSTANTS v1, v2, a, b, d1, d2, s1, s2, t

\* Two vendors with a model of the same id, and another one.
const_Models == {<<v1, a>>, <<v1, b>>, <<v2, a>>}

const_Rank == (<<v1, a>> :> 1) @@ (<<v1, b>> :> 2) @@ (<<v2, a>> :> 3)

\* One definition has the id of other models among its aliases.
const_Aliases == (d1 :> {}) @@ (d2 :> {b})

const_Sources == (d1 :> {s1}) @@ (d2 :> {s2})

\* The other one says that word in its display name.
const_Texts == (d1 :> {t}) @@ (d2 :> {})

const_Containing == b :> {b, t}

NoFilter == [vendors |-> {}, ids |-> {}, sources |-> {}, words |-> {}, category |-> FALSE]

const_Filters ==
  {NoFilter, [NoFilter EXCEPT !.vendors = {v1}, !.sources = {s2}],
   [NoFilter EXCEPT !.category = TRUE], WordFilter(b)}

=============================================================================
