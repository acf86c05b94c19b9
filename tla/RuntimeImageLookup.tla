------------------------- MODULE RuntimeImageLookup -------------------------
(***************************************************************************)
(* GetLatestAvailableCLIRuntimeImages beside the builds: a caller is told  *)
(* the image with the highest version among the tags of a repository,      *)
(* while Jobs push to that repository and prune it.  Retention goes by     *)
(* creation time, the lookup by version.  A lookup changes nothing, so it  *)
(* is a function of the state.                                             *)
(***************************************************************************)
EXTENDS ImageBuild, SequencesExt

CONSTANTS
  Semver,    \* Semver[r]: rank of the version of r, or NotSemver
  Spelling,  \* Spelling[r]: rank of the tag of r as a string
  NotSemver, \* a version that is not a semantic one
  NoImage    \* no tag was found

ASSUME LookupAssumption ==
  /\ \A r \in Requests : Semver[r] \in Nat \/ Semver[r] = NotSemver
  /\ \A r \in Requests : Spelling[r] \in Nat
  /\ \A r, q \in Requests : RepoOf[r] = RepoOf[q] /\ r # q => Spelling[r] # Spelling[q]
  /\ NotSemver \notin Nat
  /\ NoImage \notin Requests

-----------------------------------------------------------------------------
\* Mutation: tags are compared as strings.
BothSpelled(left, right) == FALSE

\* semver.IsValid of both tags.
BothSemver(left, right) == NotSemver \notin {Semver[left], Semver[right]}

\* compareCLITags(left, right) > 0.
IsLaterTag(left, right) ==
  IF BothSemver(left, right)
    THEN Semver[left] > Semver[right]
    ELSE Spelling[left] > Spelling[right]

\* Mutation: the first tag of the list is taken.
FirstTag(list) == IF list = <<>> THEN NoImage ELSE Head(list)

\* The tag kept by one pass over the list: latest[n] is what its first n
\* tags leave.  Where versions of both kinds meet, IsLaterTag is no order and
\* the list's order matters.
LatestAvailableTag(list) ==
  LET latest[n \in 0 .. Len(list)] ==
        IF n = 0 THEN NoImage
        ELSE IF latest[n - 1] = NoImage \/ IsLaterTag(list[n], latest[n - 1])
             THEN list[n]
             ELSE latest[n - 1]
  IN  latest[Len(list)]

\* What the registry lists of a repository, in an order of its own; one it
\* does not know counts as empty.
TagLists(p) == SetToSeqs({t \in tags : RepoOf[t] = p})

\* What a lookup that begins now may tell of repository p.  Each repository
\* is read by a goroutine of its own in one call; a call that fails fails the
\* whole lookup and tells nothing.
Answers(p) == {LatestAvailableTag(list) : list \in TagLists(p)}

-----------------------------------------------------------------------------
\* Keep newer images have come after the one of r, or the repository is one
\* of the two exceptions of retention.
MayBeGone(r) ==
  \/ Cardinality(Newer(r)) >= Keep
  \/ RepoOf[r] \in overlapped \cup misjudged

\* new is an image of a higher version than old.
IsHigher(new, old) == new # NoImage /\ Semver[new] > Semver[old]

\* When a workflow has reported a build as completed, every lookup tells its
\* image or one of a higher version until Keep newer images have been
\* pushed, whatever other Jobs push, prune or leave half done meanwhile.
CompletedIsServed ==
  \A r \in Requests : run[r] = "completed" =>
    MayBeGone(r) \/ \A image \in Answers(RepoOf[r]) : image = r \/ IsHigher(image, r)

\* From one lookup to the next, answers go to higher versions only, and never
\* to none, unless Keep newer images were pushed: an old version that is
\* built late may take the place of a newer one, but nothing else takes an
\* answer back, not even for an image whose Job has not succeeded yet.
AnswersGoForward ==
  [][\A p \in Repos : \A old \in Answers(p) \ {NoImage}, new \in Answers(p)' :
       new = old \/ IsHigher(new, old) \/ MayBeGone(old)]_vars

=============================================================================
