------------------------------- MODULE Outbox -------------------------------
(***************************************************************************)
(* The transactional outbox of the platform services: the table            *)
(* platform_domain_outbox, the publisher loops that relay its rows to the  *)
(* JetStream stream PLATFORM_DOMAIN_EVENTS, and that stream's message-id   *)
(* deduplication.  Several services run one publisher each against the     *)
(* same table.                                                             *)
(*                                                                         *)
(* A row's event id, subject and payload are one value of Events.  Rows    *)
(* are ordered by created_at, which Postgres' now() sets to the START of   *)
(* the inserting transaction.                                              *)
(***************************************************************************)
EXTENDS Naturals, Sequences, FiniteSets

CONSTANTS
  Events,       \* domain events, by event id
  Publishers,   \* running publisher loops, one per service process
  Poison,       \* events the broker rejects whenever they are published
  BatchSize,    \* rows one claim takes at most (32 in the code)
  MaxClock,     \* bound: transactions begun in a behaviour
  MaxExpiries,  \* bound: dedup-window expiries per event
  NoEvent       \* not an event

ASSUME OutboxAssumption ==
  /\ IsFiniteSet(Events)
  /\ Poison \subseteq Events
  /\ BatchSize \in Nat \ {0}
  /\ MaxClock \in Nat
  /\ MaxExpiries \in Nat
  /\ NoEvent \notin Events

VARIABLES
  row,        \* row[e]: the outbox row of e
  createdAt,  \* createdAt[e]: start time of the transaction inserting e
  clock,      \* database time, advanced by every transaction start
  phase,      \* phase[p]: where PublishPending of p stands
  batch,      \* batch[p]: claimed records p still has to deal with
  current,    \* current[p]: the record p has published and must mark
  conn,       \* conn[p]: the cached JetStream connection of p
  stream,     \* every message the stream ever stored, oldest first
  window,     \* message ids inside the stream's Duplicates window
  expiries    \* expiries[e]: how often e's id has left that window

tableVars == <<row, createdAt, clock>>
publisherVars == <<phase, batch, current, conn>>
streamVars == <<stream, window, expiries>>
vars == <<tableVars, publisherVars, streamVars>>

Phases == {"idle", "claiming", "claimed", "publishing", "marking"}

TypeOK ==
  /\ row \in [Events -> {"absent", "open", "pending", "published"}]
  /\ createdAt \in [Events -> 0 .. MaxClock]
  /\ clock \in 0 .. MaxClock
  /\ phase \in [Publishers -> Phases]
  /\ batch \in [Publishers -> SUBSET Events]
  /\ current \in [Publishers -> Events \cup {NoEvent}]
  /\ conn \in [Publishers -> {"none", "open", "closed"}]
  /\ stream \in Seq(Events)
  /\ window \in SUBSET Events
  /\ expiries \in [Events -> 0 .. MaxExpiries]
  /\ \A p \in Publishers : phase[p] = "marking" <=> current[p] # NoEvent

Init ==
  /\ row = [e \in Events |-> "absent"]
  /\ createdAt = [e \in Events |-> 0]
  /\ clock = 0
  /\ phase = [p \in Publishers |-> "idle"]
  /\ batch = [p \in Publishers |-> {}]
  /\ current = [p \in Publishers |-> NoEvent]
  /\ conn = [p \in Publishers |-> "none"]
  /\ stream = <<>>
  /\ window = {}
  /\ expiries = [e \in Events |-> 0]

-----------------------------------------------------------------------------
(* Producers: Enqueue in autocommit mode is BeginEnqueue then              *)
(* CommitEnqueue; EnqueueTx leaves any amount of time between the two.     *)

\* A transaction that will insert e starts.
BeginEnqueue(e) ==
  /\ row[e] = "absent"
  /\ clock < MaxClock
  /\ clock' = clock + 1
  /\ createdAt' = [createdAt EXCEPT ![e] = clock + 1]
  /\ row' = [row EXCEPT ![e] = "open"]
  /\ UNCHANGED <<publisherVars, streamVars>>

\* It commits, and only now do publishers see the row.
CommitEnqueue(e) ==
  /\ row[e] = "open"
  /\ row' = [row EXCEPT ![e] = "pending"]
  /\ UNCHANGED <<createdAt, clock, publisherVars, streamVars>>

\* It rolls back (error, lost connection or crash of the producer).
RollbackEnqueue(e) ==
  /\ row[e] = "open"
  /\ row' = [row EXCEPT ![e] = "absent"]
  /\ UNCHANGED <<createdAt, clock, publisherVars, streamVars>>

-----------------------------------------------------------------------------
(* The publisher loop.                                                     *)

\* Rows another publisher's claim statement has locked and not committed.
Locked == UNION {batch[p] : p \in {q \in Publishers : phase[q] = "claiming"}}

\* Mutation: the claim does not see the publication mark ...
ClaimableAgain == {e \in Events : row[e] \in {"pending", "published"}} \ Locked

\* Mutation: ... or reads uncommitted rows.
ClaimableUncommitted == {e \in Events : row[e] \in {"open", "pending"}} \ Locked

\* What "where published_at is null ... for update skip locked" ranges over.
Claimable == {e \in Events : row[e] = "pending"} \ Locked

\* Mutation: the limit is off by one.
IsClaimShort(T) ==
  /\ T # {}
  /\ Cardinality(T) <= BatchSize - 1
  /\ T # Claimable => Cardinality(T) = BatchSize - 1
  /\ \A e \in T, f \in Claimable \ T : createdAt[e] < createdAt[f]

\* T is the outcome of "order by created_at limit BatchSize".
IsClaim(T) ==
  /\ T # {}
  /\ Cardinality(T) <= BatchSize
  /\ T # Claimable => Cardinality(T) = BatchSize
  /\ \A e \in T, f \in Claimable \ T : createdAt[e] < createdAt[f]

\* The claim statement of p locks its rows ...
ClaimRows(p) ==
  /\ phase[p] = "idle"
  /\ \E T \in SUBSET Claimable :
       /\ IsClaim(T)
       /\ batch' = [batch EXCEPT ![p] = T]
  /\ phase' = [phase EXCEPT ![p] = "claiming"]
  /\ UNCHANGED <<current, conn, tableVars, streamVars>>

\* ... and ends, which commits it and releases the locks: from here on the
\* same rows can be claimed again by anybody.
ClaimCommit(p) ==
  /\ phase[p] = "claiming"
  /\ phase' = [phase EXCEPT ![p] = IF conn[p] = "none" THEN "claimed" ELSE "publishing"]
  /\ UNCHANGED <<batch, current, conn, tableVars, streamVars>>

\* PublishPending returns; the ticker will call it again.
Return(p) ==
  /\ phase' = [phase EXCEPT ![p] = "idle"]
  /\ batch' = [batch EXCEPT ![p] = {}]
  /\ current' = [current EXCEPT ![p] = NoEvent]

\* The claim fails, or its result cannot be read.
ClaimError(p) ==
  /\ phase[p] = "claiming"
  /\ Return(p)
  /\ UNCHANGED <<conn, tableVars, streamVars>>

\* jetStream(): connect and ensure the stream, once per connection.
Connect(p) ==
  /\ phase[p] = "claimed"
  /\ conn' = [conn EXCEPT ![p] = "open"]
  /\ phase' = [phase EXCEPT ![p] = "publishing"]
  /\ UNCHANGED <<batch, current, tableVars, streamVars>>

ConnectError(p) ==
  /\ phase[p] = "claimed"
  /\ Return(p)
  /\ UNCHANGED <<conn, tableVars, streamVars>>

\* Mutation: messages carry no id, so nothing is deduplicated.
StoreAlways(e) ==
  /\ stream' = Append(stream, e)
  /\ window' = window \cup {e}
  /\ UNCHANGED expiries

\* The broker stores a message unless its id is inside the window.
Store(e) ==
  /\ stream' = IF e \in window THEN stream ELSE Append(stream, e)
  /\ window' = window \cup {e}
  /\ UNCHANGED expiries

\* Done with e: on to the next record, or back to the ticker.
NextRecord(p, e) ==
  /\ batch' = [batch EXCEPT ![p] = @ \ {e}]
  /\ phase' = [phase EXCEPT ![p] = IF batch[p] \ {e} = {} THEN "idle" ELSE "publishing"]
  /\ current' = [current EXCEPT ![p] = NoEvent]

\* PublishMsg is acknowledged.  RETURNING promises no order, so any record
\* of the batch may be the next.
Publish(p, e) ==
  /\ phase[p] = "publishing"
  /\ conn[p] = "open"
  /\ e \in batch[p] \ Poison
  /\ Store(e)
  /\ phase' = [phase EXCEPT ![p] = "marking"]
  /\ current' = [current EXCEPT ![p] = e]
  /\ UNCHANGED <<batch, conn, tableVars>>

\* Mutation: no "continue" after a publish error.
PublishErrorFallsThrough(p, e) ==
  /\ phase[p] = "publishing"
  /\ e \in batch[p]
  /\ phase' = [phase EXCEPT ![p] = "marking"]
  /\ current' = [current EXCEPT ![p] = e]
  /\ UNCHANGED <<batch, conn, tableVars, streamVars>>

\* PublishMsg fails and the loop goes on with the next record.  When only
\* the acknowledgement was lost the message is stored all the same.
\* MarkFailed writes last_error only.
PublishError(p, e) ==
  /\ phase[p] = "publishing"
  /\ e \in batch[p]
  /\ \/ UNCHANGED streamVars
     \/ conn[p] = "open" /\ e \notin Poison /\ Store(e)
  /\ NextRecord(p, e)
  /\ UNCHANGED <<conn, tableVars>>

MarkPublished(p) ==
  /\ phase[p] = "marking"
  /\ row' = [row EXCEPT ![current[p]] = "published"]
  /\ NextRecord(p, current[p])
  /\ UNCHANGED <<createdAt, clock, conn, streamVars>>

\* The update fails: PublishPending gives up on the rest of the batch.
MarkPublishedError(p) ==
  /\ phase[p] = "marking"
  /\ Return(p)
  /\ UNCHANGED <<conn, tableVars, streamVars>>

\* The client exhausts its reconnect attempts and closes the connection for
\* good; the publisher keeps the handle, so every later publish fails.
LoseConnection(p) ==
  /\ conn[p] = "open"
  /\ conn' = [conn EXCEPT ![p] = "closed"]
  /\ UNCHANGED <<phase, batch, current, tableVars, streamVars>>

\* The process stops (crash, or Close at shutdown) and a new one starts.
RestartPublisher(p) ==
  /\ Return(p)
  /\ conn' = [conn EXCEPT ![p] = "none"]
  /\ UNCHANGED <<tableVars, streamVars>>

\* Two hours have passed since e was stored.
LeaveWindow(e) ==
  /\ e \in window
  /\ expiries[e] < MaxExpiries
  /\ window' = window \ {e}
  /\ expiries' = [expiries EXCEPT ![e] = @ + 1]
  /\ UNCHANGED <<stream, tableVars, publisherVars>>

-----------------------------------------------------------------------------
EnqueueStep(e) == BeginEnqueue(e) \/ CommitEnqueue(e) \/ RollbackEnqueue(e)

PublisherStep(p) ==
  \/ ClaimRows(p) \/ ClaimCommit(p) \/ ClaimError(p)
  \/ Connect(p) \/ ConnectError(p)
  \/ \E e \in Events : Publish(p, e) \/ PublishError(p, e)
  \/ MarkPublished(p) \/ MarkPublishedError(p)
  \/ LoseConnection(p) \/ RestartPublisher(p)

Next ==
  \/ \E e \in Events : EnqueueStep(e) \/ LeaveWindow(e)
  \/ \E p \in Publishers : PublisherStep(p)

Spec == Init /\ [][Next]_vars

\* The ticker keeps calling PublishPending, every call of it returns (the
\* broker client has a timeout), and a database or broker call that is tried
\* again and again succeeds in the end.
Fairness ==
  /\ \A p \in Publishers :
       /\ SF_vars(ClaimRows(p))
       /\ SF_vars(ClaimCommit(p))
       /\ SF_vars(Connect(p))
       /\ WF_vars(\E e \in Events : Publish(p, e) \/ PublishError(p, e))
  /\ \A p \in Publishers, e \in Events :
       /\ SF_vars(Publish(p, e))
       /\ SF_vars(current[p] = e /\ MarkPublished(p))

-----------------------------------------------------------------------------
Committed(e) == row[e] \in {"pending", "published"}
Stored(e) == \E i \in DOMAIN stream : stream[i] = e
Copies(e) == Cardinality({i \in DOMAIN stream : stream[i] = e})

\* No lost event: a row is marked published only when its message is in the
\* stream, whatever crashes, lost replies and concurrent publishers did.
PublishedIsStored == \A e \in Events : row[e] = "published" => Stored(e)

\* No phantom event: nothing reaches the stream from a transaction that has
\* not committed (or rolled back).
StoredIsCommitted == \A i \in DOMAIN stream : Committed(stream[i])

\* Overlapping claims and republished rows put a second copy of an event in
\* the stream only when its id had left the dedup window in between.
DuplicatesAreExplained == \A e \in Events : Copies(e) <= expiries[e] + 1

\* e is marked published and no publisher still carries a claim of it.
Finished(e) == row[e] = "published" /\ \A p \in Publishers : e \notin batch[p]

\* Once an event is finished it stays finished and no copy of it is ever
\* stored again: published rows are not claimed and MarkFailed of a late
\* publisher does not reopen them.
FinishedForGood ==
  [][\A e \in Events : Finished(e) => Finished(e)' /\ Copies(e)' = Copies(e)]_vars

=============================================================================
