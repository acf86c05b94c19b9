--------------------------- MODULE EventBusProofs ---------------------------
(***************************************************************************)
(* Proofs about the event bus, for any number of events, publishers and    *)
(* consumer loops: first about Outbox by itself, then that EventBus        *)
(* implements EventDelivery, loses nothing on the way and repeats nothing  *)
(* without a reason.                                                       *)
(***************************************************************************)
EXTENDS EventBus, FiniteSetTheorems, TLAPS

(***************************************************************************)
(* The inductive invariant.  PublishedIsStored is not inductive: that      *)
(* MarkPublished finds its record in the stream depends on what Publish    *)
(* did before, and Publish stores nothing when the id is in the window, so *)
(* ids in the window must be known to be stored.  StoredIsCommitted needs  *)
(* that claims hold committed rows only, which no rollback can undo.       *)
(***************************************************************************)
ClaimedIsCommitted ==
  \A p \in Publishers : \A e \in batch[p] : Committed(e)

MarkingIsStored ==
  \A p \in Publishers :
    phase[p] = "marking" => current[p] \in batch[p] /\ Stored(current[p])

WindowIsStored == \A e \in window : Stored(e)

OutboxInv ==
  /\ TypeOK
  /\ ClaimedIsCommitted
  /\ MarkingIsStored
  /\ WindowIsStored
  /\ PublishedIsStored
  /\ StoredIsCommitted

-----------------------------------------------------------------------------
\* Store(e) keeps every stored message where it is, stores e if it is not
\* there yet, and adds nothing else.
LEMMA StoreEffect ==
  ASSUME stream \in Seq(Events), window \in SUBSET Events, WindowIsStored,
         NEW e \in Events, Store(e)
  PROVE  /\ stream' \in Seq(Events)
         /\ window' \in SUBSET Events
         /\ \A i \in DOMAIN stream : i \in DOMAIN stream' /\ stream'[i] = stream[i]
         /\ \A i \in DOMAIN stream' : i \in DOMAIN stream \/ stream'[i] = e
         /\ Stored(e)'
         /\ \A f \in Events : Stored(f) => Stored(f)'
         /\ \A f \in window' : Stored(f)'
<1>1. CASE e \in window
  <2>1. stream' = stream /\ window' = window
    BY <1>1 DEF Store
  <2> QED BY <1>1, <2>1 DEF WindowIsStored, Stored
<1>2. CASE e \notin window
  <2>1. stream' = Append(stream, e) /\ window' = window \cup {e}
    BY <1>2 DEF Store
  <2>2. /\ stream' \in Seq(Events)
        /\ DOMAIN stream = 1 .. Len(stream)
        /\ DOMAIN stream' = 1 .. Len(stream) + 1
        /\ \A i \in DOMAIN stream : stream'[i] = stream[i]
        /\ stream'[Len(stream) + 1] = e
        /\ Len(stream) \in Nat
    BY <2>1
  <2>3. \A i \in DOMAIN stream : i \in DOMAIN stream'
    BY <2>2
  <2>4. \A i \in DOMAIN stream' : i \in DOMAIN stream \/ stream'[i] = e
    BY <2>2
  <2>5. Stored(e)'
    BY <2>2 DEF Stored
  <2>6. \A f \in Events : Stored(f) => Stored(f)'
    BY <2>2, <2>3 DEF Stored
  <2> QED BY <2>1, <2>2, <2>3, <2>4, <2>5, <2>6 DEF WindowIsStored
<1> QED BY <1>1, <1>2

\* A step that leaves the stream alone leaves alone what it holds.
LEMMA StoredUnchanged ==
  ASSUME UNCHANGED stream, NEW e
  PROVE  Stored(e)' <=> Stored(e)
BY DEF Stored

-----------------------------------------------------------------------------
\* Type correctness of every row, loop and stream variable.
LEMMA TypeInit == Init => TypeOK
BY OutboxAssumption DEF Init, TypeOK, Phases

LEMMA TypeStep == TypeOK /\ [Next]_vars => TypeOK'
<1> SUFFICES ASSUME TypeOK, [Next]_vars PROVE TypeOK'
  OBVIOUS
<1> USE OutboxAssumption DEF TypeOK, Phases
<1>1. ASSUME NEW e \in Events, EnqueueStep(e) PROVE TypeOK'
  <2>1. CASE BeginEnqueue(e)
    BY <2>1 DEF BeginEnqueue, publisherVars, streamVars
  <2>2. CASE CommitEnqueue(e)
    BY <2>2 DEF CommitEnqueue, publisherVars, streamVars
  <2>3. CASE RollbackEnqueue(e)
    BY <2>3 DEF RollbackEnqueue, publisherVars, streamVars
  <2> QED BY <1>1, <2>1, <2>2, <2>3 DEF EnqueueStep
<1>2. ASSUME NEW e \in Events, LeaveWindow(e) PROVE TypeOK'
  BY <1>2 DEF LeaveWindow, tableVars, publisherVars
<1>3. ASSUME NEW p \in Publishers, PublisherStep(p) PROVE TypeOK'
  <2> USE DEF tableVars, streamVars
  <2>1. CASE ClaimRows(p)
    BY <2>1 DEF ClaimRows, Claimable
  <2>2. CASE ClaimCommit(p)
    BY <2>2 DEF ClaimCommit
  <2>3. CASE ClaimError(p) \/ ConnectError(p) \/ MarkPublishedError(p)
    <3>1. Return(p) /\ UNCHANGED <<conn, tableVars, streamVars>>
      BY <2>3 DEF ClaimError, ConnectError, MarkPublishedError
    <3> QED BY <3>1 DEF Return
  <2>4. CASE Connect(p)
    BY <2>4 DEF Connect
  <2>5. ASSUME NEW e \in Events, Publish(p, e) PROVE TypeOK'
    BY <2>5 DEF Publish, Store
  <2>6. ASSUME NEW e \in Events, PublishError(p, e) PROVE TypeOK'
    <3>1. NextRecord(p, e) /\ UNCHANGED <<conn, tableVars>>
      BY <2>6 DEF PublishError
    <3>2. UNCHANGED streamVars \/ Store(e)
      BY <2>6 DEF PublishError
    <3>3. CASE UNCHANGED streamVars
      BY <3>1, <3>3 DEF NextRecord
    <3>4. CASE Store(e)
      BY <3>1, <3>4 DEF NextRecord, Store
    <3> QED BY <3>2, <3>3, <3>4
  <2>7. CASE MarkPublished(p)
    BY <2>7 DEF MarkPublished, NextRecord
  <2>8. CASE LoseConnection(p)
    BY <2>8 DEF LoseConnection
  <2>9. CASE RestartPublisher(p)
    BY <2>9 DEF RestartPublisher, Return
  <2> QED
    BY <1>3, <2>1, <2>2, <2>3, <2>4, <2>5, <2>6, <2>7, <2>8, <2>9 DEF PublisherStep
<1>4. CASE UNCHANGED vars
  BY <1>4 DEF vars, tableVars, publisherVars, streamVars
<1> QED BY <1>1, <1>2, <1>3, <1>4 DEF Next

\* Every variable keeps its type whatever the publishers, producers and the
\* broker do.
THEOREM TypeCorrect == Spec => []TypeOK
BY TypeInit, TypeStep, PTL DEF Spec

-----------------------------------------------------------------------------
LEMMA InvInit == Init => OutboxInv
<1> SUFFICES ASSUME Init PROVE OutboxInv
  OBVIOUS
<1>1. TypeOK
  BY TypeInit
<1>2. DOMAIN stream = {}
  BY DEF Init
<1> QED
  BY <1>1, <1>2 DEF Init, OutboxInv, ClaimedIsCommitted, MarkingIsStored,
       WindowIsStored, PublishedIsStored, StoredIsCommitted, Stored

\* Producers: only the row of e changes, and a row that is already committed
\* does not.
LEMMA EnqueuePreservesInv ==
  ASSUME OutboxInv, NEW e \in Events, EnqueueStep(e)
  PROVE  OutboxInv'
<1> USE DEF OutboxInv, TypeOK
<1>1. /\ UNCHANGED <<phase, batch, current, conn, stream, window, expiries>>
      /\ \A f \in Events : Committed(f) => Committed(f)'
      /\ \A f \in Events : row'[f] = "published" => row[f] = "published"
  BY DEF EnqueueStep, BeginEnqueue, CommitEnqueue, RollbackEnqueue,
         publisherVars, streamVars, Committed
<1>2. TypeOK'
  BY TypeStep DEF Next
<1>3. \A f \in Events : Stored(f)' <=> Stored(f)
  BY <1>1, StoredUnchanged
<1>4. ClaimedIsCommitted'
  BY <1>1 DEF ClaimedIsCommitted
<1>5. MarkingIsStored'
  BY <1>1, <1>3 DEF MarkingIsStored
<1>6. WindowIsStored'
  BY <1>1, <1>3 DEF WindowIsStored
<1>7. PublishedIsStored'
  BY <1>1, <1>3 DEF PublishedIsStored
<1>8. StoredIsCommitted'
  BY <1>1 DEF StoredIsCommitted
<1> QED BY <1>2, <1>4, <1>5, <1>6, <1>7, <1>8

\* Steps of a publisher that touch neither the table nor the stream, keep or
\* shrink its batch, and do not arrive at "marking".
LEMMA QuietPublisherPreservesInv ==
  ASSUME OutboxInv, TypeOK', NEW p \in Publishers,
         UNCHANGED <<row, stream, window>>,
         \A q \in Publishers : \A e \in batch'[q] : Committed(e),
         \A q \in Publishers : phase'[q] = "marking" =>
            /\ phase[q] = "marking"
            /\ current'[q] = current[q]
            /\ batch'[q] = batch[q]
  PROVE  OutboxInv'
<1>1. \A e : Stored(e)' <=> Stored(e)
  BY StoredUnchanged
<1>2. \A e : Committed(e)' <=> Committed(e)
  BY DEF Committed
<1> QED
  BY <1>1, <1>2 DEF OutboxInv, ClaimedIsCommitted, MarkingIsStored,
       WindowIsStored, PublishedIsStored, StoredIsCommitted

LEMMA PublisherPreservesInv ==
  ASSUME OutboxInv, NEW p \in Publishers, PublisherStep(p)
  PROVE  OutboxInv'
<1> USE DEF OutboxInv
<1>0. TypeOK'
  BY TypeStep DEF Next
<1>1. CASE ClaimRows(p)
  <2>1. \A e \in batch'[p] : Committed(e)
    BY <1>1 DEF ClaimRows, Claimable, Committed, TypeOK
  <2>2. /\ UNCHANGED <<row, stream, window>>
        /\ phase'[p] = "claiming"
        /\ \A q \in Publishers \ {p} :
             phase'[q] = phase[q] /\ current'[q] = current[q] /\ batch'[q] = batch[q]
    BY <1>1 DEF ClaimRows, TypeOK, tableVars, streamVars
  <2> QED BY <1>0, <2>1, <2>2, QuietPublisherPreservesInv DEF ClaimedIsCommitted
<1>2. CASE ClaimCommit(p) \/ Connect(p) \/ LoseConnection(p)
  <2>1. /\ UNCHANGED <<row, stream, window, batch, current>>
        /\ \A q \in Publishers : phase'[q] = "marking" => phase[q] = "marking"
    BY <1>2 DEF ClaimCommit, Connect, LoseConnection, TypeOK, tableVars, streamVars
  <2> QED BY <1>0, <2>1, QuietPublisherPreservesInv DEF ClaimedIsCommitted
<1>3. CASE ClaimError(p) \/ ConnectError(p) \/ MarkPublishedError(p) \/ RestartPublisher(p)
  <2>1. Return(p) /\ UNCHANGED <<row, stream, window>>
    BY <1>3 DEF ClaimError, ConnectError, MarkPublishedError, RestartPublisher,
                tableVars, streamVars
  <2>2. /\ phase'[p] = "idle" /\ batch'[p] = {}
        /\ \A q \in Publishers \ {p} :
             phase'[q] = phase[q] /\ current'[q] = current[q] /\ batch'[q] = batch[q]
    BY <2>1 DEF Return, TypeOK
  <2> QED BY <1>0, <2>1, <2>2, QuietPublisherPreservesInv DEF ClaimedIsCommitted
<1>4. ASSUME NEW e \in Events, Publish(p, e) PROVE OutboxInv'
  <2>1. Store(e) /\ UNCHANGED <<row, batch>> /\ e \in batch[p]
    BY <1>4 DEF Publish, tableVars
  <2>2. /\ current'[p] = e
        /\ \A q \in Publishers \ {p} : phase'[q] = phase[q] /\ current'[q] = current[q]
    BY <1>4 DEF Publish, TypeOK
  <2>3. \A f : Committed(f)' <=> Committed(f)
    BY <2>1 DEF Committed
  <2>4. ClaimedIsCommitted'
    BY <2>1, <2>3 DEF ClaimedIsCommitted
  <2>5. MarkingIsStored'
    BY <2>1, <2>2, StoreEffect DEF MarkingIsStored, TypeOK
  <2>6. WindowIsStored'
    BY <2>1, StoreEffect DEF WindowIsStored, TypeOK
  <2>7. PublishedIsStored'
    BY <2>1, StoreEffect DEF PublishedIsStored, TypeOK
  <2>8. StoredIsCommitted'
    BY <2>1, <2>3, StoreEffect DEF StoredIsCommitted, ClaimedIsCommitted, TypeOK
  <2> QED BY <1>0, <2>4, <2>5, <2>6, <2>7, <2>8
<1>5. ASSUME NEW e \in Events, PublishError(p, e) PROVE OutboxInv'
  <2>1. e \in batch[p] /\ UNCHANGED row /\ NextRecord(p, e)
    BY <1>5 DEF PublishError, tableVars
  <2>2. /\ phase'[p] # "marking" /\ batch'[p] \subseteq batch[p]
        /\ \A q \in Publishers \ {p} :
             phase'[q] = phase[q] /\ current'[q] = current[q] /\ batch'[q] = batch[q]
    BY <2>1 DEF NextRecord, TypeOK
  <2>3. CASE UNCHANGED streamVars
    BY <1>0, <2>1, <2>2, <2>3, QuietPublisherPreservesInv
    DEF ClaimedIsCommitted, streamVars
  <2>4. CASE Store(e)
    <3>1. \A f : Committed(f)' <=> Committed(f)
      BY <2>1 DEF Committed
    <3>2. ClaimedIsCommitted'
      BY <2>2, <3>1 DEF ClaimedIsCommitted
    <3>3. MarkingIsStored'
      BY <2>2, <2>4, StoreEffect DEF MarkingIsStored, TypeOK
    <3>4. WindowIsStored'
      BY <2>4, StoreEffect DEF WindowIsStored, TypeOK
    <3>5. PublishedIsStored'
      BY <2>1, <2>4, StoreEffect DEF PublishedIsStored, TypeOK
    <3>6. StoredIsCommitted'
      BY <2>1, <2>4, <3>1, StoreEffect DEF StoredIsCommitted, ClaimedIsCommitted, TypeOK
    <3> QED BY <1>0, <3>2, <3>3, <3>4, <3>5, <3>6
  <2> QED BY <1>5, <2>3, <2>4 DEF PublishError
<1>6. CASE MarkPublished(p)
  <2>1. /\ current[p] \in batch[p] /\ Stored(current[p])
        /\ row' = [row EXCEPT ![current[p]] = "published"]
        /\ UNCHANGED <<stream, window>>
        /\ NextRecord(p, current[p])
    BY <1>6 DEF MarkPublished, MarkingIsStored, streamVars
  <2>2. /\ phase'[p] # "marking" /\ batch'[p] \subseteq batch[p]
        /\ \A q \in Publishers \ {p} :
             phase'[q] = phase[q] /\ current'[q] = current[q] /\ batch'[q] = batch[q]
    BY <2>1 DEF NextRecord, TypeOK
  <2>3. \A f \in Events : Committed(f) => Committed(f)'
    BY <2>1 DEF Committed, TypeOK
  <2>4. \A f : Stored(f)' <=> Stored(f)
    BY <2>1, StoredUnchanged
  <2>5. ClaimedIsCommitted'
    BY <2>2, <2>3 DEF ClaimedIsCommitted, TypeOK
  <2>6. MarkingIsStored'
    BY <2>2, <2>4 DEF MarkingIsStored
  <2>7. WindowIsStored'
    BY <2>1, <2>4 DEF WindowIsStored
  <2>8. PublishedIsStored'
    BY <2>1, <2>4 DEF PublishedIsStored, TypeOK
  <2>9. StoredIsCommitted'
    BY <2>1, <2>3 DEF StoredIsCommitted, TypeOK
  <2> QED BY <1>0, <2>5, <2>6, <2>7, <2>8, <2>9
<1> QED
  BY <1>1, <1>2, <1>3, <1>4, <1>5, <1>6 DEF PublisherStep

LEMMA InvStep == OutboxInv /\ [Next]_vars => OutboxInv'
<1> SUFFICES ASSUME OutboxInv, [Next]_vars PROVE OutboxInv'
  OBVIOUS
<1>1. ASSUME NEW e \in Events, LeaveWindow(e) PROVE OutboxInv'
  <2>1. TypeOK'
    BY <1>1, TypeStep DEF Next, OutboxInv
  <2>2. window' \subseteq window /\ UNCHANGED <<row, phase, batch, current, stream>>
    BY <1>1 DEF LeaveWindow, tableVars, publisherVars
  <2>3. \A f : (Stored(f)' <=> Stored(f)) /\ (Committed(f)' <=> Committed(f))
    BY <2>2, StoredUnchanged DEF Committed
  <2> QED
    BY <2>1, <2>2, <2>3 DEF OutboxInv, ClaimedIsCommitted, MarkingIsStored,
         WindowIsStored, PublishedIsStored, StoredIsCommitted
<1>2. CASE UNCHANGED vars
  <2>1. TypeOK'
    BY TypeStep DEF OutboxInv
  <2>2. UNCHANGED <<row, phase, batch, current, stream, window>>
    BY <1>2 DEF vars, tableVars, publisherVars, streamVars
  <2>3. \A f : (Stored(f)' <=> Stored(f)) /\ (Committed(f)' <=> Committed(f))
    BY <2>2, StoredUnchanged DEF Committed
  <2> QED
    BY <2>1, <2>2, <2>3 DEF OutboxInv, ClaimedIsCommitted, MarkingIsStored,
         WindowIsStored, PublishedIsStored, StoredIsCommitted
<1> QED
  BY <1>1, <1>2, EnqueuePreservesInv, PublisherPreservesInv DEF Next

\* The inductive invariant holds in every behaviour.
THEOREM InvCorrect == Spec => []OutboxInv
BY InvInit, InvStep, PTL DEF Spec

\* No lost event, for any number of events and publishers: a row marked
\* published has its message in the stream.
THEOREM NoLostEvent == Spec => []PublishedIsStored
BY InvCorrect, PTL DEF OutboxInv

\* No phantom event: every message in the stream has a committed row.
THEOREM NoPhantomEvent == Spec => []StoredIsCommitted
BY InvCorrect, PTL DEF OutboxInv

-----------------------------------------------------------------------------
(* Duplicates.  Copies(e) counts at most one copy per stay of e's id in    *)
(* the window: the ended stays are in expiries[e], the current one in      *)
(* window.                                                                 *)

Positions(e) == {i \in DOMAIN stream : stream[i] = e}

CopiesInv ==
  \A e \in Events : Copies(e) <= expiries[e] + (IF e \in window THEN 1 ELSE 0)

LEMMA PositionsFinite ==
  ASSUME stream \in Seq(Events), NEW e
  PROVE  IsFiniteSet(Positions(e)) /\ Copies(e) = Cardinality(Positions(e)) /\ Copies(e) \in Nat
<1>1. DOMAIN stream = 1 .. Len(stream) /\ Len(stream) \in Nat
  OBVIOUS
<1>2. IsFiniteSet(1 .. Len(stream))
  BY <1>1, FS_Interval
<1>3. IsFiniteSet(Positions(e))
  BY <1>1, <1>2, FS_Subset DEF Positions
<1> QED BY <1>3, FS_CardinalityType DEF Copies, Positions

\* Storing f leaves the copies of every other event alone, and adds one copy
\* of f when f's id is outside the window.
LEMMA CopiesAfterStore ==
  ASSUME stream \in Seq(Events), NEW f \in Events, Store(f), NEW e \in Events
  PROVE  Copies(e)' = IF e = f /\ f \notin window THEN Copies(e) + 1 ELSE Copies(e)
<1>1. CASE f \in window
  <2>1. stream' = stream
    BY <1>1 DEF Store
  <2> QED BY <1>1, <2>1 DEF Copies
<1>2. CASE f \notin window
  <2>1. stream' = Append(stream, f)
    BY <1>2 DEF Store
  <2>2. /\ DOMAIN stream = 1 .. Len(stream)
        /\ DOMAIN stream' = 1 .. Len(stream) + 1
        /\ \A i \in DOMAIN stream : stream'[i] = stream[i]
        /\ stream'[Len(stream) + 1] = f
        /\ Len(stream) \in Nat
    BY <2>1
  <2>3. CASE e = f
    <3>1. Positions(e)' = Positions(e) \cup {Len(stream) + 1}
      BY <2>2, <2>3 DEF Positions
    <3>2. Len(stream) + 1 \notin Positions(e)
      BY <2>2 DEF Positions
    <3>3. Cardinality(Positions(e) \cup {Len(stream) + 1}) = Cardinality(Positions(e)) + 1
      BY <3>2, PositionsFinite, FS_AddElement
    <3>4. Copies(e)' = Cardinality(Positions(e)')
      BY DEF Copies, Positions
    <3> QED BY <1>2, <2>3, <3>1, <3>3, <3>4, PositionsFinite
  <2>4. CASE e # f
    <3>1. Positions(e)' = Positions(e)
      BY <2>2, <2>4 DEF Positions
    <3> QED BY <2>4, <3>1 DEF Copies, Positions
  <2> QED BY <2>3, <2>4
<1> QED BY <1>1, <1>2

LEMMA CopiesUnchanged ==
  ASSUME UNCHANGED stream, NEW e
  PROVE  Copies(e)' = Copies(e)
BY DEF Copies

LEMMA CopiesInit == Init => CopiesInv
<1> SUFFICES ASSUME Init, NEW e \in Events
             PROVE  Copies(e) <= expiries[e] + (IF e \in window THEN 1 ELSE 0)
  BY DEF CopiesInv
<1>1. {i \in DOMAIN stream : stream[i] = e} = {}
  BY DEF Init
<1> QED BY <1>1, FS_EmptySet DEF Init, Copies

LEMMA CopiesStep == TypeOK /\ CopiesInv /\ [Next]_vars => CopiesInv'
<1> SUFFICES ASSUME TypeOK, CopiesInv, [Next]_vars, NEW e \in Events
             PROVE  Copies(e)' <= expiries'[e] + (IF e \in window' THEN 1 ELSE 0)
  BY DEF CopiesInv
<1>1. /\ Copies(e) \in Nat /\ expiries[e] \in Nat
      /\ Copies(e) <= expiries[e] + (IF e \in window THEN 1 ELSE 0)
  BY PositionsFinite DEF CopiesInv, TypeOK
<1>2. CASE UNCHANGED streamVars
  BY <1>1, <1>2, CopiesUnchanged DEF streamVars
<1>3. ASSUME NEW f \in Events, Store(f)
      PROVE  Copies(e)' <= expiries'[e] + (IF e \in window' THEN 1 ELSE 0)
  <2>1. window' = window \cup {f} /\ expiries' = expiries
    BY <1>3 DEF Store
  <2>2. Copies(e)' = IF e = f /\ f \notin window THEN Copies(e) + 1 ELSE Copies(e)
    BY <1>3, CopiesAfterStore DEF TypeOK
  <2> QED BY <1>1, <2>1, <2>2
<1>4. ASSUME NEW f \in Events, LeaveWindow(f)
      PROVE  Copies(e)' <= expiries'[e] + (IF e \in window' THEN 1 ELSE 0)
  <2>1. /\ f \in window /\ window' = window \ {f} /\ UNCHANGED stream
        /\ expiries' = [expiries EXCEPT ![f] = @ + 1]
    BY <1>4 DEF LeaveWindow
  <2>2. Copies(e)' = Copies(e)
    BY <2>1, CopiesUnchanged
  <2>3. expiries'[e] = IF e = f THEN expiries[e] + 1 ELSE expiries[e]
    BY <2>1 DEF TypeOK
  <2> QED BY <1>1, <2>1, <2>2, <2>3
<1>5. \/ UNCHANGED streamVars
      \/ \E f \in Events : Store(f) \/ LeaveWindow(f)
  <2>1. ASSUME NEW f \in Events, EnqueueStep(f) PROVE UNCHANGED streamVars
    BY <2>1 DEF EnqueueStep, BeginEnqueue, CommitEnqueue, RollbackEnqueue
  <2>2. ASSUME NEW p \in Publishers, PublisherStep(p)
        PROVE  UNCHANGED streamVars \/ \E f \in Events : Store(f)
    BY <2>2 DEF PublisherStep, ClaimRows, ClaimCommit, ClaimError, Connect,
       ConnectError, Publish, PublishError, MarkPublished, MarkPublishedError,
       LoseConnection, RestartPublisher
  <2> QED BY <2>1, <2>2 DEF Next, vars
<1> QED BY <1>2, <1>3, <1>4, <1>5

\* Exactly-once into the stream up to the dedup window: overlapping claims
\* and republished rows add a copy of an event only after its id has left
\* the window.
THEOREM DuplicatesExplained == Spec => []DuplicatesAreExplained
<1>1. TypeOK /\ CopiesInv => DuplicatesAreExplained
  <2> SUFFICES ASSUME TypeOK, CopiesInv, NEW e \in Events
               PROVE  Copies(e) <= expiries[e] + 1
    BY DEF DuplicatesAreExplained
  <2>1. expiries[e] \in Nat /\ Copies(e) \in Nat
    BY PositionsFinite DEF TypeOK
  <2> QED BY <2>1 DEF CopiesInv
<1> QED BY <1>1, CopiesInit, CopiesStep, TypeCorrect, PTL DEF Spec

-----------------------------------------------------------------------------
\* One step after an event is finished it is still finished, with the same
\* copies: only claims bring an event back into a batch, and they take
\* pending rows.
LEMMA FinishedStep ==
  ASSUME TypeOK, [Next]_vars, NEW e \in Events, Finished(e)
  PROVE  Finished(e)' /\ Copies(e)' = Copies(e)
<1>0. row[e] = "published" /\ \A q \in Publishers : e \notin batch[q]
  BY DEF Finished
<1>1. ASSUME NEW f \in Events, EnqueueStep(f) PROVE Finished(e)' /\ Copies(e)' = Copies(e)
  <2>1. row'[e] = row[e] /\ UNCHANGED <<batch, stream>>
    BY <1>0, <1>1 DEF EnqueueStep, BeginEnqueue, CommitEnqueue, RollbackEnqueue,
       publisherVars, streamVars, TypeOK
  <2> QED BY <1>0, <2>1, CopiesUnchanged DEF Finished
<1>2. ASSUME NEW f \in Events, LeaveWindow(f) PROVE Finished(e)' /\ Copies(e)' = Copies(e)
  BY <1>0, <1>2, CopiesUnchanged DEF LeaveWindow, tableVars, publisherVars, Finished
<1>3. CASE UNCHANGED vars
  BY <1>0, <1>3, CopiesUnchanged DEF vars, tableVars, publisherVars, streamVars, Finished
<1>4. ASSUME NEW p \in Publishers, PublisherStep(p)
      PROVE  Finished(e)' /\ Copies(e)' = Copies(e)
  <2>1. CASE ClaimRows(p)
    <3>1. \E T \in SUBSET Claimable : batch' = [batch EXCEPT ![p] = T]
      BY <2>1 DEF ClaimRows
    <3>2. e \notin Claimable
      BY <1>0 DEF Claimable
    <3>3. \A q \in Publishers : e \notin batch'[q]
      BY <1>0, <3>1, <3>2 DEF TypeOK
    <3>4. UNCHANGED <<row, stream>>
      BY <2>1 DEF ClaimRows, tableVars, streamVars
    <3> QED BY <1>0, <3>3, <3>4, CopiesUnchanged DEF Finished
  <2>2. CASE ClaimCommit(p) \/ Connect(p) \/ LoseConnection(p)
    <3>1. UNCHANGED <<row, batch, stream>>
      BY <2>2 DEF ClaimCommit, Connect, LoseConnection, tableVars, streamVars
    <3> QED BY <1>0, <3>1, CopiesUnchanged DEF Finished
  <2>3. CASE ClaimError(p) \/ ConnectError(p) \/ MarkPublishedError(p) \/ RestartPublisher(p)
    <3>1. Return(p) /\ UNCHANGED <<row, stream>>
      BY <2>3 DEF ClaimError, ConnectError, MarkPublishedError, RestartPublisher,
                  tableVars, streamVars
    <3>2. \A q \in Publishers : e \notin batch'[q]
      BY <1>0, <3>1 DEF Return, TypeOK
    <3> QED BY <1>0, <3>1, <3>2, CopiesUnchanged DEF Finished
  <2>4. ASSUME NEW f \in Events, Publish(p, f)
        PROVE  Finished(e)' /\ Copies(e)' = Copies(e)
    <3>1. f # e /\ Store(f) /\ UNCHANGED <<row, batch>>
      BY <1>0, <2>4 DEF Publish, tableVars
    <3> QED BY <1>0, <3>1, CopiesAfterStore DEF Finished, TypeOK
  <2>5. ASSUME NEW f \in Events, PublishError(p, f)
        PROVE  Finished(e)' /\ Copies(e)' = Copies(e)
    <3>1. /\ f # e /\ NextRecord(p, f) /\ UNCHANGED row
          /\ UNCHANGED stream \/ Store(f)
      BY <1>0, <2>5 DEF PublishError, tableVars, streamVars
    <3>2. \A q \in Publishers : e \notin batch'[q]
      BY <1>0, <3>1 DEF NextRecord, TypeOK
    <3>3. Copies(e)' = Copies(e)
      BY <3>1, CopiesAfterStore, CopiesUnchanged DEF TypeOK
    <3> QED BY <1>0, <3>1, <3>2, <3>3 DEF Finished
  <2>6. CASE MarkPublished(p)
    <3>1. /\ row' = [row EXCEPT ![current[p]] = "published"]
          /\ NextRecord(p, current[p]) /\ UNCHANGED stream
      BY <2>6 DEF MarkPublished, streamVars
    <3>2. \A q \in Publishers : e \notin batch'[q]
      BY <1>0, <3>1 DEF NextRecord, TypeOK
    <3>3. row'[e] = "published"
      BY <1>0, <3>1 DEF TypeOK
    <3> QED BY <3>1, <3>2, <3>3, CopiesUnchanged DEF Finished
  <2> QED BY <1>4, <2>1, <2>2, <2>3, <2>4, <2>5, <2>6 DEF PublisherStep
<1> QED BY <1>1, <1>2, <1>3, <1>4 DEF Next

\* A published event no publisher carries any more is settled for good.
THEOREM FinishedStaysFinished == Spec => FinishedForGood
<1>1. TypeOK /\ [Next]_vars =>
        [\A e \in Events : Finished(e) => Finished(e)' /\ Copies(e)' = Copies(e)]_vars
  BY FinishedStep
<1> QED BY <1>1, TypeCorrect, PTL DEF Spec, FinishedForGood

-----------------------------------------------------------------------------
(* The bus.                                                                *)

CP == INSTANCE EventConsumerProofs WITH MaxMessages <- StreamBound

\* Whatever took effect is in the stream, hence (StoredIsCommitted) committed.
HandledIsStored == \A e \in Events : handled[e] > 0 => Stored(e)

BusInv ==
  /\ OutboxInv
  /\ CopiesInv
  /\ CP!ConsumerInv
  /\ CP!AttemptsInv
  /\ CP!OneLoop => CP!RepeatInv
  /\ HandledIsStored

LEMMA StreamBoundType == StreamBound \in Nat
BY OutboxAssumption, FS_CardinalityType DEF StreamBound

LEMMA ConsumerFits == CP!ConsumerAssumption
BY BusAssumption, StreamBoundType DEF CP!ConsumerAssumption

\* The two instances of the consumer say the same.
LEMMA SameCardinality == \A S : C!Cardinality(S) = CP!Cardinality(S)
BY DEF C!Cardinality, CP!Cardinality

LEMMA SameConsumer == C!ConsumerNext => CP!ConsumerNext
<1> USE DEF C!Take, C!Settle, C!Nak, C!Release, C!Messages, C!JobEvent,
            C!brokerVars, C!loopVars, C!recordVars,
            CP!Take, CP!Settle, CP!Nak, CP!Release, CP!Messages, CP!JobEvent,
            CP!brokerVars, CP!loopVars, CP!recordVars
<1>1. ASSUME C!BrokerStep PROVE CP!BrokerStep
  <2>1. ASSUME NEW i \in C!Messages, NEW c \in Consumers, C!Deliver(c, i) PROVE CP!Deliver(c, i)
    BY <2>1, SameCardinality DEF C!Deliver, CP!Deliver, C!Due, CP!Due
  <2>2. ASSUME NEW i \in C!Messages, C!LoseDelivery(i) PROVE CP!LoseDelivery(i)
    BY <2>2, SameCardinality DEF C!LoseDelivery, CP!LoseDelivery, C!Due, CP!Due
  <2> QED
    BY <1>1, <2>1, <2>2 DEF C!BrokerStep, CP!BrokerStep, C!AckTimeout, CP!AckTimeout,
                      C!Expire, CP!Expire
<1>2. ASSUME NEW c \in Consumers, C!HandleStep(c) PROVE CP!HandleStep(c)
  <2>1. ASSUME NEW d \in inbox[c]
        PROVE  /\ C!Terminate(c, d) => CP!Terminate(c, d)
               /\ C!CheckError(c, d) => CP!CheckError(c, d)
               /\ C!AlreadyProcessed(c, d) => CP!AlreadyProcessed(c, d)
               /\ C!StartHandler(c, d) => CP!StartHandler(c, d)
    BY DEF C!Terminate, CP!Terminate, C!CheckError, CP!CheckError,
           C!AlreadyProcessed, CP!AlreadyProcessed, C!StartHandler, CP!StartHandler
  <2>2. /\ C!HandlerReturns(c) => CP!HandlerReturns(c)
        /\ C!HandlerError(c) => CP!HandlerError(c)
        /\ C!MarkProcessed(c) => CP!MarkProcessed(c)
        /\ C!MarkError(c) => CP!MarkError(c)
    BY DEF C!HandlerReturns, CP!HandlerReturns, C!HandlerError, CP!HandlerError,
           C!MarkProcessed, CP!MarkProcessed, C!MarkError, CP!MarkError
  <2> QED BY <1>2, <2>1, <2>2 DEF C!HandleStep, CP!HandleStep
<1>3. ASSUME NEW c \in Consumers, C!Drop(c) PROVE CP!Drop(c)
  BY <1>3, SameCardinality DEF C!Drop, CP!Drop, C!InHand, CP!InHand
<1>4. ASSUME NEW c \in Consumers
      PROVE  /\ C!RunReturns(c) => CP!RunReturns(c)
             /\ C!RestartConsumer(c) => CP!RestartConsumer(c)
  BY <1>3 DEF C!RunReturns, CP!RunReturns, C!RestartConsumer, CP!RestartConsumer
<1> QED BY <1>1, <1>2, <1>4 DEF C!ConsumerNext, CP!ConsumerNext

LEMMA BusInvInit == BusInit => BusInv
<1> SUFFICES ASSUME BusInit PROVE BusInv
  OBVIOUS
<1>1. OutboxInv
  BY InvInit DEF BusInit
<1>6. CopiesInv
  BY CopiesInit DEF BusInit
<1>2. stream \in Seq(Events)
  BY <1>1 DEF OutboxInv, TypeOK
<1>3. CP!ConsumerInit
  BY DEF BusInit, C!ConsumerInit, CP!ConsumerInit, C!Messages, CP!Messages
<1>4. CP!ConsumerInv
  BY <1>2, <1>3, ConsumerFits, CP!ConsumerInvInit
<1>7. CP!AttemptsInv
  BY <1>3, ConsumerFits, CP!AttemptsInit
<1>8. CP!RepeatInv
  BY <1>3, ConsumerFits, CP!RepeatInit
<1>5. HandledIsStored
  BY DEF BusInit, C!ConsumerInit, HandledIsStored
<1> QED BY <1>1, <1>4, <1>5, <1>6, <1>7, <1>8 DEF BusInv

\* Producers only append to the stream.
LEMMA StreamGrows ==
  ASSUME OutboxInv, OutboxInv', [Next]_vars
  PROVE  CP!Grows
<1>1. stream \in Seq(Events) /\ stream' \in Seq(Events)
  BY DEF OutboxInv, TypeOK
<1>2. UNCHANGED stream \/ \E e \in Events : stream' = Append(stream, e)
  BY DEF Next, EnqueueStep, PublisherStep, vars, tableVars, publisherVars, streamVars,
         BeginEnqueue, CommitEnqueue, RollbackEnqueue, LeaveWindow, ClaimRows, ClaimCommit,
         ClaimError, Connect, ConnectError, Publish, PublishError, Store, MarkPublished,
         MarkPublishedError, LoseConnection, RestartPublisher
<1> QED BY <1>1, <1>2 DEF CP!Grows

LEMMA StoredStays ==
  ASSUME CP!Grows, stream \in Seq(Events), NEW e, Stored(e)
  PROVE  Stored(e)'
<1>1. PICK i \in DOMAIN stream : stream[i] = e
  BY DEF Stored
<1>2. i \in DOMAIN stream' /\ stream'[i] = e
  BY <1>1 DEF CP!Grows
<1> QED BY <1>2 DEF Stored

\* What a consumer step does to the three tables the promise is about.
LEMMA ConsumerEffect ==
  ASSUME CP!ConsumerInv, CP!ConsumerNext
  PROVE  \/ UNCHANGED <<handled, processed>>
         \/ \E e \in Events : /\ \E i \in DOMAIN stream : stream[i] = e
                              /\ handled' = [handled EXCEPT ![e] = @ + 1]
                              /\ processed' = processed
         \/ \E e \in Events : /\ handled[e] > 0
                              /\ processed' = processed \cup {e}
                              /\ handled' = handled
<1>1. CASE CP!BrokerStep
  BY <1>1 DEF CP!BrokerStep, CP!AckTimeout, CP!Deliver, CP!LoseDelivery,
              CP!Expire, CP!recordVars
<1>2. ASSUME NEW c \in Consumers, CP!RunReturns(c) \/ CP!RestartConsumer(c)
      PROVE  UNCHANGED <<handled, processed>>
  BY <1>2 DEF CP!RunReturns, CP!RestartConsumer
<1>3. ASSUME NEW c \in Consumers, NEW d \in inbox[c],
             \/ CP!Terminate(c, d) \/ CP!CheckError(c, d)
             \/ CP!AlreadyProcessed(c, d) \/ CP!StartHandler(c, d)
      PROVE  UNCHANGED <<handled, processed>>
  BY <1>3 DEF CP!Terminate, CP!CheckError, CP!AlreadyProcessed, CP!StartHandler, CP!recordVars
<1>4. ASSUME NEW c \in Consumers, CP!HandlerReturns(c) \/ CP!HandlerError(c)
      PROVE  \/ UNCHANGED <<handled, processed>>
             \/ \E e \in Events : /\ \E i \in DOMAIN stream : stream[i] = e
                                  /\ handled' = [handled EXCEPT ![e] = @ + 1]
                                  /\ processed' = processed
  <2>1. step[c] # "idle" /\ job[c] \in DOMAIN stream
    BY <1>4 DEF CP!HandlerReturns, CP!HandlerError, CP!ConsumerInv, CP!JobIsStored
  <2>2. CP!JobEvent(c) \in Events /\ CP!JobEvent(c) = stream[job[c]]
    BY <2>1 DEF CP!JobEvent, CP!ConsumerInv, CP!TypeOK
  <2>3. /\ processed' = processed
        /\ \/ handled' = handled
           \/ handled' = [handled EXCEPT ![CP!JobEvent(c)] = @ + 1]
    BY <1>4 DEF CP!HandlerReturns, CP!HandlerError
  <2> QED BY <2>1, <2>2, <2>3
<1>5. ASSUME NEW c \in Consumers, CP!MarkProcessed(c) \/ CP!MarkError(c)
      PROVE  \/ UNCHANGED <<handled, processed>>
             \/ \E e \in Events : /\ handled[e] > 0
                                  /\ processed' = processed \cup {e}
                                  /\ handled' = handled
  <2>1. step[c] = "marking" /\ handled' = handled
    BY <1>5 DEF CP!MarkProcessed, CP!MarkError
  <2>2. handled[CP!JobEvent(c)] > 0 /\ CP!JobEvent(c) \in Events
    BY <2>1 DEF CP!ConsumerInv, CP!MarkingIsHandled, CP!JobIsStored, CP!JobEvent, CP!TypeOK
  <2>3. processed' = processed \/ processed' = processed \cup {CP!JobEvent(c)}
    BY <1>5 DEF CP!MarkProcessed, CP!MarkError
  <2> QED BY <2>1, <2>2, <2>3
<1> QED BY <1>1, <1>2, <1>3, <1>4, <1>5 DEF CP!ConsumerNext, CP!HandleStep

LEMMA BusInvStep == BusInv /\ [BusNext]_busVars => BusInv'
<1> SUFFICES ASSUME BusInv, [BusNext]_busVars PROVE BusInv'
  OBVIOUS
<1> USE DEF BusInv
<1>1. CASE [Next]_vars /\ UNCHANGED consumerState
  <2>1. OutboxInv'
    BY <1>1, InvStep
  <2>6. CopiesInv'
    BY <1>1, CopiesStep DEF OutboxInv
  <2>2. CP!Grows
    BY <1>1, <2>1, StreamGrows
  <2>3. UNCHANGED CP!consumerVars
    BY <1>1 DEF consumerState, CP!consumerVars, CP!brokerVars, CP!loopVars, CP!recordVars
  <2>4. CP!ConsumerInv'
    BY <2>2, <2>3, ConsumerFits, CP!GrowthPreservesInv
  <2>7. CP!AttemptsInv'
    BY <2>2, <2>3, ConsumerFits, CP!GrowthPreservesAttempts
  <2>8. (CP!OneLoop => CP!RepeatInv)'
    BY <2>2, <2>3, ConsumerFits, CP!GrowthPreservesRepeat DEF CP!OneLoop
  <2>5. HandledIsStored'
    BY <1>1, <2>2, StoredStays DEF HandledIsStored, consumerState, OutboxInv, TypeOK
  <2> QED BY <2>1, <2>4, <2>5, <2>6, <2>7, <2>8
<1>2. CASE ConsumerSide
  <2>1. UNCHANGED vars /\ CP!ConsumerNext
    BY <1>2, SameConsumer DEF ConsumerSide
  <2>2. OutboxInv'
    BY <2>1, InvStep
  <2>5. CopiesInv'
    BY <2>1, CopiesStep DEF OutboxInv
  <2>3. CP!ConsumerInv'
    BY <2>1, ConsumerFits, CP!ConsumerStepPreservesInv
  <2>6. CP!AttemptsInv'
    BY <2>1, ConsumerFits, CP!ConsumerStepPreservesAttempts
  <2>7. (CP!OneLoop => CP!RepeatInv)'
    BY <2>1, ConsumerFits, CP!ConsumerStepPreservesRepeat DEF CP!OneLoop
  <2>4. HandledIsStored'
    <3>1. stream' = stream
      BY <2>1 DEF vars, streamVars
    <3>2. \A e \in Events : handled'[e] > 0 => handled[e] > 0 \/ Stored(e)
      BY <2>1, ConsumerFits, ConsumerEffect DEF CP!ConsumerInv, CP!TypeOK, Stored
    <3> QED BY <3>1, <3>2 DEF HandledIsStored, Stored
  <2> QED BY <2>2, <2>3, <2>4, <2>5, <2>6, <2>7
<1> QED BY <1>1, <1>2 DEF BusNext, ProducerSide, busVars

\* The invariant of the composition holds in every behaviour of the bus.
THEOREM BusInvCorrect == BusSpec => []BusInv
BY BusInvInit, BusInvStep, PTL DEF BusSpec

-----------------------------------------------------------------------------
(* Nothing falls between the two halves.                                   *)

\* Copies of message i's event that were stored before it.
Earlier(i) == {j \in DOMAIN stream : j < i /\ stream[j] = stream[i]}

LEMMA EarlierIsBounded ==
  ASSUME OutboxInv, CopiesInv, NEW i \in DOMAIN stream
  PROVE  IsFiniteSet(Earlier(i)) /\ Cardinality(Earlier(i)) \in 0 .. MaxExpiries
<1>1. /\ stream \in Seq(Events) /\ stream[i] \in Events
      /\ expiries[stream[i]] \in 0 .. MaxExpiries
  BY DEF OutboxInv, TypeOK
<1>2. /\ IsFiniteSet(Positions(stream[i]))
      /\ Copies(stream[i]) = Cardinality(Positions(stream[i]))
      /\ Copies(stream[i]) \in Nat
  BY <1>1, PositionsFinite
<1>3. Copies(stream[i]) <= MaxExpiries + 1
  BY <1>1, <1>2, OutboxAssumption DEF CopiesInv
<1>4. /\ i \in Positions(stream[i])
      /\ Earlier(i) \subseteq Positions(stream[i]) \ {i}
  BY <1>1 DEF Positions, Earlier
<1>5. /\ IsFiniteSet(Positions(stream[i]) \ {i})
      /\ Cardinality(Positions(stream[i]) \ {i}) = Copies(stream[i]) - 1
  BY <1>2, <1>4, FS_RemoveElement
<1>6. /\ IsFiniteSet(Earlier(i))
      /\ Cardinality(Earlier(i)) <= Copies(stream[i]) - 1
  BY <1>4, <1>5, FS_Subset
<1> QED BY <1>2, <1>3, <1>6, FS_CardinalityType, OutboxAssumption

\* Deduplication keeps the stream within StreamBound: a message is told from
\* all others by its event and the number of earlier copies, and there are no
\* more such pairs than that.
LEMMA StreamFits ==
  ASSUME OutboxInv, CopiesInv
  PROVE  Len(stream) <= StreamBound
<1> DEFINE Pairs == Events \X (0 .. MaxExpiries)
           f == [i \in DOMAIN stream |-> <<stream[i], Cardinality(Earlier(i))>>]
<1>1. /\ stream \in Seq(Events) /\ Len(stream) \in Nat
      /\ DOMAIN stream = 1 .. Len(stream)
  BY DEF OutboxInv, TypeOK
<1>2. IsFiniteSet(DOMAIN stream) /\ Cardinality(DOMAIN stream) = Len(stream)
  BY <1>1, FS_Interval
<1>3. IsFiniteSet(Pairs) /\ Cardinality(Pairs) = StreamBound
  <2>1. IsFiniteSet(0 .. MaxExpiries) /\ Cardinality(0 .. MaxExpiries) = MaxExpiries + 1
    BY FS_Interval, OutboxAssumption
  <2> QED BY <2>1, FS_Product, OutboxAssumption DEF StreamBound
<1>4. f \in [DOMAIN stream -> Pairs]
  BY <1>1, EarlierIsBounded
<1>5. ASSUME NEW i \in DOMAIN stream, NEW k \in DOMAIN stream, i < k, stream[i] = stream[k]
      PROVE  Cardinality(Earlier(i)) # Cardinality(Earlier(k))
  <2>1. Earlier(i) \cup {i} \subseteq Earlier(k) /\ i \notin Earlier(i)
    BY <1>1, <1>5 DEF Earlier
  <2>2. /\ IsFiniteSet(Earlier(i)) /\ Cardinality(Earlier(i)) \in Nat
        /\ IsFiniteSet(Earlier(k)) /\ Cardinality(Earlier(k)) \in Nat
    BY EarlierIsBounded
  <2>3. Cardinality(Earlier(i) \cup {i}) = Cardinality(Earlier(i)) + 1
    BY <2>1, <2>2, FS_AddElement
  <2>4. Cardinality(Earlier(i) \cup {i}) <= Cardinality(Earlier(k))
    BY <2>1, <2>2, FS_Subset
  <2> QED BY <2>2, <2>3, <2>4
<1>6. \A i, k \in DOMAIN stream : i # k => f[i] # f[k]
  <2> SUFFICES ASSUME NEW i \in DOMAIN stream, NEW k \in DOMAIN stream, i # k,
                      stream[i] = stream[k]
               PROVE  Cardinality(Earlier(i)) # Cardinality(Earlier(k))
    OBVIOUS
  <2>1. i < k \/ k < i
    BY <1>1
  <2> QED BY <1>5, <2>1
<1>7. ~ (Cardinality(Pairs) < Cardinality(DOMAIN stream))
  <2> HIDE DEF f, Pairs
  <2> QED BY <1>2, <1>3, <1>4, <1>6, FS_PigeonHole
<1> QED BY <1>1, <1>2, <1>3, <1>7, StreamBoundType

\* A published row of the handler's is on record, or one of its messages can
\* still reach the handler, or the broker is known to have given it up: for
\* any number of publishers, loops, crashes, expiries and failures.
THEOREM NothingIsLostBetween == BusSpec => []NothingFallsBetween
<1>1. BusInv => NothingFallsBetween
  <2> SUFFICES ASSUME BusInv, NEW e \in Events, row[e] = "published",
                      e \in Subscribed \ Undecodable, e \notin processed
               PROVE  \E i \in DOMAIN stream :
                        /\ stream[i] = e
                        /\ i \notin settled
                        /\ \/ i <= floor
                           \/ failed[i] = MaxDeliver
                           \/ delivered[i] < MaxDeliver
                           \/ \E c \in Consumers : C!InHand(c, i) > 0
    BY DEF NothingFallsBetween
  <2> USE DEF BusInv
  <2>1. PICK i \in DOMAIN stream : stream[i] = e
    BY DEF OutboxInv, PublishedIsStored, Stored
  <2>2. i \notin settled
    BY <2>1 DEF CP!ConsumerInv, CP!SettledIsProcessed
  <2>3. i \in CP!Messages
    BY StreamFits, StreamBoundType DEF CP!Messages, OutboxInv, TypeOK
  <2>4. delivered[i] \in 0 .. MaxDeliver
    BY <2>3 DEF CP!ConsumerInv, CP!TypeOK
  <2>5. ~ CP!Excused(i)
    BY <2>1 DEF CP!Excused
  <2>6. CASE \A c \in Consumers : CP!InHand(c, i) = 0
    <3>1. failed[i] = delivered[i]
      BY <2>3, <2>5, <2>6, ConsumerFits, CP!UnheldHasFailed DEF CP!ConsumerInv
    <3>2. failed[i] = MaxDeliver \/ delivered[i] < MaxDeliver
      BY <2>4, <3>1, BusAssumption
    <3> QED BY <2>1, <2>2, <3>2
  <2>7. ASSUME NEW c \in Consumers, CP!InHand(c, i) # 0
        PROVE  C!InHand(c, i) > 0
    <3>1. CP!InHand(c, i) \in Nat
      BY <2>3, ConsumerFits, CP!InHandType DEF CP!ConsumerInv
    <3>2. C!InHand(c, i) = CP!InHand(c, i)
      BY SameCardinality DEF C!InHand, CP!InHand
    <3> QED BY <2>7, <3>1, <3>2
  <2> QED BY <2>1, <2>2, <2>6, <2>7
<1> QED BY <1>1, BusInvCorrect, PTL

\* A single loop repeats an effect only after a failure between the effect
\* and its record, whatever is republished and redelivered to it.
THEOREM RepeatsAreExplained == BusSpec => []RepeatIsExplained
<1>1. BusInv => RepeatIsExplained
  <2> SUFFICES ASSUME BusInv, Cardinality(Consumers) = 1,
                      NEW e \in Events, handled[e] > 1, e \notin interrupted
               PROVE  FALSE
    BY DEF RepeatIsExplained
  <2>1. \E c : Consumers = {c}
    BY BusAssumption, FS_Singleton
  <2>2. CP!RepeatInv
    BY <2>1 DEF BusInv, CP!OneLoop
  <2>3. handled[e] <= 1 /\ handled[e] \in Nat
    BY <2>2 DEF CP!RepeatInv, CP!EffectIsKnown, BusInv, CP!ConsumerInv, CP!TypeOK
  <2> QED BY <2>3
<1> QED BY <1>1, BusInvCorrect, PTL

-----------------------------------------------------------------------------
(* The refinement.                                                         *)

\* A producer or publisher step moves at most one row.
LEMMA RowEffect ==
  ASSUME OutboxInv, [Next]_vars
  PROVE  \/ row' = row
         \/ \E e \in Events :
              /\ row[e] = "absent" /\ row' = [row EXCEPT ![e] = "open"]
         \/ \E e \in Events :
              /\ row[e] = "open" /\ row' = [row EXCEPT ![e] = "absent"]
         \/ \E e \in Events :
              /\ row[e] = "open" /\ row' = [row EXCEPT ![e] = "pending"]
         \/ \E e \in Events :
              /\ Committed(e) /\ row' = [row EXCEPT ![e] = "published"]
<1>1. ASSUME NEW e \in Events, EnqueueStep(e) \/ LeaveWindow(e)
      PROVE  \/ row' = row
             \/ row[e] = "absent" /\ row' = [row EXCEPT ![e] = "open"]
             \/ row[e] = "open" /\ row' = [row EXCEPT ![e] = "absent"]
             \/ row[e] = "open" /\ row' = [row EXCEPT ![e] = "pending"]
  BY <1>1 DEF EnqueueStep, BeginEnqueue, CommitEnqueue, RollbackEnqueue, LeaveWindow, tableVars
<1>2. ASSUME NEW p \in Publishers, PublisherStep(p), ~MarkPublished(p)
      PROVE  row' = row
  BY <1>2 DEF PublisherStep, tableVars, ClaimRows, ClaimCommit, ClaimError, Connect,
              ConnectError, Publish, PublishError, MarkPublishedError, LoseConnection,
              RestartPublisher
<1>3. ASSUME NEW p \in Publishers, MarkPublished(p)
      PROVE  \E e \in Events : Committed(e) /\ row' = [row EXCEPT ![e] = "published"]
  <2>1. /\ phase[p] = "marking"
        /\ row' = [row EXCEPT ![current[p]] = "published"]
    BY <1>3 DEF MarkPublished
  <2>2. current[p] \in Events /\ Stored(current[p])
    BY <2>1 DEF OutboxInv, TypeOK, MarkingIsStored
  <2>3. Committed(current[p])
    BY <2>2 DEF OutboxInv, StoredIsCommitted, Stored
  <2> QED BY <2>1, <2>2, <2>3
<1> QED BY <1>1, <1>2, <1>3 DEF Next, vars, tableVars

LEMMA InitKeeps == BusInit => Promise!Init
BY DEF BusInit, Init, C!ConsumerInit, Promise!Init, Committed

LEMMA StepKeeps == BusInv /\ [BusNext]_busVars => [Promise!Next]_(Promise!vars)
<1> SUFFICES ASSUME BusInv, [BusNext]_busVars PROVE [Promise!Next]_(Promise!vars)
  OBVIOUS
<1> USE DEF BusInv
<1> DEFINE accepted == {e \in Events : Committed(e)}
           relayed == {e \in Events : row[e] = "published"}
           effected == {e \in Events : handled[e] > 0}
<1>1. CASE [Next]_vars /\ UNCHANGED consumerState
  <2>1. effected' = effected /\ processed' = processed
    BY <1>1 DEF consumerState
  <2>2. row \in [Events -> {"absent", "open", "pending", "published"}]
    BY DEF OutboxInv, TypeOK
  <2>3. CASE row' = row
    <3>1. accepted' = accepted /\ relayed' = relayed
      BY <2>3 DEF Committed
    <3> QED BY <2>1, <3>1 DEF Promise!vars
  <2>4. ASSUME NEW e \in Events, row[e] = "open" \/ row[e] = "absent",
               \/ row' = [row EXCEPT ![e] = "open"]
               \/ row' = [row EXCEPT ![e] = "absent"]
        PROVE  accepted' = accepted /\ relayed' = relayed
    BY <2>2, <2>4 DEF Committed
  <2>5. ASSUME NEW e \in Events, row[e] = "open", row' = [row EXCEPT ![e] = "pending"]
        PROVE  Promise!Accept(e)
    <3>1. accepted' = accepted \cup {e} /\ relayed' = relayed
      BY <2>2, <2>5 DEF Committed
    <3> QED BY <2>1, <3>1 DEF Promise!Accept
  <2>6. ASSUME NEW e \in Events, Committed(e), row' = [row EXCEPT ![e] = "published"]
        PROVE  Promise!Relay(e)
    <3>1. accepted' = accepted /\ relayed' = relayed \cup {e} /\ e \in accepted
      BY <2>2, <2>6 DEF Committed
    <3> QED BY <2>1, <3>1 DEF Promise!Relay
  <2> QED
    BY <1>1, <2>1, <2>3, <2>4, <2>5, <2>6, RowEffect DEF Promise!Next, Promise!vars
<1>2. CASE ConsumerSide
  <2>1. UNCHANGED vars /\ CP!ConsumerNext
    BY <1>2, SameConsumer DEF ConsumerSide
  <2>2. accepted' = accepted /\ relayed' = relayed
    BY <2>1 DEF vars, tableVars, Committed
  <2>3. handled \in [Events -> Nat]
    BY DEF CP!ConsumerInv, CP!TypeOK
  <2>4. CASE UNCHANGED <<handled, processed>>
    <3>1. effected' = effected
      BY <2>4
    <3> QED BY <2>2, <2>4, <3>1 DEF Promise!vars
  <2>5. ASSUME NEW e \in Events, \E i \in DOMAIN stream : stream[i] = e,
               handled' = [handled EXCEPT ![e] = @ + 1], processed' = processed
        PROVE  Promise!TakeEffect(e)
    <3>1. effected' = effected \cup {e}
      BY <2>3, <2>5
    <3>2. e \in accepted
      BY <2>5 DEF OutboxInv, StoredIsCommitted
    <3> QED BY <2>2, <2>5, <3>1, <3>2 DEF Promise!TakeEffect
  <2>6. ASSUME NEW e \in Events, handled[e] > 0, processed' = processed \cup {e},
               handled' = handled
        PROVE  Promise!Record(e)
    <3>1. effected' = effected /\ e \in effected
      BY <2>6
    <3> QED BY <2>2, <2>6, <3>1 DEF Promise!Record
  <2> QED BY <2>1, <2>4, <2>5, <2>6, ConsumerFits, ConsumerEffect DEF Promise!Next
<1> QED BY <1>1, <1>2 DEF BusNext, ProducerSide, busVars

\* The detailed bus implements the abstract promise: no event takes effect
\* before its transaction has committed, none is recorded before it took
\* effect, and none of these facts is ever taken back.
THEOREM BusKeepsPromise == BusSpec => KeepsPromise
BY InitKeeps, StepKeeps, BusInvCorrect, PTL DEF BusSpec, KeepsPromise, Promise!Spec

=============================================================================
