-------------------------- MODULE SyncRecordsProofs --------------------------
(***************************************************************************)
(* Every record the code computes from a coherent record is a coherent     *)
(* record: one lemma per place where app.go and api.go build one.          *)
(***************************************************************************)
EXTENDS SyncRecords, TLAPS

\* davHandler builds its record from scratch, so the old one need not even be
\* coherent for the new one to be.
LEMMA UploadedCoherent ==
    ASSUME NEW p \in Percent, NEW old \in Entry \union {None}
    PROVE  Uploaded(p, old) \in Entry /\ Coherent(Uploaded(p, old))
  BY DEF Uploaded, Entry, Percent, Errors, Coherent, QueueOK, WarningOK

\* push without a mapping.
LEMMA UnmappedCoherent ==
    ASSUME NEW e \in Entry, Coherent(e)
    PROVE  Unmapped(e) \in Entry /\ Coherent(Unmapped(e))
  BY DEF Unmapped, Entry, Percent, Errors, Coherent, QueueOK, WarningOK

\* syncFailure: an empty queue is filled with the stored percentage, a filled
\* one already holds it.
LEMMA FailedCoherent ==
    ASSUME NEW e \in Entry, Coherent(e), NEW kind \in Errors
    PROVE  Failed(e, kind) \in Entry /\ Coherent(Failed(e, kind))
  BY DEF Failed, Entry, Percent, Errors, Coherent, QueueOK, WarningOK

\* push after the backend's answer.
LEMMA DeliveredCoherent ==
    ASSUME NEW e \in Entry, Coherent(e), NEW target \in Percent
    PROVE  Delivered(e, target) \in Entry /\ Coherent(Delivered(e, target))
  BY DEF Delivered, Entry, Percent, Errors, Coherent, QueueOK, WarningOK, Tol

\* reconcile records what it pulled; the record was not queued, or it would
\* have been pushed.
LEMMA ObservedCoherent ==
    ASSUME NEW e \in Entry, Coherent(e), NEW r \in State
    PROVE  Observed(e, r) \in Entry /\ Coherent(Observed(e, r))
  BY DEF Observed, Entry, State, Percent, Errors, Coherent, QueueOK, WarningOK, Tol

\* applyRemoteExact adopts what it pulled.
LEMMA AdoptedCoherent ==
    ASSUME NEW e \in Entry, NEW r \in State
    PROVE  Adopted(e, r) \in Entry /\ Coherent(Adopted(e, r))
  BY DEF Adopted, Entry, State, Percent, Errors, Coherent, QueueOK, WarningOK

\* reconcile after a refused pull.
LEMMA ErroredCoherent ==
    ASSUME NEW e \in Entry, Coherent(e)
    PROVE  Errored(e) \in Entry /\ Coherent(Errored(e))
  BY DEF Errored, Entry, Percent, Errors, Coherent, QueueOK, WarningOK

\* keep-moon, first Put.
LEMMA KeptClearCoherent ==
    ASSUME NEW e \in Entry, Coherent(e)
    PROVE  KeptClear(e) \in Entry /\ Coherent(KeptClear(e))
  BY DEF KeptClear, Entry, Percent, Errors, Coherent, QueueOK, WarningOK

\* keep-moon, second Put.
LEMMA KeptQueueCoherent ==
    ASSUME NEW e \in Entry, Coherent(e)
    PROVE  KeptQueue(e) \in Entry /\ Coherent(KeptQueue(e))
  BY DEF KeptQueue, Entry, Percent, Errors, Coherent, QueueOK, WarningOK

\* ignore-until-caught-up
LEMMA IgnoredCoherent ==
    ASSUME NEW e \in Entry, Coherent(e)
    PROVE  Ignored(e) \in Entry /\ Coherent(Ignored(e))
  BY DEF Ignored, Entry, Percent, Errors, Coherent, QueueOK, WarningOK

\* NextRetryAt passes.
LEMMA ElapsedCoherent ==
    ASSUME NEW e \in Entry, Coherent(e)
    PROVE  /\ [e EXCEPT !.retryLater = FALSE] \in Entry
           /\ Coherent([e EXCEPT !.retryLater = FALSE])
  BY DEF Entry, Percent, Errors, Coherent, QueueOK, WarningOK

\* What a push sends is a percentage; from a coherent record it is the
\* record's own percentage, queued or not.
LEMMA TargetIsPercent ==
    ASSUME NEW e \in Entry
    PROVE  /\ Target(e) \in Percent
           /\ Coherent(e) => Target(e) = e.percent
  BY DEF Target, Entry, Percent, Coherent, QueueOK

\* A rewritten .po file is within the rounding of its one decimal: less than
\* 0.06% from the percentage the record keeps.
LEMMA EncodeRounds ==
    ASSUME NEW p \in Percent
    PROVE  /\ EncodePercent(p) \in Percent
           /\ EncodePercent(p) <= p + 5
           /\ p < EncodePercent(p) + 5
  BY DEF EncodePercent, Percent
=============================================================================
