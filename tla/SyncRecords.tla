----------------------------- MODULE SyncRecords -----------------------------
(***************************************************************************)
(* The progress record MoonDav keeps for every book (StateEntry, state.go) *)
(* and every way the code computes a new record from an old one.  The      *)
(* engine of SyncEngine.tla reads a record at one moment and stores the    *)
(* record computed from it at a later one; what is computed is said here,  *)
(* when it is read and stored is said there.                               *)
(*                                                                         *)
(* A percentage is a natural number of hundredths of a percent: 6100 is    *)
(* 61%.  Not kept: the request path (one .po file per book), UpdatedAt,    *)
(* BackendUpdatedAt, LastSyncAttempt and RetryCount, which no decision of  *)
(* the engine reads except RetryCount's choice of a delay; NextRetryAt is  *)
(* reduced to whether it lies in the future.                               *)
(***************************************************************************)
EXTENDS Naturals

CONSTANT None    \* no record, no parsable file, no location, no percentage

Percent == Nat

ASSUME NoneIsNoPercent == None \notin Percent

\* The tolerance 0.01 of every comparison of percentages in the code.
Tol == 1

\* LastError: empty, "No backend mapping", or the text of a backend error.
Errors == {"none", "unmapped", "backend"}

Entry == [percent: Percent, backendPercent: Percent, remoteAhead: BOOLEAN,
          suppress: Percent, pendingSync: BOOLEAN, pendingPercent: Percent,
          retryLater: BOOLEAN, lastError: Errors]

ASSUME NoneIsNoEntry == None \notin Entry

\* A backend's reading state: Calibre-Web's has a KoboSpan location, named
\* here by the percentage of the position it translates; KOReader's has none.
State == [pct: Percent, loc: Percent \union {None}]

----------------------------------------------------------------------------
(* Decisions taken on a record. *)

\* The furthest check of a PUT: a position behind the stored one is refused.
Behind(pos, e) == pos + Tol < e.percent

\* reconcile pushes such a record instead of pulling.
NeedsPush(e) == e.pendingSync \/ e.percent > e.backendPercent + Tol

\* Fault: sends the queued percentage of a record with no queue.
TargetAlwaysQueued(e) == e.pendingPercent

\* The percentage a push sends.
Target(e) == IF e.pendingSync THEN e.pendingPercent ELSE e.percent

\* The Moon+ text format has one decimal: fmt.Sprintf("%.1f%%").
EncodePercent(p) == 10 * ((p + 5) \div 10)

----------------------------------------------------------------------------
(* Records computed by the WebDAV handler. *)

\* Fault: takes an accepted upload for delivered.
UploadedAsDelivered(p, old) ==
    [percent |-> p, remoteAhead |-> FALSE, backendPercent |-> p,
     suppress |-> IF old = None THEN 0 ELSE old.suppress,
     lastError |-> IF old = None THEN "none" ELSE old.lastError,
     pendingSync |-> TRUE, pendingPercent |-> p, retryLater |-> FALSE]

\* A parsed upload of position p replaces record old (None if there is none).
Uploaded(p, old) ==
    [percent |-> p, remoteAhead |-> FALSE,
     backendPercent |-> IF old = None THEN 0 ELSE old.backendPercent,
     suppress |-> IF old = None THEN 0 ELSE old.suppress,
     lastError |-> IF old = None THEN "none" ELSE old.lastError,
     pendingSync |-> TRUE, pendingPercent |-> p, retryLater |-> FALSE]

----------------------------------------------------------------------------
(* Records computed by push and its failure path. *)

\* No mapping: the progress is queued and looked at again in 15 minutes.
Unmapped(e) ==
    [e EXCEPT !.pendingSync = TRUE, !.pendingPercent = e.percent,
              !.lastError = "unmapped", !.retryLater = TRUE]

\* Fault: leaves the queued percentage empty.
FailedKeepingClear(e, kind) ==
    [e EXCEPT !.pendingSync = TRUE, !.lastError = kind, !.retryLater = TRUE]

\* syncFailure: kind is "none" after a temporary error and "backend" after a
\* permanent one; either way the progress stays queued and waits.
Failed(e, kind) ==
    [e EXCEPT !.pendingSync = TRUE,
              !.pendingPercent = IF @ = 0 THEN e.percent ELSE @,
              !.lastError = kind, !.retryLater = TRUE]

\* The backend took target; e is the record read after its answer.  The queue
\* entry goes unless a position beyond target was queued in the meantime.
Delivered(e, target) ==
    LET done == e.pendingPercent <= target + Tol IN
    [e EXCEPT !.backendPercent = target, !.retryLater = FALSE,
              !.lastError = "none", !.remoteAhead = FALSE,
              !.pendingSync = ~done /\ @,
              !.pendingPercent = IF done THEN 0 ELSE @,
              !.suppress = IF target >= @ THEN 0 ELSE @]

----------------------------------------------------------------------------
(* Records computed by a reconciliation pass from the backend's state r. *)

\* Fault: warns of a backend that is not ahead.
ObservedAlwaysWarns(e, r) ==
    [e EXCEPT !.lastError = "none", !.backendPercent = r.pct,
              !.remoteAhead = e.suppress + Tol < r.pct]

\* Fault: warns in spite of the choice to ignore.
ObservedIgnoringSuppression(e, r) ==
    [e EXCEPT !.lastError = "none", !.backendPercent = r.pct,
              !.remoteAhead = r.pct > e.percent + Tol]

\* Fault: records only a backend that is ahead.
ObservedAheadOnly(e, r) ==
    IF r.pct > e.percent + Tol
    THEN [e EXCEPT !.lastError = "none", !.backendPercent = r.pct,
                   !.remoteAhead = e.suppress + Tol < r.pct]
    ELSE [e EXCEPT !.lastError = "none", !.remoteAhead = FALSE]

\* The pull is only recorded: it warns when the backend is ahead of both the
\* stored position and what the user chose to ignore.
Observed(e, r) ==
    [e EXCEPT !.lastError = "none", !.backendPercent = r.pct,
              !.remoteAhead = r.pct > e.percent + Tol /\ e.suppress + Tol < r.pct]

\* applyRemoteExact: the backend's position was written to the .po file.
Adopted(e, r) ==
    [e EXCEPT !.percent = r.pct, !.backendPercent = r.pct,
              !.remoteAhead = FALSE, !.lastError = "none",
              !.pendingSync = FALSE, !.pendingPercent = 0,
              !.retryLater = FALSE]

\* A pull failed with a permanent error.
Errored(e) == [e EXCEPT !.lastError = "backend"]

----------------------------------------------------------------------------
(* Records computed by the dashboard's conflict actions. *)

\* keep-moon stores two records, the second one queues the Moon+ position.
KeptClear(e) == [e EXCEPT !.suppress = 0, !.remoteAhead = FALSE]

\* Fault: forgets the queued percentage.
KeptQueueFlagOnly(e) ==
    [e EXCEPT !.pendingSync = TRUE, !.retryLater = FALSE]

KeptQueue(e) ==
    [e EXCEPT !.pendingSync = TRUE, !.pendingPercent = e.percent,
              !.retryLater = FALSE]

\* ignore-until-caught-up
Ignored(e) == [e EXCEPT !.suppress = e.backendPercent, !.remoteAhead = FALSE]

----------------------------------------------------------------------------
(* What the dashboard says of a record: apiDashboard, first match wins. *)

Status(e, isMapped) ==
    IF e.lastError # "none" THEN "error"
    ELSE IF e.pendingSync THEN "queued"
    ELSE IF ~isMapped THEN "unmapped"
    ELSE IF e.remoteAhead THEN "conflict"
    ELSE IF e.percent > e.backendPercent + Tol THEN "moon-ahead"
    ELSE IF e.backendPercent > e.percent + Tol THEN "remote-ahead"
    ELSE "synced"

----------------------------------------------------------------------------
(* Coherence of a single record. *)

\* The queue flag and the queued percentage agree, and only queued progress
\* waits for a retry.
QueueOK(e) ==
    IF e.pendingSync THEN e.pendingPercent = e.percent
                     ELSE e.pendingPercent = 0 /\ ~e.retryLater

\* A warning is backed by the percentages stored beside it.
WarningOK(e) ==
    e.remoteAhead => /\ e.backendPercent > e.percent + Tol
                     /\ e.backendPercent > e.suppress + Tol

Coherent(e) == QueueOK(e) /\ WarningOK(e)
=============================================================================
