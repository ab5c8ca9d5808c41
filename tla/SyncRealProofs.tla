--------------------------- MODULE SyncRealProofs ---------------------------
(***************************************************************************)
(* For every set of books, tasks, percentages and bounds: the progress the *)
(* engine records and pushes was real.  RealInv of SyncEngine.tla is       *)
(* preserved by every step from a state that also satisfies IInv, whose    *)
(* coherence of the queue says that a push sends the record's percentage.  *)
(***************************************************************************)
EXTENDS SyncEngineProofs

\* The history only grows.
Grows ==
    \A b \in Books : /\ seen[b].stored \subseteq seen'[b].stored
                     /\ seen[b].held \subseteq seen'[b].held

\* A pass has still to visit what it had, or has just copied the store.
Visits ==
    \A t \in Passes, b \in Books : snap'[t][b] \in {snap[t][b], entries[b], None}

Stored(b) == entries[b] # None => Real(b, entries[b])

Backed == \A b \in Books : 0 \in seen[b].held /\ backend[b].pct \in seen[b].held

\* Nothing outside task t has changed.
Quiet ==
    /\ seen' = seen
    /\ backend' = backend
    /\ entries' = entries

\* What was real stays real.
LEMMA RealGrows ==
    ASSUME Grows, NEW b \in Books, NEW e, Real(b, e)
    PROVE  e.backendPercent \in seen'[b].held /\ e.percent \in Progress(b)'
  BY DEF Grows, Real, Progress

\* Tasks that do nothing keep what they have.
LEMMA OthersReal ==
    ASSUME IInv, RealInv, Grows, NEW u \in Tasks,
           pc'[u] = pc[u], book'[u] = book[u], pos'[u] = pos[u],
           mine'[u] = mine[u], msg'[u] = msg[u]
    PROVE  HandReal(u)'
  BY DEF IInv, LocalOK, RealInv, HandReal, Grows, Real, Progress

\* So it is enough to look at what a step stores and what its task holds.
LEMMA RealStep ==
    ASSUME IInv, RealInv, Grows, NEW t \in Tasks, Frame(t), HandReal(t)',
           \A b \in Books : entries'[b] = entries[b] \/ Stored(b)',
           Visits, Backed'
    PROVE  RealInv'
  <1>1. \A u \in Tasks : HandReal(u)'
    BY OthersReal DEF Frame
  <1>2. \A b \in Books : Stored(b)'
    BY DEF RealInv, Stored, Grows, Real, Progress
  <1>3. ASSUME NEW u \in Passes, NEW b \in Books, snap'[u][b] # None
        PROVE  Real(b, snap[u][b])'
    BY <1>3 DEF Visits, RealInv, Grows, Real, Progress
  <1> QED BY <1>1, <1>2, <1>3 DEF RealInv, Stored, Backed

\* The same for a step that stores nothing.
LEMMA QuietStep ==
    ASSUME IInv, RealInv, Quiet, NEW t \in Tasks, Frame(t), HandReal(t)', Visits
    PROVE  RealInv'
  <1>1. Grows /\ Backed'
    BY DEF Quiet, Grows, RealInv, Backed
  <1>2. \A b \in Books : entries'[b] = entries[b]
    BY DEF Quiet
  <1> QED BY <1>1, <1>2, RealStep

\* The same for a Put of what the task holds.
LEMMA PutStep ==
    ASSUME IInv, RealInv, seen' = seen, backend' = backend, snap' = snap,
           NEW t \in Tasks, Frame(t), Put(t), Real(book[t], mine[t]), HandReal(t)'
    PROVE  RealInv'
  <1>1. Grows /\ Backed'
    BY DEF Grows, RealInv, Backed
  <1>2. \A b \in Books : entries'[b] = entries[b] \/ Stored(b)'
    BY DEF Put, IInv, TypeOK, Stored, Real, Progress
  <1>3. Visits
    BY DEF Visits
  <1> QED BY <1>1, <1>2, <1>3, RealStep

LEMMA InitReal == Init => RealInv
  BY DEF Init, RealInv, HandReal, NoBook

----------------------------------------------------------------------------
(* The records the code computes. *)

\* Most of them keep both percentages.
LEMMA KeepsReal ==
    ASSUME NEW b, NEW e \in Entry, Real(b, e)
    PROVE  /\ Real(b, Unmapped(e))
           /\ \A kind \in Errors : Real(b, Failed(e, kind))
           /\ Real(b, Errored(e))
           /\ Real(b, KeptClear(e))
           /\ Real(b, KeptQueue(e))
           /\ Real(b, Ignored(e))
  BY DEF Real, Entry, Unmapped, Failed, Errored, KeptClear, KeptQueue, Ignored

\* An upload keeps the backend's percentage, or has none to keep.
LEMMA UploadedReal ==
    ASSUME NEW b, NEW p \in Percent, NEW old \in Entry \union {None},
           old # None => Real(b, old), 0 \in seen[b].held
    PROVE  /\ Uploaded(p, old).percent = p
           /\ Uploaded(p, old).backendPercent \in seen[b].held
  BY DEF Real, Uploaded

\* A delivery records what the backend now has.
LEMMA DeliveredReal ==
    ASSUME NEW b, NEW e \in Entry, Real(b, e), NEW p \in seen[b].held
    PROVE  Real(b, Delivered(e, p))
  BY DEF Real, Entry, Delivered

\* A pull records what the backend had.
LEMMA ObservedReal ==
    ASSUME NEW b, NEW e \in Entry, Real(b, e), NEW r \in State,
           r.pct \in seen[b].held
    PROVE  Real(b, Observed(e, r))
  BY DEF Real, Entry, Observed

\* An adopted position becomes the record's own.
LEMMA AdoptedReal ==
    ASSUME NEW b, NEW e \in Entry, NEW r \in State,
           r.pct \in seen[b].held, r.pct # 0
    PROVE  Real(b, Adopted(e, r))
  BY DEF Real, Progress, Entry, Adopted

----------------------------------------------------------------------------
(* The steps of a task. *)

\* The handler up to the record it computes.
LEMMA DavReal ==
    ASSUME IInv, RealInv, NEW t \in Uploads,
           DavOpen(t) \/ DavReject(t) \/ DavCopy(t) \/ DavMerge(t)
    PROVE  RealInv'
  <1> USE TaskKinds
  <1>1. CASE DavOpen(t)
    <2>1. Quiet /\ Visits
      BY <1>1
         DEF Quiet, Visits, DavOpen, Step, Goto, stores, outside, locals
    <2>2. Frame(t)
      BY <1>1
         DEF IInv, TypeOK, Frame, DavOpen, Step, Goto, stores, outside, locals
    <2>3. HandReal(t)'
      BY <1>1
         DEF IInv, TypeOK, LocalOK, RealInv, HandReal, Real, Progress,
             DavOpen, Step, Goto, stores, outside, locals
    <2> QED BY <2>1, <2>2, <2>3, QuietStep
  <1>2. CASE DavReject(t)
    <2>1. Quiet /\ Visits
      BY <1>2
         DEF Quiet, Visits, DavReject, AfterFile, Finish, Spend, Step, Goto,
             stores, outside, locals
    <2>2. Frame(t)
      BY <1>2
         DEF IInv, TypeOK, Frame, DavReject, AfterFile, Finish, Spend, Step,
             Goto, stores, outside, locals
    <2>3. HandReal(t)'
      BY <1>2
         DEF IInv, TypeOK, LocalOK, RealInv, HandReal, Real, Progress,
             DavReject, AfterFile, Finish, Spend, Step, Goto, stores, outside,
             locals
    <2> QED BY <2>1, <2>2, <2>3, QuietStep
  <1>3. CASE DavCopy(t)
    <2>1. Quiet /\ Visits
      BY <1>3
         DEF Quiet, Visits, DavCopy, AfterFile, Finish, Spend, Step, Goto,
             stores, outside, locals
    <2>2. Frame(t)
      BY <1>3
         DEF IInv, TypeOK, Frame, DavCopy, AfterFile, Finish, Spend, Step,
             Goto, stores, outside, locals
    <2>3. HandReal(t)'
      BY <1>3
         DEF IInv, TypeOK, LocalOK, RealInv, HandReal, Real, Progress,
             DavCopy, AfterFile, Finish, Spend, Step, Goto, stores, outside,
             locals
    <2> QED BY <2>1, <2>2, <2>3, QuietStep
  <1>4. CASE DavMerge(t)
    <2>1. Quiet /\ Visits
      BY <1>4
         DEF Quiet, Visits, DavMerge, Step, Goto, Read, stores, outside,
             locals
    <2>2. Frame(t)
      BY <1>4
         DEF IInv, TypeOK, Frame, DavMerge, Step, Goto, Read, stores, outside,
             locals
    <2>3. /\ Uploaded(pos[t], entries[book[t]]).percent = pos[t]
         /\ Uploaded(pos[t], entries[book[t]]).backendPercent
                \in seen[book[t]].held
      BY <1>4, UploadedReal
         DEF IInv, TypeOK, LocalOK, RealInv, DavMerge, Step, Goto
    <2>4. HandReal(t)'
      BY <1>4, <2>3
         DEF IInv, TypeOK, LocalOK, RealInv, HandReal, Real, Progress,
             DavMerge, Step, Goto, Read, stores, outside, locals
    <2> QED BY <2>1, <2>2, <2>4, QuietStep
  <1> QED BY <1>1, <1>2, <1>3, <1>4

\* Storing the record also enters its percentage into the history.
LEMMA DavStoreReal ==
    ASSUME IInv, RealInv, NEW t \in Uploads, DavStore(t)
    PROVE  RealInv'
  <1> USE TaskKinds
  <1>1. book[t] \in Books /\ pos[t] \in Percent /\ mine[t] \in Entry
    BY DEF IInv, LocalOK, DavStore, Step
  <1>2. /\ mine[t].percent = pos[t]
        /\ mine[t].backendPercent \in seen[book[t]].held
    BY DEF RealInv, HandReal, DavStore, Step
  <1>3. Grows
    BY <1>1 DEF IInv, TypeOK, Grows, DavStore
  <1>4. Frame(t)
    BY <1>1, NoneIsNoEntry DEF IInv, TypeOK, Frame, DavStore, Step, Goto, Put, locals
  <1>5. HandReal(t)'
    BY DEF IInv, TypeOK, HandReal, DavStore, Step, Goto
  <1>6. \A b \in Books : entries'[b] = entries[b] \/ Stored(b)'
    BY <1>1, <1>2, <1>3
       DEF IInv, TypeOK, Stored, Real, Progress, Grows, DavStore, Put
  <1>7. Visits /\ Backed'
    BY <1>3 DEF Visits, Backed, RealInv, Grows, DavStore, outside
  <1> QED BY <1>3, <1>4, <1>5, <1>6, <1>7, RealStep

\* push up to the request it sends.
LEMMA PushStartReal ==
    ASSUME IInv, RealInv, NEW t \in Tasks,
           PushGet(t) \/ PushUnmapped(t) \/ PushResolve(t) \/ PushMark(t) \/ PushSend(t)
    PROVE  RealInv'
  <1> USE TaskKinds
  <1>1. CASE PushGet(t)
    <2>1. Quiet /\ Visits
      BY <1>1
         DEF Quiet, Visits, PushGet, Read, Finish, Step, Goto, stores,
             outside, locals
    <2>2. Frame(t)
      BY <1>1
         DEF IInv, TypeOK, Frame, PushGet, Read, Finish, Step, Goto, stores,
             outside, locals
    <2>3. pc[t] = "push" /\ book[t] \in Books
      BY <1>1 DEF IInv, LocalOK, PushGet
    <2>4. seen' = seen
      BY <1>1 DEF PushGet
    <2>5. HandReal(t)'
      <3>1. CASE entries[book[t]] = None \/ entries[book[t]].retryLater
        <4>1. pc'[t] \in {"next", "idle"}
          BY <1>1, <3>1 DEF IInv, TypeOK, PushGet, Finish, Goto
        <4> QED BY <4>1 DEF HandReal
      <3>2. CASE ~(entries[book[t]] = None \/ entries[book[t]].retryLater)
        <4>1. /\ pc'[t] = "resolve"
              /\ mine'[t] = entries[book[t]] /\ book'[t] = book[t]
          BY <1>1, <3>2 DEF IInv, TypeOK, PushGet, Goto, Read
        <4>2. Real(book[t], entries[book[t]])
          BY <2>3, <3>2 DEF RealInv
        <4> QED BY <4>1, <4>2, <2>4 DEF HandReal, Real, Progress
      <3> QED BY <3>1, <3>2
    <2> QED BY <2>1, <2>2, <2>5, QuietStep
  <1>2. CASE PushUnmapped(t)
    <2>1. Quiet /\ Visits
      BY <1>2
         DEF Quiet, Visits, PushUnmapped, Read, Step, Goto, stores, outside,
             locals
    <2>2. Frame(t)
      BY <1>2
         DEF IInv, TypeOK, Frame, PushUnmapped, Read, Step, Goto, stores,
             outside, locals
    <2>3. Real(book[t], Unmapped(mine[t]))
      BY <1>2, KeepsReal
         DEF IInv, TypeOK, LocalOK, RecordsOK, RealInv, HandReal, Errors,
             PushUnmapped, Step
    <2>4. HandReal(t)'
      BY <1>2, <2>3
         DEF IInv, TypeOK, LocalOK, RealInv, HandReal, Real, Progress,
             PushUnmapped, Read, Step, Goto, stores, outside, locals
    <2> QED BY <2>1, <2>2, <2>4, QuietStep
  <1>3. CASE PushResolve(t)
    <2>1. Quiet /\ Visits
      BY <1>3
         DEF Quiet, Visits, PushResolve, Step, Goto, stores, outside, locals
    <2>2. Frame(t)
      BY <1>3
         DEF IInv, TypeOK, Frame, PushResolve, Step, Goto, stores, outside,
             locals
    <2>3. HandReal(t)'
      BY <1>3
         DEF IInv, TypeOK, LocalOK, RealInv, HandReal, Real, Progress,
             PushResolve, Step, Goto, stores, outside, locals
    <2> QED BY <2>1, <2>2, <2>3, QuietStep
  <1>4. CASE PushMark(t)
    <2>1. /\ seen' = seen /\ backend' = backend /\ snap' = snap
         /\ Put(t) /\ Real(book[t], mine[t])
      BY <1>4
         DEF RealInv, HandReal, PushMark, Step, Goto, stores, outside, locals
    <2>2. Frame(t)
      BY <1>4, NoneIsNoEntry
         DEF IInv, TypeOK, LocalOK, Frame, Put, PushMark, Step, Goto, stores,
             outside, locals
    <2>3. HandReal(t)'
      BY <1>4
         DEF IInv, TypeOK, LocalOK, RealInv, HandReal, Real, Progress,
             PushMark, Step, Goto, stores, outside, locals
    <2> QED BY <2>1, <2>2, <2>3, PutStep
  <1>5. CASE PushSend(t)
    <2>1. Quiet /\ Visits
      BY <1>5
         DEF Quiet, Visits, PushSend, Step, Goto, stores, outside, locals
    <2>2. Frame(t)
      BY <1>5
         DEF IInv, TypeOK, Frame, PushSend, Step, Goto, stores, outside,
             locals
    <2>3. Target(mine[t]) = mine[t].percent
      BY <1>5, TargetIsPercent, NoneIsNoEntry
         DEF IInv, TypeOK, LocalOK, RecordsOK, RealInv, HandReal, Errors,
             PushSend, Step
    <2>4. HandReal(t)'
      BY <1>5, <2>3
         DEF IInv, TypeOK, LocalOK, RealInv, HandReal, Real, Progress,
             PushSend, Step, Goto, stores, outside, locals
    <2> QED BY <2>1, <2>2, <2>4, QuietStep
  <1> QED BY <1>1, <1>2, <1>3, <1>4, <1>5

\* The outcomes of the request, and the last Put.
LEMMA PushEndReal ==
    ASSUME IInv, RealInv, NEW t \in Tasks,
           PushFail(t) \/ PushReject(t) \/ PushCommit(t) \/ PutBack(t)
    PROVE  RealInv'
  <1> USE TaskKinds
  <1>1. CASE PushFail(t)
    <2>1. Quiet /\ Visits
      BY <1>1
         DEF Quiet, Visits, PushFail, Read, Answered, Spend, Step, Goto,
             stores, outside, locals
    <2>2. Frame(t)
      BY <1>1
         DEF IInv, TypeOK, Frame, PushFail, Read, Answered, Spend, Step, Goto,
             stores, outside, locals
    <2>3. Real(book[t], Failed(entries[book[t]], "none"))
      BY <1>1, KeepsReal
         DEF IInv, TypeOK, LocalOK, RecordsOK, RealInv, HandReal, Errors,
             PushFail, Step
    <2>4. HandReal(t)'
      BY <1>1, <2>3
         DEF IInv, TypeOK, LocalOK, RealInv, HandReal, Real, Progress,
             PushFail, Read, Answered, Spend, Step, Goto, stores, outside,
             locals
    <2> QED BY <2>1, <2>2, <2>4, QuietStep
  <1>2. CASE PushReject(t)
    <2>1. Quiet /\ Visits
      BY <1>2
         DEF Quiet, Visits, PushReject, Read, Answered, Spend, Step, Goto,
             stores, outside, locals
    <2>2. Frame(t)
      BY <1>2
         DEF IInv, TypeOK, Frame, PushReject, Read, Answered, Spend, Step,
             Goto, stores, outside, locals
    <2>3. Real(book[t], Failed(entries[book[t]], "backend"))
      BY <1>2, KeepsReal
         DEF IInv, TypeOK, LocalOK, RecordsOK, RealInv, HandReal, Errors,
             PushReject, Step
    <2>4. HandReal(t)'
      BY <1>2, <2>3
         DEF IInv, TypeOK, LocalOK, RealInv, HandReal, Real, Progress,
             PushReject, Read, Answered, Spend, Step, Goto, stores, outside,
             locals
    <2> QED BY <2>1, <2>2, <2>4, QuietStep
  <1>3. CASE PushCommit(t)
    <2>1. Quiet /\ Visits
      BY <1>3
         DEF Quiet, Visits, PushCommit, Read, Answered, Step, Goto, stores,
             outside, locals
    <2>2. Frame(t)
      BY <1>3
         DEF IInv, TypeOK, Frame, PushCommit, Read, Answered, Step, Goto,
             stores, outside, locals
    <2>3. Real(book[t], Delivered(entries[book[t]], msg[t].pct))
      BY <1>3, DeliveredReal
         DEF IInv, TypeOK, LocalOK, RecordsOK, RealInv, HandReal, Errors,
             PushCommit, Step
    <2>4. HandReal(t)'
      BY <1>3, <2>3
         DEF IInv, TypeOK, LocalOK, RealInv, HandReal, Real, Progress,
             PushCommit, Read, Answered, Step, Goto, stores, outside, locals
    <2> QED BY <2>1, <2>2, <2>4, QuietStep
  <1>4. CASE PutBack(t)
    <2>1. /\ seen' = seen /\ backend' = backend /\ snap' = snap
         /\ Put(t) /\ Real(book[t], mine[t])
      BY <1>4
         DEF RealInv, HandReal, PutBack, Finish, Step, Goto, stores, outside,
             locals
    <2>2. Frame(t)
      BY <1>4, NoneIsNoEntry
         DEF IInv, TypeOK, LocalOK, Frame, Put, PutBack, Finish, Step, Goto,
             stores, outside, locals
    <2>3. HandReal(t)'
      BY <1>4
         DEF IInv, TypeOK, LocalOK, RealInv, HandReal, Real, Progress,
             PutBack, Finish, Step, Goto, stores, outside, locals
    <2> QED BY <2>1, <2>2, <2>3, PutStep
  <1> QED BY <1>1, <1>2, <1>3, <1>4

\* A state the backend takes enters the history.
LEMMA HoldReal ==
    ASSUME IInv, RealInv, NEW b \in Books, NEW s \in State, Hold(b, s)
    PROVE  Grows /\ Backed' /\ s.pct \in seen'[b].held
  BY DEF IInv, TypeOK, RealInv, Hold, Grows, Backed

\* The backend takes the request.
LEMMA ApplyReal ==
    ASSUME IInv, RealInv, NEW t \in Tasks, BackendApply(t)
    PROVE  RealInv'
  <1> USE TaskKinds
  <1>1. book[t] \in Books /\ msg[t] \in State
    BY DEF IInv, LocalOK, BackendApply, Step
  <1>2. Grows /\ Backed' /\ msg[t].pct \in seen'[book[t]].held
    BY <1>1, HoldReal DEF BackendApply
  <1>3. Frame(t)
    BY DEF IInv, TypeOK, Frame, BackendApply, Step, Goto, stores, locals
  <1>4. HandReal(t)'
    BY <1>1, <1>2
       DEF IInv, TypeOK, RealInv, HandReal, Progress, Grows, BackendApply,
           Step, Goto, locals
  <1>5. Visits /\ \A b \in Books : entries'[b] = entries[b]
    BY DEF Visits, BackendApply, stores, locals
  <1> QED BY <1>2, <1>3, <1>4, <1>5, RealStep

\* A pass takes up its next book.
LEMMA VisitReal ==
    ASSUME IInv, RealInv, NEW t \in Passes, NEW c \in Books,
           Skip(t, c) \/ StartPush(t, c) \/ StartPull(t, c)
    PROVE  RealInv'
  <1> USE TaskKinds
  <1>1. CASE Skip(t, c)
    <2>1. Quiet /\ Visits
      BY <1>1
         DEF Quiet, Visits, Skip, Visit, stores, outside, locals
    <2>2. Frame(t)
      BY <1>1
         DEF IInv, TypeOK, Frame, Skip, Visit, stores, outside, locals
    <2>3. HandReal(t)'
      BY <1>1
         DEF IInv, TypeOK, LocalOK, RealInv, HandReal, Real, Progress, Skip,
             Visit, stores, outside, locals
    <2> QED BY <2>1, <2>2, <2>3, QuietStep
  <1>2. CASE StartPush(t, c)
    <2>1. Quiet /\ Visits
      BY <1>2
         DEF Quiet, Visits, StartPush, Visit, Goto, stores, outside, locals
    <2>2. Frame(t)
      BY <1>2
         DEF IInv, TypeOK, Frame, StartPush, Visit, Goto, stores, outside,
             locals
    <2>3. HandReal(t)'
      BY <1>2
         DEF IInv, TypeOK, LocalOK, RealInv, HandReal, Real, Progress,
             StartPush, Visit, Goto, stores, outside, locals
    <2> QED BY <2>1, <2>2, <2>3, QuietStep
  <1>3. CASE StartPull(t, c)
    <2>1. Quiet /\ Visits
      BY <1>3
         DEF Quiet, Visits, StartPull, Visit, Read, Goto, stores, outside,
             locals
    <2>2. Frame(t)
      BY <1>3
         DEF IInv, TypeOK, Frame, StartPull, Visit, Read, Goto, stores,
             outside, locals
    <2>3. HandReal(t)'
      BY <1>3
         DEF IInv, TypeOK, LocalOK, RealInv, HandReal, Real, Progress,
             StartPull, Visit, Read, Goto, stores, outside, locals
    <2> QED BY <2>1, <2>2, <2>3, QuietStep
  <1> QED BY <1>1, <1>2, <1>3

\* A pull and its outcomes, and the end of a pass.
LEMMA PullReal ==
    ASSUME IInv, RealInv, NEW t \in Passes,
           PullOk(t) \/ PullFail(t) \/ PullReject(t) \/ PassDone(t)
    PROVE  RealInv'
  <1> USE TaskKinds
  <1>1. CASE PassDone(t)
    <2>1. Quiet /\ Visits
      BY <1>1
         DEF Quiet, Visits, PassDone, Step, Goto, stores, outside, locals
    <2>2. Frame(t)
      BY <1>1
         DEF IInv, TypeOK, Frame, PassDone, Step, Goto, stores, outside,
             locals
    <2>3. HandReal(t)'
      BY <1>1
         DEF IInv, TypeOK, LocalOK, RealInv, HandReal, Real, Progress,
             PassDone, Step, Goto, stores, outside, locals
    <2> QED BY <2>1, <2>2, <2>3, QuietStep
  <1>2. CASE PullOk(t)
    <2>1. Quiet /\ Visits
      BY <1>2
         DEF Quiet, Visits, PullOk, Read, Step, Goto, stores, outside, locals
    <2>2. Frame(t)
      BY <1>2
         DEF IInv, TypeOK, Frame, PullOk, Read, Step, Goto, stores, outside,
             locals
    <2>3. /\ backend[book[t]].pct \in seen[book[t]].held
         /\ Real(book[t], Observed(mine[t], backend[book[t]]))
      BY <1>2, ObservedReal
         DEF IInv, TypeOK, LocalOK, RecordsOK, RealInv, HandReal, Errors,
             PullOk
    <2>4. Translatable(mine[t], backend[book[t]]) => backend[book[t]].pct # 0
      BY <1>2
         DEF IInv, TypeOK, LocalOK, PullOk, Translatable, Entry, State,
             Percent, Tol
    <2>5. HandReal(t)'
      BY <1>2, <2>3, <2>4
         DEF IInv, TypeOK, LocalOK, RealInv, HandReal, Real, Progress, PullOk,
             Read, Step, Goto, Translatable, stores, outside, locals
    <2> QED BY <2>1, <2>2, <2>5, QuietStep
  <1>3. CASE PullFail(t)
    <2>1. Quiet /\ Visits
      BY <1>3
         DEF Quiet, Visits, PullFail, Finish, Spend, Step, Goto, stores,
             outside, locals
    <2>2. Frame(t)
      BY <1>3
         DEF IInv, TypeOK, Frame, PullFail, Finish, Spend, Step, Goto, stores,
             outside, locals
    <2>3. HandReal(t)'
      BY <1>3
         DEF IInv, TypeOK, LocalOK, RealInv, HandReal, Real, Progress,
             PullFail, Finish, Spend, Step, Goto, stores, outside, locals
    <2> QED BY <2>1, <2>2, <2>3, QuietStep
  <1>4. CASE PullReject(t)
    <2>1. Quiet /\ Visits
      BY <1>4
         DEF Quiet, Visits, PullReject, Read, Spend, Step, Goto, stores,
             outside, locals
    <2>2. Frame(t)
      BY <1>4
         DEF IInv, TypeOK, Frame, PullReject, Read, Spend, Step, Goto, stores,
             outside, locals
    <2>3. Real(book[t], Errored(mine[t]))
      BY <1>4, KeepsReal
         DEF IInv, TypeOK, LocalOK, RecordsOK, RealInv, HandReal, Errors,
             PullReject, Step
    <2>4. HandReal(t)'
      BY <1>4, <2>3
         DEF IInv, TypeOK, LocalOK, RealInv, HandReal, Real, Progress,
             PullReject, Read, Spend, Step, Goto, stores, outside, locals
    <2> QED BY <2>1, <2>2, <2>4, QuietStep
  <1> QED BY <1>1, <1>2, <1>3, <1>4

\* The rewrite of a .po file.
LEMMA ExactReal ==
    ASSUME IInv, RealInv, NEW t \in Passes,
           Translate(t) \/ Rewrite(t) \/ NotTranslated(t)
    PROVE  RealInv'
  <1> USE TaskKinds
  <1>1. CASE Translate(t)
    <2>1. Quiet /\ Visits
      BY <1>1
         DEF Quiet, Visits, Translate, Step, Goto, stores, outside, locals
    <2>2. Frame(t)
      BY <1>1
         DEF IInv, TypeOK, Frame, Translate, Step, Goto, stores, outside,
             locals
    <2>3. HandReal(t)'
      BY <1>1
         DEF IInv, TypeOK, LocalOK, RealInv, HandReal, Real, Progress,
             Translate, Step, Goto, stores, outside, locals
    <2> QED BY <2>1, <2>2, <2>3, QuietStep
  <1>2. CASE Rewrite(t)
    <2>1. Quiet /\ Visits
      BY <1>2
         DEF Quiet, Visits, Rewrite, Read, Answered, Step, Goto, stores,
             outside, locals
    <2>2. Frame(t)
      BY <1>2
         DEF IInv, TypeOK, Frame, Rewrite, Read, Answered, Step, Goto, stores,
             outside, locals
    <2>3. Real(book[t], Adopted(mine[t], msg[t]))
      BY <1>2, AdoptedReal
         DEF IInv, TypeOK, LocalOK, RecordsOK, RealInv, HandReal, Errors,
             Rewrite, Step
    <2>4. HandReal(t)'
      BY <1>2, <2>3
         DEF IInv, TypeOK, LocalOK, RealInv, HandReal, Real, Progress,
             Rewrite, Read, Answered, Step, Goto, stores, outside, locals
    <2> QED BY <2>1, <2>2, <2>4, QuietStep
  <1>3. CASE NotTranslated(t)
    <2>1. Quiet /\ Visits
      BY <1>3
         DEF Quiet, Visits, NotTranslated, Read, Answered, Step, Goto, stores,
             outside, locals
    <2>2. Frame(t)
      BY <1>3
         DEF IInv, TypeOK, Frame, NotTranslated, Read, Answered, Step, Goto,
             stores, outside, locals
    <2>3. Real(book[t], Observed(mine[t], msg[t]))
      BY <1>3, ObservedReal
         DEF IInv, TypeOK, LocalOK, RecordsOK, RealInv, HandReal, Errors,
             NotTranslated, Step
    <2>4. HandReal(t)'
      BY <1>3, <2>3
         DEF IInv, TypeOK, LocalOK, RealInv, HandReal, Real, Progress,
             NotTranslated, Read, Answered, Step, Goto, stores, outside,
             locals
    <2> QED BY <2>1, <2>2, <2>4, QuietStep
  <1> QED BY <1>1, <1>2, <1>3

\* A PUT arrives.
LEMMA ArriveReal ==
    ASSUME IInv, RealInv, NEW t \in Uploads, NEW c \in Books, NEW p,
           DavRefuse(t, c, p) \/ DavAccept(t, c, p)
    PROVE  RealInv'
  <1> USE TaskKinds
  <1>1. CASE DavRefuse(t, c, p)
    <2>1. Quiet /\ Visits
      BY <1>1
         DEF Quiet, Visits, DavRefuse, Spend, stores, outside, locals
    <2>2. Frame(t)
      BY <1>1
         DEF IInv, TypeOK, Frame, DavRefuse, Spend, stores, outside, locals
    <2>3. HandReal(t)'
      BY <1>1
         DEF IInv, TypeOK, LocalOK, RealInv, HandReal, Real, Progress,
             DavRefuse, Spend, stores, outside, locals
    <2> QED BY <2>1, <2>2, <2>3, QuietStep
  <1>2. CASE DavAccept(t, c, p)
    <2>1. Quiet /\ Visits
      BY <1>2
         DEF Quiet, Visits, DavAccept, Spend, Step, Goto, stores, outside,
             locals
    <2>2. Frame(t)
      BY <1>2
         DEF IInv, TypeOK, Frame, DavAccept, Spend, Step, Goto, stores,
             outside, locals
    <2>3. HandReal(t)'
      BY <1>2
         DEF IInv, TypeOK, LocalOK, RealInv, HandReal, Real, Progress,
             DavAccept, Spend, Step, Goto, stores, outside, locals
    <2> QED BY <2>1, <2>2, <2>3, QuietStep
  <1> QED BY <1>1, <1>2

\* The conflict actions.
LEMMA AdminReal ==
    ASSUME IInv, RealInv, NEW t \in Admins, NEW c \in Books,
           KeepMoon(t, c) \/ Ignore(t, c)
    PROVE  RealInv'
  <1> USE TaskKinds
  <1>1. CASE KeepMoon(t, c)
    <2>1. Quiet /\ Visits
      BY <1>1
         DEF Quiet, Visits, KeepMoon, Choose, Read, Spend, Step, Goto, stores,
             outside, locals
    <2>2. Frame(t)
      BY <1>1
         DEF IInv, TypeOK, Frame, KeepMoon, Choose, Read, Spend, Step, Goto,
             stores, outside, locals
    <2>3. Real(c, KeptClear(entries[c]))
      BY <1>1, KeepsReal
         DEF IInv, TypeOK, LocalOK, RecordsOK, RealInv, HandReal, Errors,
             KeepMoon
    <2>4. HandReal(t)'
      BY <1>1, <2>3
         DEF IInv, TypeOK, LocalOK, RealInv, HandReal, Real, Progress,
             KeepMoon, Choose, Read, Spend, Step, Goto, stores, outside,
             locals
    <2> QED BY <2>1, <2>2, <2>4, QuietStep
  <1>2. CASE Ignore(t, c)
    <2>1. Quiet /\ Visits
      BY <1>2
         DEF Quiet, Visits, Ignore, Choose, Read, Spend, Step, Goto, stores,
             outside, locals
    <2>2. Frame(t)
      BY <1>2
         DEF IInv, TypeOK, Frame, Ignore, Choose, Read, Spend, Step, Goto,
             stores, outside, locals
    <2>3. Real(c, Ignored(entries[c]))
      BY <1>2, KeepsReal
         DEF IInv, TypeOK, LocalOK, RecordsOK, RealInv, HandReal, Errors,
             Ignore
    <2>4. HandReal(t)'
      BY <1>2, <2>3
         DEF IInv, TypeOK, LocalOK, RealInv, HandReal, Real, Progress, Ignore,
             Choose, Read, Spend, Step, Goto, stores, outside, locals
    <2> QED BY <2>1, <2>2, <2>4, QuietStep
  <1> QED BY <1>1, <1>2

\* keep-moon stores its two records.
LEMMA AdminStoreReal ==
    ASSUME IInv, RealInv, NEW t \in Admins, KeepClear(t) \/ KeepQueue(t)
    PROVE  RealInv'
  <1> USE TaskKinds
  <1>1. CASE KeepClear(t)
    <2>1. /\ seen' = seen /\ backend' = backend /\ snap' = snap
         /\ Put(t) /\ Real(book[t], mine[t])
      BY <1>1
         DEF RealInv, HandReal, KeepClear, Read, Step, Goto, stores, outside,
             locals
    <2>2. Frame(t)
      BY <1>1, NoneIsNoEntry
         DEF IInv, TypeOK, LocalOK, Frame, Put, KeepClear, Read, Step, Goto,
             stores, outside, locals
    <2>3. Real(book[t], KeptQueue(mine[t]))
      BY <1>1, KeepsReal
         DEF IInv, TypeOK, LocalOK, RecordsOK, RealInv, HandReal, Errors,
             KeepClear, Step
    <2>4. HandReal(t)'
      BY <1>1, <2>3
         DEF IInv, TypeOK, LocalOK, RealInv, HandReal, Real, Progress,
             KeepClear, Read, Step, Goto, stores, outside, locals
    <2> QED BY <2>1, <2>2, <2>4, PutStep
  <1>2. CASE KeepQueue(t)
    <2>1. /\ seen' = seen /\ backend' = backend /\ snap' = snap
         /\ Put(t) /\ Real(book[t], mine[t])
      BY <1>2
         DEF RealInv, HandReal, KeepQueue, Step, Goto, stores, outside, locals
    <2>2. Frame(t)
      BY <1>2, NoneIsNoEntry
         DEF IInv, TypeOK, LocalOK, Frame, Put, KeepQueue, Step, Goto, stores,
             outside, locals
    <2>3. HandReal(t)'
      BY <1>2
         DEF IInv, TypeOK, LocalOK, RealInv, HandReal, Real, Progress,
             KeepQueue, Step, Goto, stores, outside, locals
    <2> QED BY <2>1, <2>2, <2>3, PutStep
  <1> QED BY <1>1, <1>2

\* A pass begins with a copy of the store.
LEMMA SnapshotReal ==
    ASSUME IInv, RealInv, NEW t \in Passes, TakeSnapshot(t),
           pc[t] \in {"idle", "start"},
           UNCHANGED <<stores, outside, book, pos, mine, msg, seen, spent>>
    PROVE  RealInv'
  <1> USE TaskKinds
  <1>1. Frame(t) /\ Quiet
    BY DEF IInv, TypeOK, Frame, TakeSnapshot, Goto, Quiet, stores, outside
  <1>2. HandReal(t)'
    BY DEF IInv, TypeOK, HandReal, TakeSnapshot, Goto
  <1>3. Visits
    BY DEF IInv, TypeOK, Visits, TakeSnapshot
  <1> QED BY <1>1, <1>2, <1>3, QuietStep

\* A new mapping starts a goroutine with nothing in its hands.
LEMMA MapSetReal ==
    ASSUME IInv, RealInv, NEW t \in Passes, NEW b \in Books, MapSet(t, b)
    PROVE  RealInv'
  <1> USE TaskKinds
  <1>1. Frame(t) /\ Quiet
    BY DEF IInv, TypeOK, Frame, MapSet, Step, Goto, Quiet, outside, locals
  <1>2. HandReal(t)'
    BY DEF IInv, TypeOK, HandReal, MapSet, Step, Goto
  <1>3. Visits
    BY DEF IInv, TypeOK, Visits, MapSet, locals
  <1> QED BY <1>1, <1>2, <1>3, QuietStep

----------------------------------------------------------------------------
(* The rest of the world. *)

\* A step no task takes: its books' records and the history may change.
LEMMA WorldStep ==
    ASSUME IInv, RealInv, Grows, UNCHANGED <<pc, book, pos, mine, msg, snap>>,
           \A b \in Books : Stored(b)', Backed'
    PROVE  RealInv'
  <1>1. \A u \in Tasks : HandReal(u)'
    BY OthersReal
  <1>2. ASSUME NEW u \in Passes, NEW b \in Books, snap'[u][b] # None
        PROVE  Real(b, snap[u][b])'
    BY <1>2 DEF RealInv, Grows, Real, Progress
  <1> QED BY <1>1, <1>2 DEF RealInv, Stored, Backed

LEMMA WorldReal ==
    ASSUME IInv, RealInv, World
    PROVE  RealInv'
  <1>1. CASE \E t \in AdHoc, b \in Books : MapSet(t, b)
    BY <1>1, TaskKinds, MapSetReal
  <1>2. ASSUME NEW c \in Books, MapDelete(c) \/ DavDelete(c)
        PROVE  RealInv'
    BY <1>2, WorldStep
       DEF MapDelete, DavDelete, outside, locals, Grows, Backed, Stored,
           RealInv, Real, Progress
  <1>3. ASSUME NEW c \in Books, NEW s \in State, Hold(c, s),
               UNCHANGED <<entries, locals, pc>>
        PROVE  RealInv'
    <2>1. Grows /\ Backed'
      BY <1>3, HoldReal
    <2>2. \A b \in Books : Stored(b)'
      BY <1>3, <2>1 DEF RealInv, Stored, Grows, Real, Progress
    <2> QED BY <1>3, <2>1, <2>2, WorldStep DEF locals
  <1>4. ASSUME NEW c \in Books, NEW p \in ReaderPercents, ReaderMoves(c, p)
        PROVE  RealInv'
    <2>1. [pct |-> p, loc |-> IF Exact THEN p ELSE None] \in State
      BY PercentAssumption DEF State
    <2> QED BY <1>3, <1>4, <2>1 DEF ReaderMoves, stores
  <1>5. ASSUME NEW r \in late, LateApply(r)
        PROVE  RealInv'
    <2>1. r.book \in Books /\ r.state \in State
      BY DEF IInv, TypeOK, Request
    <2> QED BY <1>3, <1>5, <2>1 DEF LateApply, stores
  <1>6. ASSUME NEW c \in Books, RetryElapses(c)
        PROVE  RealInv'
    <2>1. Grows /\ Backed'
      BY <1>6 DEF RetryElapses, Grows, Backed, RealInv, outside
    <2>2. \A b \in Books : Stored(b)'
      BY <1>6
         DEF IInv, TypeOK, RealInv, Stored, Real, Progress, RetryElapses, Entry
    <2> QED BY <1>6, <2>1, <2>2, WorldStep DEF RetryElapses, locals
  <1>7. CASE Crash
    BY <1>7 DEF IInv, TypeOK, RealInv, HandReal, Real, Progress, Crash, NoBook,
                stores
  <1> QED BY <1>1, <1>2, <1>4, <1>5, <1>6, <1>7 DEF World

----------------------------------------------------------------------------
(* The theorems. *)

LEMMA NextReal ==
    ASSUME IInv, RealInv, [Next]_vars
    PROVE  RealInv'
  <1> USE TaskKinds
  <1>1. CASE \E t \in Uploads : DavStep(t)
    BY <1>1, DavReal, DavStoreReal DEF DavStep
  <1>2. CASE \E t \in Tasks : PushStep(t)
    BY <1>2, PushStartReal, ApplyReal, PushEndReal DEF PushStep
  <1>3. ASSUME NEW t \in Passes, PassStep(t)
        PROVE  RealInv'
    BY <1>3, SnapshotReal, VisitReal, PullReal, ExactReal DEF PassStep, StartPass
  <1>4. CASE \E t \in Admins : AdminStep(t)
    BY <1>4, AdminStoreReal DEF AdminStep
  <1>5. CASE Tick
    BY <1>5, SnapshotReal DEF Tick
  <1>6. CASE Arrival
    BY <1>6, ArriveReal, AdminReal DEF Arrival
  <1>7. CASE World
    BY <1>7, WorldReal
  <1>8. CASE UNCHANGED vars
    BY <1>8 DEF RealInv, HandReal, Real, Progress, vars, stores, outside, locals
  <1> QED BY <1>1, <1>2, <1>3, <1>4, <1>5, <1>6, <1>7, <1>8 DEF Next

\* Everything the engine stores, holds or sends shows progress that was real.
THEOREM EngineReal == Spec => [](IInv /\ RealInv)
  <1>1. Init => IInv /\ RealInv
    BY InitIInv, InitReal
  <1>2. IInv /\ RealInv /\ [Next]_vars => (IInv /\ RealInv)'
    BY NextIInv, NextReal
  <1> QED BY <1>1, <1>2, PTL DEF Spec

\* The backend progress the dashboard shows for a book is one the backend
\* really held, whatever stale records were stored in between.
THEOREM EngineBackendReal == Spec => []BackendPercentReal
  <1>1. RealInv => BackendPercentReal
    BY DEF RealInv, Real, BackendPercentReal
  <1> QED BY <1>1, EngineReal, PTL

\* A push sends progress that an upload stored or the backend had.
THEOREM EnginePushesReal == Spec => []PushesRealProgress
  <1>1. RealInv => PushesRealProgress
    BY DEF RealInv, HandReal, PushesRealProgress
  <1> QED BY <1>1, EngineReal, PTL
=============================================================================
