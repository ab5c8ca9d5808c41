--------------------------- MODULE SyncEngineProofs ---------------------------
(***************************************************************************)
(* For every set of books, tasks, percentages and bounds: the invariant    *)
(* IInv of SyncEngine.tla is inductive, and with it the engine is type     *)
(* correct and every record in the store is coherent, although records are *)
(* read at one moment and stored at another.                               *)
(*                                                                         *)
(* A settled book whose copies all agree stays as it is: a pass computes   *)
(* from the record and the backend the very record it found (SteadyRecord),*)
(* so every step of a task that works on it stores nothing new, and every  *)
(* other step is about another book (StillOutside, Hand).                  *)
(***************************************************************************)
EXTENDS SyncEngine, SyncRecordsProofs

\* Passes and goroutines of every kind are tasks.
LEMMA TaskKinds ==
    /\ Uploads \subseteq Tasks
    /\ Admins \subseteq Tasks
    /\ AdHoc \subseteq Passes
    /\ Loop \in Passes
    /\ Passes \subseteq Tasks
  BY DEF Tasks, Passes

LEMMA InitIInv == Init => IInv
  <1> SUFFICES ASSUME Init PROVE IInv
    OBVIOUS
  <1>1. TypeOK
    BY MappedAssumption
       DEF Init, TypeOK, NoBook, State, Percent, Labels, Passes
  <1>2. ASSUME NEW t \in Tasks PROVE LocalOK(t)
    BY DEF Init, LocalOK
  <1>3. RecordsOK
    BY DEF Init, RecordsOK, NoBook
  <1> QED BY <1>1, <1>2, <1>3 DEF IInv

----------------------------------------------------------------------------
(* The frame: a step of task t leaves the other tasks as they are. *)

\* Only t's locals change, and a stored record never disappears.
Frame(t) ==
    /\ \A u \in Tasks \ {t} : /\ pc'[u] = pc[u]
                              /\ book'[u] = book[u]
                              /\ pos'[u] = pos[u]
                              /\ mine'[u] = mine[u]
                              /\ msg'[u] = msg[u]
    /\ \A b \in Books : entries[b] # None => entries'[b] # None

\* What the other tasks hold is still what their labels ask for.
LEMMA FrameLocal ==
    ASSUME \A u \in Tasks : LocalOK(u), NEW t \in Tasks, Frame(t), LocalOK(t)',
           book \in [Tasks -> Books \union {None}]
    PROVE  \A u \in Tasks : LocalOK(u)'
  BY DEF Frame, LocalOK

\* A bounded event stays a counted one.
LEMMA SpendTyped ==
    ASSUME NEW e \in Events, spent \in [Events -> Nat], Spend(e)
    PROVE  spent' \in [Events -> Nat]
  BY DEF Spend

\* The history of a book grows by a percentage.
LEMMA SeenTyped ==
    ASSUME NEW b \in Books, NEW p \in Percent,
           seen \in [Books -> [stored: SUBSET Percent, held: SUBSET Percent]]
    PROVE  /\ [seen EXCEPT ![b].stored = @ \union {p}]
                 \in [Books -> [stored: SUBSET Percent, held: SUBSET Percent]]
           /\ [seen EXCEPT ![b].held = @ \union {p}]
                 \in [Books -> [stored: SUBSET Percent, held: SUBSET Percent]]
  OBVIOUS

\* The backend takes a state it is given.
LEMMA HoldTyped ==
    ASSUME TypeOK, NEW b \in Books, NEW s \in State, Hold(b, s)
    PROVE  /\ backend' \in [Books -> State]
           /\ seen' \in [Books -> [stored: SUBSET Percent, held: SUBSET Percent]]
  BY SeenTyped DEF TypeOK, Hold, State

\* A record in the store or in a task's hands is a coherent one.
LEMMA RecordsAtHand ==
    ASSUME IInv, NEW t \in Tasks
    PROVE  /\ book[t] \in Books /\ entries[book[t]] # None =>
                  entries[book[t]] \in Entry /\ Coherent(entries[book[t]])
           /\ mine[t] \in Entry => Coherent(mine[t])
  BY NoneIsNoEntry DEF IInv, TypeOK, RecordsOK

----------------------------------------------------------------------------
(* The WebDAV handler. *)

\* A PUT arrives: refused, nothing changes but the count; accepted, the
\* handler holds a position of the environment.
LEMMA ArriveDav ==
    ASSUME IInv, NEW t \in Uploads, NEW b \in Books,
           NEW p \in UploadPercents \union {None}, DavRefuse(t, b, p) \/ DavAccept(t, b, p)
    PROVE  IInv'
  <1> USE TaskKinds
  <1>1. CASE DavRefuse(t, b, p)
    <2>1. TypeOK'
      BY <1>1, SpendTyped
         DEF IInv, TypeOK, LocalOK, Labels, Events, DavRefuse, stores,
             outside, locals
    <2>2. Frame(t)
      BY <1>1
         DEF IInv, TypeOK, LocalOK, Frame, DavRefuse, stores, outside, locals
    <2>3. LocalOK(t)'
      BY <1>1
         DEF IInv, TypeOK, LocalOK, DavRefuse, stores, outside, locals
    <2>4. RecordsOK'
      BY <1>1
         DEF IInv, TypeOK, LocalOK, RecordsOK, DavRefuse, stores, outside,
             locals
    <2> QED BY <2>1, <2>2, <2>3, <2>4, FrameLocal DEF IInv, TypeOK
  <1>2. CASE DavAccept(t, b, p)
    <2>1. TypeOK'
      BY <1>2, SpendTyped, PercentAssumption
         DEF IInv, TypeOK, LocalOK, Labels, Events, DavAccept, Step, Goto,
             stores, outside, locals
    <2>2. Frame(t)
      BY <1>2
         DEF IInv, TypeOK, LocalOK, Frame, DavAccept, Step, Goto, stores,
             outside, locals
    <2>3. LocalOK(t)'
      BY <1>2
         DEF IInv, TypeOK, LocalOK, DavAccept, Step, Goto, stores, outside,
             locals
    <2>4. RecordsOK'
      BY <1>2
         DEF IInv, TypeOK, LocalOK, RecordsOK, DavAccept, Step, Goto, stores,
             outside, locals
    <2> QED BY <2>1, <2>2, <2>3, <2>4, FrameLocal DEF IInv, TypeOK
  <1> QED BY <1>1, <1>2

\* The handler serves the file and stores the record.
LEMMA DavStepIInv ==
    ASSUME IInv, NEW t \in Uploads, DavStep(t)
    PROVE  IInv'
  <1> USE TaskKinds
  <1>1. CASE DavOpen(t)
    <2>1. TypeOK'
      BY <1>1
         DEF IInv, TypeOK, LocalOK, Labels, DavOpen, Step, Goto, stores,
             outside, locals
    <2>2. Frame(t)
      BY <1>1
         DEF IInv, TypeOK, LocalOK, Frame, DavOpen, Step, Goto, stores,
             outside, locals
    <2>3. LocalOK(t)'
      BY <1>1
         DEF IInv, TypeOK, LocalOK, DavOpen, Step, Goto, stores, outside,
             locals
    <2>4. RecordsOK'
      BY <1>1
         DEF IInv, TypeOK, LocalOK, RecordsOK, DavOpen, Step, Goto, stores,
             outside, locals
    <2> QED BY <2>1, <2>2, <2>3, <2>4, FrameLocal DEF IInv, TypeOK
  <1>2. CASE DavReject(t)
    <2>1. TypeOK'
      BY ZenonT(40), <1>2, SpendTyped
         DEF IInv, TypeOK, LocalOK, Labels, Events, DavReject, AfterFile,
             Finish, Goto, stores, outside, locals
    <2>2. Frame(t)
      BY <1>2
         DEF IInv, TypeOK, LocalOK, Frame, DavReject, AfterFile, Finish, Goto,
             stores, outside, locals
    <2>3. LocalOK(t)'
      BY <1>2
         DEF IInv, TypeOK, LocalOK, DavReject, AfterFile, Finish, Goto,
             stores, outside, locals
    <2>4. RecordsOK'
      BY <1>2
         DEF IInv, TypeOK, LocalOK, RecordsOK, DavReject, AfterFile, Finish,
             Goto, stores, outside, locals
    <2> QED BY <2>1, <2>2, <2>3, <2>4, FrameLocal DEF IInv, TypeOK
  <1>3. CASE DavCopy(t)
    <2>1. TypeOK'
      BY ZenonT(40), <1>3
         DEF IInv, TypeOK, LocalOK, Labels, DavCopy, AfterFile, Finish, Goto,
             stores, outside, locals
    <2>2. Frame(t)
      BY <1>3
         DEF IInv, TypeOK, LocalOK, Frame, DavCopy, AfterFile, Finish, Goto,
             stores, outside, locals
    <2>3. LocalOK(t)'
      BY <1>3
         DEF IInv, TypeOK, LocalOK, DavCopy, AfterFile, Finish, Goto, stores,
             outside, locals
    <2>4. RecordsOK'
      BY <1>3
         DEF IInv, TypeOK, LocalOK, RecordsOK, DavCopy, AfterFile, Finish,
             Goto, stores, outside, locals
    <2> QED BY <2>1, <2>2, <2>3, <2>4, FrameLocal DEF IInv, TypeOK
  <1>4. CASE DavMerge(t)
    <2>1. TypeOK'
      BY <1>4, UploadedCoherent
         DEF IInv, TypeOK, LocalOK, Labels, DavMerge, Step, Goto, Read,
             stores, outside, locals
    <2>2. Frame(t)
      BY <1>4, UploadedCoherent
         DEF IInv, TypeOK, LocalOK, Frame, DavMerge, Step, Goto, Read, stores,
             outside, locals
    <2>3. LocalOK(t)'
      BY <1>4, UploadedCoherent
         DEF IInv, TypeOK, LocalOK, DavMerge, Step, Goto, Read, stores,
             outside, locals
    <2>4. RecordsOK'
      BY <1>4, UploadedCoherent
         DEF IInv, TypeOK, LocalOK, RecordsOK, DavMerge, Step, Goto, Read,
             stores, outside, locals
    <2> QED BY <2>1, <2>2, <2>3, <2>4, FrameLocal DEF IInv, TypeOK
  <1>5. CASE DavStore(t)
    <2>1. TypeOK'
      BY <1>5, NoneIsNoEntry, RecordsAtHand, SeenTyped
         DEF IInv, TypeOK, LocalOK, Labels, DavStore, Step, Goto, Put, stores,
             outside, locals
    <2>2. Frame(t)
      BY <1>5, NoneIsNoEntry, RecordsAtHand
         DEF IInv, TypeOK, LocalOK, Frame, DavStore, Step, Goto, Put, stores,
             outside, locals
    <2>3. LocalOK(t)'
      BY <1>5, NoneIsNoEntry, RecordsAtHand
         DEF IInv, TypeOK, LocalOK, DavStore, Step, Goto, Put, stores,
             outside, locals
    <2>4. RecordsOK'
      BY <1>5, NoneIsNoEntry, RecordsAtHand
         DEF IInv, TypeOK, LocalOK, RecordsOK, DavStore, Step, Goto, Put,
             stores, outside, locals
    <2> QED BY <2>1, <2>2, <2>3, <2>4, FrameLocal DEF IInv, TypeOK
  <1> QED BY <1>1, <1>2, <1>3, <1>4, <1>5 DEF DavStep

----------------------------------------------------------------------------
(* The push. *)

\* Every step of a push: records read from the store are coherent there, so
\* what is computed from them is.
LEMMA PushStepIInv ==
    ASSUME IInv, NEW t \in Tasks, PushStep(t)
    PROVE  IInv'
  <1> USE TaskKinds
  <1>1. CASE PushGet(t)
    <2>1. TypeOK'
      BY ZenonT(40), <1>1, NoneIsNoEntry
         DEF IInv, TypeOK, LocalOK, Labels, PushGet, Read, Finish, Goto,
             stores, outside, locals
    <2>2. Frame(t)
      BY <1>1, NoneIsNoEntry
         DEF IInv, TypeOK, LocalOK, Frame, PushGet, Read, Finish, Goto,
             stores, outside, locals
    <2>3. LocalOK(t)'
      BY <1>1, NoneIsNoEntry
         DEF IInv, TypeOK, LocalOK, PushGet, Read, Finish, Goto, stores,
             outside, locals
    <2>4. RecordsOK'
      BY ZenonT(40), <1>1, NoneIsNoEntry
         DEF IInv, TypeOK, LocalOK, RecordsOK, PushGet, Read, Finish, Goto,
             stores, outside, locals
    <2> QED BY <2>1, <2>2, <2>3, <2>4, FrameLocal DEF IInv, TypeOK
  <1>2. CASE PushUnmapped(t)
    <2>1. TypeOK'
      BY <1>2, NoneIsNoEntry, RecordsAtHand, UnmappedCoherent
         DEF IInv, TypeOK, LocalOK, Labels, PushUnmapped, Step, Goto, Read,
             stores, outside, locals
    <2>2. Frame(t)
      BY <1>2, NoneIsNoEntry, RecordsAtHand, UnmappedCoherent
         DEF IInv, TypeOK, LocalOK, Frame, PushUnmapped, Step, Goto, Read,
             stores, outside, locals
    <2>3. LocalOK(t)'
      BY <1>2, NoneIsNoEntry, RecordsAtHand, UnmappedCoherent
         DEF IInv, TypeOK, LocalOK, PushUnmapped, Step, Goto, Read, stores,
             outside, locals
    <2>4. RecordsOK'
      BY <1>2, NoneIsNoEntry, RecordsAtHand, UnmappedCoherent
         DEF IInv, TypeOK, LocalOK, RecordsOK, PushUnmapped, Step, Goto, Read,
             stores, outside, locals
    <2> QED BY <2>1, <2>2, <2>3, <2>4, FrameLocal DEF IInv, TypeOK
  <1>3. CASE PushResolve(t)
    <2>1. TypeOK'
      BY <1>3
         DEF IInv, TypeOK, LocalOK, Labels, PushResolve, Step, Goto, stores,
             outside, locals
    <2>2. Frame(t)
      BY <1>3
         DEF IInv, TypeOK, LocalOK, Frame, PushResolve, Step, Goto, stores,
             outside, locals
    <2>3. LocalOK(t)'
      BY <1>3
         DEF IInv, TypeOK, LocalOK, PushResolve, Step, Goto, stores, outside,
             locals
    <2>4. RecordsOK'
      BY <1>3
         DEF IInv, TypeOK, LocalOK, RecordsOK, PushResolve, Step, Goto,
             stores, outside, locals
    <2> QED BY <2>1, <2>2, <2>3, <2>4, FrameLocal DEF IInv, TypeOK
  <1>4. CASE PushMark(t)
    <2>1. TypeOK'
      BY <1>4, NoneIsNoEntry, RecordsAtHand
         DEF IInv, TypeOK, LocalOK, Labels, PushMark, Step, Goto, Put, stores,
             outside, locals
    <2>2. Frame(t)
      BY <1>4, NoneIsNoEntry, RecordsAtHand
         DEF IInv, TypeOK, LocalOK, Frame, PushMark, Step, Goto, Put, stores,
             outside, locals
    <2>3. LocalOK(t)'
      BY <1>4, NoneIsNoEntry, RecordsAtHand
         DEF IInv, TypeOK, LocalOK, PushMark, Step, Goto, Put, stores,
             outside, locals
    <2>4. RecordsOK'
      BY <1>4, NoneIsNoEntry, RecordsAtHand
         DEF IInv, TypeOK, LocalOK, RecordsOK, PushMark, Step, Goto, Put,
             stores, outside, locals
    <2> QED BY <2>1, <2>2, <2>3, <2>4, FrameLocal DEF IInv, TypeOK
  <1>5. CASE PushSend(t)
    <2>1. \A l \in Locations(book[t]) : [pct |-> Target(mine[t]), loc |-> l] \in State
      BY <1>5, TargetIsPercent, ExactAssumption
         DEF IInv, TypeOK, LocalOK, PushSend, Step, Locations, State
    <2>2. TypeOK'
      BY <1>5, <2>1
         DEF IInv, TypeOK, LocalOK, Labels, PushSend, Step, Goto, stores,
             outside, locals
    <2>3. Frame(t)
      BY <1>5, <2>1
         DEF IInv, TypeOK, LocalOK, Frame, PushSend, Step, Goto, stores,
             outside, locals
    <2>4. LocalOK(t)'
      <3>1. msg'[t] \in State
        BY <1>5, <2>1 DEF IInv, TypeOK, PushSend
      <3>2. pc'[t] = "sent"
        BY <1>5 DEF IInv, TypeOK, PushSend, Step, Goto
      <3>3. book'[t] \in Books /\ entries'[book'[t]] # None
        BY <1>5 DEF IInv, LocalOK, PushSend, Step, stores
      <3> QED BY <3>1, <3>2, <3>3 DEF LocalOK
    <2>5. RecordsOK'
      BY <1>5 DEF IInv, RecordsOK, Coherent, PushSend, Step, stores, locals
    <2> QED BY <2>2, <2>3, <2>4, <2>5, FrameLocal DEF IInv, TypeOK
  <1>6. CASE BackendApply(t)
    <2>1. TypeOK'
      BY <1>6, HoldTyped
         DEF IInv, TypeOK, LocalOK, Labels, BackendApply, Step, Goto, stores,
             outside, locals
    <2>2. Frame(t)
      BY <1>6
         DEF IInv, TypeOK, LocalOK, Frame, Hold, BackendApply, Step, Goto,
             stores, outside, locals
    <2>3. LocalOK(t)'
      BY <1>6
         DEF IInv, TypeOK, LocalOK, Hold, BackendApply, Step, Goto, stores,
             outside, locals
    <2>4. RecordsOK'
      BY <1>6
         DEF IInv, TypeOK, LocalOK, RecordsOK, Hold, BackendApply, Step, Goto,
             stores, outside, locals
    <2> QED BY <2>1, <2>2, <2>3, <2>4, FrameLocal DEF IInv, TypeOK
  <1>7. CASE PushFail(t)
    <2>1. late' \subseteq Request
      BY <1>7 DEF IInv, TypeOK, LocalOK, PushFail, Step, Request, outside
    <2>2. TypeOK'
      BY ZenonT(40), <1>7, NoneIsNoEntry, RecordsAtHand, FailedCoherent, <2>1, SpendTyped
         DEF IInv, TypeOK, LocalOK, Labels, Events, Errors, PushFail, Step,
             Goto, Read, Answered, stores, outside, locals
    <2>3. Frame(t)
      BY <1>7, NoneIsNoEntry, RecordsAtHand, FailedCoherent, <2>1
         DEF IInv, TypeOK, LocalOK, Frame, Errors, PushFail, Step, Goto, Read,
             Answered, stores, outside, locals
    <2>4. LocalOK(t)'
      BY <1>7, NoneIsNoEntry, RecordsAtHand, FailedCoherent, <2>1
         DEF IInv, TypeOK, LocalOK, Errors, PushFail, Step, Goto, Read,
             Answered, stores, outside, locals
    <2>5. RecordsOK'
      BY <1>7, NoneIsNoEntry, RecordsAtHand, FailedCoherent, <2>1
         DEF IInv, TypeOK, LocalOK, RecordsOK, Errors, PushFail, Step, Goto,
             Read, Answered, stores, outside, locals
    <2> QED BY <2>2, <2>3, <2>4, <2>5, FrameLocal DEF IInv, TypeOK
  <1>8. CASE PushReject(t)
    <2>1. TypeOK'
      BY <1>8, NoneIsNoEntry, RecordsAtHand, FailedCoherent, SpendTyped
         DEF IInv, TypeOK, LocalOK, Labels, Events, Errors, PushReject, Step,
             Goto, Read, Answered, stores, outside, locals
    <2>2. Frame(t)
      BY <1>8, NoneIsNoEntry, RecordsAtHand, FailedCoherent
         DEF IInv, TypeOK, LocalOK, Frame, Errors, PushReject, Step, Goto,
             Read, Answered, stores, outside, locals
    <2>3. LocalOK(t)'
      BY <1>8, NoneIsNoEntry, RecordsAtHand, FailedCoherent
         DEF IInv, TypeOK, LocalOK, Errors, PushReject, Step, Goto, Read,
             Answered, stores, outside, locals
    <2>4. RecordsOK'
      BY <1>8, NoneIsNoEntry, RecordsAtHand, FailedCoherent
         DEF IInv, TypeOK, LocalOK, RecordsOK, Errors, PushReject, Step, Goto,
             Read, Answered, stores, outside, locals
    <2> QED BY <2>1, <2>2, <2>3, <2>4, FrameLocal DEF IInv, TypeOK
  <1>9. CASE PushCommit(t)
    <2>1. TypeOK'
      BY <1>9, NoneIsNoEntry, RecordsAtHand, DeliveredCoherent
         DEF IInv, TypeOK, LocalOK, Labels, State, PushCommit, Step, Goto,
             Read, Answered, stores, outside, locals
    <2>2. Frame(t)
      BY <1>9, NoneIsNoEntry, RecordsAtHand, DeliveredCoherent
         DEF IInv, TypeOK, LocalOK, Frame, State, PushCommit, Step, Goto,
             Read, Answered, stores, outside, locals
    <2>3. LocalOK(t)'
      BY <1>9, NoneIsNoEntry, RecordsAtHand, DeliveredCoherent
         DEF IInv, TypeOK, LocalOK, State, PushCommit, Step, Goto, Read,
             Answered, stores, outside, locals
    <2>4. RecordsOK'
      BY <1>9, NoneIsNoEntry, RecordsAtHand, DeliveredCoherent
         DEF IInv, TypeOK, LocalOK, RecordsOK, State, PushCommit, Step, Goto,
             Read, Answered, stores, outside, locals
    <2> QED BY <2>1, <2>2, <2>3, <2>4, FrameLocal DEF IInv, TypeOK
  <1>10. CASE PutBack(t)
    <2>1. TypeOK'
      BY <1>10, NoneIsNoEntry, RecordsAtHand
         DEF IInv, TypeOK, LocalOK, Labels, PutBack, Put, Finish, Goto,
             stores, outside, locals
    <2>2. Frame(t)
      BY <1>10, NoneIsNoEntry, RecordsAtHand
         DEF IInv, TypeOK, LocalOK, Frame, PutBack, Put, Finish, Goto, stores,
             outside, locals
    <2>3. LocalOK(t)'
      BY <1>10, NoneIsNoEntry, RecordsAtHand
         DEF IInv, TypeOK, LocalOK, PutBack, Put, Finish, Goto, stores,
             outside, locals
    <2>4. RecordsOK'
      BY <1>10, NoneIsNoEntry, RecordsAtHand
         DEF IInv, TypeOK, LocalOK, RecordsOK, PutBack, Put, Finish, Goto,
             stores, outside, locals
    <2> QED BY <2>1, <2>2, <2>3, <2>4, FrameLocal DEF IInv, TypeOK
  <1> QED BY <1>1, <1>2, <1>3, <1>4, <1>5, <1>6, <1>7, <1>8, <1>9, <1>10 DEF PushStep

----------------------------------------------------------------------------
(* Reconciliation. *)

\* A pass begins with a copy of the store: on a tick, or in a goroutine that a
\* new mapping started.
LEMMA SnapshotIInv ==
    ASSUME IInv, NEW t \in Passes, TakeSnapshot(t), pc[t] \in {"idle", "start"},
           UNCHANGED <<stores, outside, book, pos, mine, msg, seen, spent>>
    PROVE  IInv'
  <1> USE TaskKinds
  <1>1. TypeOK'
    BY DEF IInv, TypeOK, Labels, TakeSnapshot, Goto, stores, outside
  <1>2. Frame(t)
    BY DEF IInv, TypeOK, Frame, TakeSnapshot, Goto, stores
  <1>3. LocalOK(t)'
    BY DEF IInv, TypeOK, LocalOK, TakeSnapshot, Goto
  <1>4. RecordsOK'
    BY DEF IInv, TypeOK, RecordsOK, TakeSnapshot, stores
  <1> QED BY <1>1, <1>2, <1>3, <1>4, FrameLocal DEF IInv, TypeOK

\* The dashboard maps a book and starts such a goroutine.
LEMMA MapSetIInv ==
    ASSUME IInv, NEW t \in Passes, NEW b \in Books, MapSet(t, b)
    PROVE  IInv'
  <1> USE TaskKinds
  <1>1. TypeOK'
    BY SpendTyped
       DEF IInv, TypeOK, Labels, Events, MapSet, Step, Goto, outside, locals
  <1>2. Frame(t)
    BY DEF IInv, TypeOK, Frame, MapSet, Step, Goto, locals
  <1>3. LocalOK(t)'
    BY DEF IInv, TypeOK, LocalOK, MapSet, Step, Goto, locals
  <1>4. RecordsOK'
    BY DEF IInv, TypeOK, RecordsOK, MapSet, locals
  <1> QED BY <1>1, <1>2, <1>3, <1>4, FrameLocal DEF IInv, TypeOK

\* Every step of a pass.
LEMMA PassStepIInv ==
    ASSUME IInv, NEW t \in Passes, PassStep(t)
    PROVE  IInv'
  <1> USE TaskKinds
  <1>1. ASSUME NEW b \in Books, Skip(t, b)
         PROVE  IInv'
    <2>1. TypeOK'
      BY <1>1
         DEF IInv, TypeOK, LocalOK, Labels, Skip, Visit, stores, outside,
             locals
    <2>2. Frame(t)
      BY <1>1
         DEF IInv, TypeOK, LocalOK, Frame, Skip, Visit, stores, outside,
             locals
    <2>3. LocalOK(t)'
      BY <1>1
         DEF IInv, TypeOK, LocalOK, Skip, Visit, stores, outside, locals
    <2>4. RecordsOK'
      BY <1>1
         DEF IInv, TypeOK, LocalOK, RecordsOK, Skip, Visit, stores, outside,
             locals
    <2> QED BY <2>1, <2>2, <2>3, <2>4, FrameLocal DEF IInv, TypeOK
  <1>2. ASSUME NEW b \in Books, StartPush(t, b)
         PROVE  IInv'
    <2>1. TypeOK'
      BY <1>2
         DEF IInv, TypeOK, LocalOK, Labels, StartPush, Visit, Goto, stores,
             outside, locals
    <2>2. Frame(t)
      BY <1>2
         DEF IInv, TypeOK, LocalOK, Frame, StartPush, Visit, Goto, stores,
             outside, locals
    <2>3. LocalOK(t)'
      BY <1>2
         DEF IInv, TypeOK, LocalOK, StartPush, Visit, Goto, stores, outside,
             locals
    <2>4. RecordsOK'
      BY <1>2
         DEF IInv, TypeOK, LocalOK, RecordsOK, StartPush, Visit, Goto, stores,
             outside, locals
    <2> QED BY <2>1, <2>2, <2>3, <2>4, FrameLocal DEF IInv, TypeOK
  <1>3. ASSUME NEW b \in Books, StartPull(t, b)
         PROVE  IInv'
    <2>1. TypeOK'
      BY <1>3, NoneIsNoEntry
         DEF IInv, TypeOK, LocalOK, Labels, StartPull, Visit, Goto, Read,
             stores, outside, locals
    <2>2. Frame(t)
      BY <1>3, NoneIsNoEntry
         DEF IInv, TypeOK, LocalOK, Frame, StartPull, Visit, Goto, Read,
             stores, outside, locals
    <2>3. LocalOK(t)'
      BY <1>3, NoneIsNoEntry
         DEF IInv, TypeOK, LocalOK, StartPull, Visit, Goto, Read, stores,
             outside, locals
    <2>4. RecordsOK'
      BY <1>3, NoneIsNoEntry
         DEF IInv, TypeOK, LocalOK, RecordsOK, StartPull, Visit, Goto, Read,
             stores, outside, locals
    <2> QED BY <2>1, <2>2, <2>3, <2>4, FrameLocal DEF IInv, TypeOK
  <1>4. CASE PullOk(t)
    <2>1. backend[book[t]] \in State /\ mine[t] \in Entry
      BY <1>4 DEF IInv, TypeOK, LocalOK, PullOk
    <2>2. /\ Observed(mine[t], backend[book[t]]) \in Entry
         /\ Coherent(Observed(mine[t], backend[book[t]]))
      BY <2>1, RecordsAtHand, ObservedCoherent
    <2>3. /\ pc' \in [Tasks -> Labels]
          /\ mine' \in [Tasks -> Entry \union {None}]
          /\ msg' \in [Tasks -> State \union {None}]
      BY <1>4, <2>1, <2>2 DEF IInv, TypeOK, Labels, PullOk, Goto, Read
    <2>4. TypeOK'
      BY <1>4, <2>3 DEF IInv, TypeOK, PullOk, stores, outside
    <2>5. Frame(t)
      BY <1>4 DEF IInv, TypeOK, Frame, PullOk, Goto, Read, stores
    <2>6. LocalOK(t)'
      BY <1>4, <2>1, <2>2
         DEF IInv, TypeOK, LocalOK, PullOk, Goto, Read
    <2>7. RecordsOK'
      BY <1>4, <2>2 DEF IInv, TypeOK, RecordsOK, PullOk, Read, stores
    <2> QED BY <2>4, <2>5, <2>6, <2>7, FrameLocal DEF IInv, TypeOK
  <1>5. CASE PullFail(t)
    <2>1. TypeOK'
      BY <1>5, SpendTyped
         DEF IInv, TypeOK, LocalOK, Labels, Events, PullFail, Finish, Goto,
             stores, outside, locals
    <2>2. Frame(t)
      BY <1>5
         DEF IInv, TypeOK, LocalOK, Frame, PullFail, Finish, Goto, stores,
             outside, locals
    <2>3. LocalOK(t)'
      BY <1>5
         DEF IInv, TypeOK, LocalOK, PullFail, Finish, Goto, stores, outside,
             locals
    <2>4. RecordsOK'
      BY <1>5
         DEF IInv, TypeOK, LocalOK, RecordsOK, PullFail, Finish, Goto, stores,
             outside, locals
    <2> QED BY <2>1, <2>2, <2>3, <2>4, FrameLocal DEF IInv, TypeOK
  <1>6. CASE PullReject(t)
    <2>1. TypeOK'
      BY <1>6, NoneIsNoEntry, RecordsAtHand, ErroredCoherent, SpendTyped
         DEF IInv, TypeOK, LocalOK, Labels, Events, PullReject, Step, Goto,
             Read, stores, outside, locals
    <2>2. Frame(t)
      BY <1>6, NoneIsNoEntry, RecordsAtHand, ErroredCoherent
         DEF IInv, TypeOK, LocalOK, Frame, PullReject, Step, Goto, Read,
             stores, outside, locals
    <2>3. LocalOK(t)'
      BY <1>6, NoneIsNoEntry, RecordsAtHand, ErroredCoherent
         DEF IInv, TypeOK, LocalOK, PullReject, Step, Goto, Read, stores,
             outside, locals
    <2>4. RecordsOK'
      BY <1>6, NoneIsNoEntry, RecordsAtHand, ErroredCoherent
         DEF IInv, TypeOK, LocalOK, RecordsOK, PullReject, Step, Goto, Read,
             stores, outside, locals
    <2> QED BY <2>1, <2>2, <2>3, <2>4, FrameLocal DEF IInv, TypeOK
  <1>7. CASE Translate(t)
    <2>1. TypeOK'
      BY <1>7
         DEF IInv, TypeOK, LocalOK, Labels, Translate, Step, Goto, stores,
             outside, locals
    <2>2. Frame(t)
      BY <1>7
         DEF IInv, TypeOK, LocalOK, Frame, Translate, Step, Goto, stores,
             outside, locals
    <2>3. LocalOK(t)'
      BY <1>7
         DEF IInv, TypeOK, LocalOK, Translate, Step, Goto, stores, outside,
             locals
    <2>4. RecordsOK'
      BY <1>7
         DEF IInv, TypeOK, LocalOK, RecordsOK, Translate, Step, Goto, stores,
             outside, locals
    <2> QED BY <2>1, <2>2, <2>3, <2>4, FrameLocal DEF IInv, TypeOK
  <1>8. CASE Rewrite(t)
    <2>1. TypeOK'
      BY <1>8, NoneIsNoEntry, RecordsAtHand, AdoptedCoherent, EncodeRounds
         DEF IInv, TypeOK, LocalOK, Labels, State, Rewrite, Step, Goto, Read,
             Answered, stores, outside, locals
    <2>2. Frame(t)
      BY <1>8, NoneIsNoEntry, RecordsAtHand, AdoptedCoherent
         DEF IInv, TypeOK, LocalOK, Frame, Rewrite, Step, Goto, Read,
             Answered, stores, outside, locals
    <2>3. LocalOK(t)'
      BY <1>8, NoneIsNoEntry, RecordsAtHand, AdoptedCoherent
         DEF IInv, TypeOK, LocalOK, Rewrite, Step, Goto, Read, Answered,
             stores, outside, locals
    <2>4. RecordsOK'
      BY <1>8, NoneIsNoEntry, RecordsAtHand, AdoptedCoherent
         DEF IInv, TypeOK, LocalOK, RecordsOK, Rewrite, Step, Goto, Read,
             Answered, stores, outside, locals
    <2> QED BY <2>1, <2>2, <2>3, <2>4, FrameLocal DEF IInv, TypeOK
  <1>9. CASE NotTranslated(t)
    <2>1. TypeOK'
      BY <1>9, NoneIsNoEntry, RecordsAtHand, ObservedCoherent
         DEF IInv, TypeOK, LocalOK, Labels, NotTranslated, Step, Goto, Read,
             Answered, stores, outside, locals
    <2>2. Frame(t)
      BY <1>9, NoneIsNoEntry, RecordsAtHand, ObservedCoherent
         DEF IInv, TypeOK, LocalOK, Frame, NotTranslated, Step, Goto, Read,
             Answered, stores, outside, locals
    <2>3. LocalOK(t)'
      BY <1>9, NoneIsNoEntry, RecordsAtHand, ObservedCoherent
         DEF IInv, TypeOK, LocalOK, NotTranslated, Step, Goto, Read, Answered,
             stores, outside, locals
    <2>4. RecordsOK'
      BY <1>9, NoneIsNoEntry, RecordsAtHand, ObservedCoherent
         DEF IInv, TypeOK, LocalOK, RecordsOK, NotTranslated, Step, Goto,
             Read, Answered, stores, outside, locals
    <2> QED BY <2>1, <2>2, <2>3, <2>4, FrameLocal DEF IInv, TypeOK
  <1>10. CASE PassDone(t)
    <2>1. TypeOK'
      BY <1>10
         DEF IInv, TypeOK, LocalOK, Labels, PassDone, Step, Goto, stores,
             outside, locals
    <2>2. Frame(t)
      BY <1>10
         DEF IInv, TypeOK, LocalOK, Frame, PassDone, Step, Goto, stores,
             outside, locals
    <2>3. LocalOK(t)'
      BY <1>10
         DEF IInv, TypeOK, LocalOK, PassDone, Step, Goto, stores, outside,
             locals
    <2>4. RecordsOK'
      BY <1>10
         DEF IInv, TypeOK, LocalOK, RecordsOK, PassDone, Step, Goto, stores,
             outside, locals
    <2> QED BY <2>1, <2>2, <2>3, <2>4, FrameLocal DEF IInv, TypeOK
  <1>11. CASE StartPass(t)
    BY <1>11, SnapshotIInv DEF StartPass
  <1> QED BY <1>1, <1>2, <1>3, <1>4, <1>5, <1>6, <1>7, <1>8, <1>9, <1>10, <1>11
          DEF PassStep

----------------------------------------------------------------------------
(* The conflict actions. *)

\* A choice is read from the store.
LEMMA ChooseIInv ==
    ASSUME IInv, NEW t \in Admins, NEW b \in Books, KeepMoon(t, b) \/ Ignore(t, b)
    PROVE  IInv'
  <1> USE TaskKinds
  <1>1. CASE KeepMoon(t, b)
    <2>1. TypeOK'
      BY <1>1, NoneIsNoEntry, KeptClearCoherent, SpendTyped
         DEF IInv, TypeOK, LocalOK, Labels, Events, RecordsOK, KeepMoon,
             Choose, Step, Goto, Read, stores, outside, locals
    <2>2. Frame(t)
      BY <1>1, NoneIsNoEntry, KeptClearCoherent
         DEF IInv, TypeOK, LocalOK, Frame, KeepMoon, Choose, Step, Goto, Read,
             stores, outside, locals
    <2>3. LocalOK(t)'
      BY <1>1, NoneIsNoEntry, KeptClearCoherent
         DEF IInv, TypeOK, LocalOK, RecordsOK, KeepMoon, Choose, Step, Goto,
             Read, stores, outside, locals
    <2>4. RecordsOK'
      BY <1>1, NoneIsNoEntry, KeptClearCoherent
         DEF IInv, TypeOK, LocalOK, RecordsOK, KeepMoon, Choose, Step, Goto,
             Read, stores, outside, locals
    <2> QED BY <2>1, <2>2, <2>3, <2>4, FrameLocal DEF IInv, TypeOK
  <1>2. CASE Ignore(t, b)
    <2>1. TypeOK'
      BY <1>2, NoneIsNoEntry, IgnoredCoherent, SpendTyped
         DEF IInv, TypeOK, LocalOK, Labels, Events, RecordsOK, Ignore, Choose,
             Step, Goto, Read, stores, outside, locals
    <2>2. Frame(t)
      BY <1>2, NoneIsNoEntry, IgnoredCoherent
         DEF IInv, TypeOK, LocalOK, Frame, Ignore, Choose, Step, Goto, Read,
             stores, outside, locals
    <2>3. LocalOK(t)'
      BY <1>2, NoneIsNoEntry, IgnoredCoherent
         DEF IInv, TypeOK, LocalOK, RecordsOK, Ignore, Choose, Step, Goto,
             Read, stores, outside, locals
    <2>4. RecordsOK'
      BY <1>2, NoneIsNoEntry, IgnoredCoherent
         DEF IInv, TypeOK, LocalOK, RecordsOK, Ignore, Choose, Step, Goto,
             Read, stores, outside, locals
    <2> QED BY <2>1, <2>2, <2>3, <2>4, FrameLocal DEF IInv, TypeOK
  <1> QED BY <1>1, <1>2

\* Keep-moon stores two records.
LEMMA AdminStepIInv ==
    ASSUME IInv, NEW t \in Admins, AdminStep(t)
    PROVE  IInv'
  <1> USE TaskKinds
  <1>1. CASE KeepClear(t)
    <2>1. TypeOK'
      BY <1>1, NoneIsNoEntry, RecordsAtHand, KeptQueueCoherent
         DEF IInv, TypeOK, LocalOK, Labels, KeepClear, Step, Goto, Put, Read,
             stores, outside, locals
    <2>2. Frame(t)
      BY <1>1, NoneIsNoEntry, RecordsAtHand, KeptQueueCoherent
         DEF IInv, TypeOK, LocalOK, Frame, KeepClear, Step, Goto, Put, Read,
             stores, outside, locals
    <2>3. LocalOK(t)'
      BY <1>1, NoneIsNoEntry, RecordsAtHand, KeptQueueCoherent
         DEF IInv, TypeOK, LocalOK, KeepClear, Step, Goto, Put, Read, stores,
             outside, locals
    <2>4. RecordsOK'
      BY <1>1, NoneIsNoEntry, RecordsAtHand, KeptQueueCoherent
         DEF IInv, TypeOK, LocalOK, RecordsOK, KeepClear, Step, Goto, Put,
             Read, stores, outside, locals
    <2> QED BY <2>1, <2>2, <2>3, <2>4, FrameLocal DEF IInv, TypeOK
  <1>2. CASE KeepQueue(t)
    <2>1. TypeOK'
      BY <1>2, NoneIsNoEntry, RecordsAtHand
         DEF IInv, TypeOK, LocalOK, Labels, KeepQueue, Step, Goto, Put,
             stores, outside, locals
    <2>2. Frame(t)
      BY <1>2, NoneIsNoEntry, RecordsAtHand
         DEF IInv, TypeOK, LocalOK, Frame, KeepQueue, Step, Goto, Put, stores,
             outside, locals
    <2>3. LocalOK(t)'
      BY <1>2, NoneIsNoEntry, RecordsAtHand
         DEF IInv, TypeOK, LocalOK, KeepQueue, Step, Goto, Put, stores,
             outside, locals
    <2>4. RecordsOK'
      BY <1>2, NoneIsNoEntry, RecordsAtHand
         DEF IInv, TypeOK, LocalOK, RecordsOK, KeepQueue, Step, Goto, Put,
             stores, outside, locals
    <2> QED BY <2>1, <2>2, <2>3, <2>4, FrameLocal DEF IInv, TypeOK
  <1> QED BY <1>1, <1>2 DEF AdminStep

----------------------------------------------------------------------------
(* The rest of the world. *)

\* None of these steps touches a task, except the crash, which ends them all.
LEMMA WorldIInv ==
    ASSUME IInv, World
    PROVE  IInv'
  <1> USE TaskKinds
  <1>1. CASE \E t \in AdHoc, b \in Books : MapSet(t, b)
    BY <1>1, MapSetIInv
  <1>2. ASSUME NEW b \in Books, MapDelete(b) \/ DavDelete(b)
        PROVE  IInv'
    <2>1. TypeOK'
      BY <1>2, SpendTyped
         DEF IInv, TypeOK, MapDelete, DavDelete, Events, outside, locals
    <2>2. (\A t \in Tasks : LocalOK(t)') /\ RecordsOK'
      BY <1>2 DEF IInv, LocalOK, RecordsOK, MapDelete, DavDelete, locals
    <2> QED BY <2>1, <2>2 DEF IInv
  <1>3. ASSUME NEW b \in Books, RetryElapses(b)
        PROVE  IInv'
    <2>1. entries[b] \in Entry /\ Coherent(entries[b])
      BY <1>3 DEF IInv, TypeOK, RecordsOK, RetryElapses
    <2>2. entries' = [entries EXCEPT ![b] = [entries[b] EXCEPT !.retryLater = FALSE]]
      BY <1>3 DEF RetryElapses
    <2>3. entries' \in [Books -> Entry \union {None}]
      BY <2>1, <2>2, ElapsedCoherent DEF IInv, TypeOK
    <2>4. TypeOK'
      BY <1>3, <2>3 DEF IInv, TypeOK, RetryElapses, outside, locals
    <2>5. \A c \in Books : (entries[c] # None => entries'[c] # None)
      BY <2>1, <2>2, ElapsedCoherent, NoneIsNoEntry DEF IInv, TypeOK
    <2>6. \A t \in Tasks : LocalOK(t)'
      BY <1>3, <2>5 DEF IInv, TypeOK, LocalOK, RetryElapses, locals
    <2>7. RecordsOK'
      BY <1>3, <2>1, <2>2, ElapsedCoherent
         DEF IInv, TypeOK, RecordsOK, RetryElapses, locals
    <2> QED BY <2>4, <2>6, <2>7 DEF IInv
  <1>4. ASSUME NEW b \in Books, NEW p \in ReaderPercents, ReaderMoves(b, p)
        PROVE  IInv'
    <2>1. [pct |-> p, loc |-> IF Exact THEN p ELSE None] \in State
      BY PercentAssumption DEF State
    <2>2. TypeOK'
      BY <1>4, <2>1, HoldTyped, SpendTyped
         DEF IInv, TypeOK, ReaderMoves, Events, stores, locals
    <2>3. (\A t \in Tasks : LocalOK(t)') /\ RecordsOK'
      BY <1>4 DEF IInv, LocalOK, RecordsOK, ReaderMoves, stores, locals
    <2> QED BY <2>2, <2>3 DEF IInv
  <1>5. ASSUME NEW r \in late, LateApply(r)
        PROVE  IInv'
    <2>1. r.book \in Books /\ r.state \in State
      BY DEF IInv, TypeOK, Request
    <2>2. TypeOK'
      BY <1>5, <2>1, HoldTyped DEF IInv, TypeOK, LateApply, stores, locals
    <2>3. (\A t \in Tasks : LocalOK(t)') /\ RecordsOK'
      BY <1>5 DEF IInv, LocalOK, RecordsOK, LateApply, stores, locals
    <2> QED BY <2>2, <2>3 DEF IInv
  <1>6. CASE Crash
    <2>1. late' \subseteq Request
      <3>1. PICK lost \in SUBSET {t \in Tasks : pc[t] = "sent"} :
              late' = late \union {[book |-> book[t], state |-> msg[t]] : t \in lost}
        BY <1>6 DEF Crash
      <3>2. \A t \in lost : book[t] \in Books /\ msg[t] \in State
        BY DEF IInv, LocalOK
      <3> QED BY <3>1, <3>2 DEF IInv, TypeOK, Request
    <2>2. TypeOK'
      BY <1>6, <2>1, SpendTyped
         DEF IInv, TypeOK, Crash, Events, Labels, NoBook, stores
    <2>3. \A t \in Tasks : LocalOK(t)'
      BY <1>6 DEF Crash, LocalOK
    <2>4. RecordsOK'
      BY <1>6 DEF IInv, TypeOK, RecordsOK, Crash, NoBook, stores
    <2> QED BY <2>2, <2>3, <2>4 DEF IInv
  <1> QED BY <1>1, <1>2, <1>3, <1>4, <1>5, <1>6 DEF World

----------------------------------------------------------------------------
(* The theorems. *)

\* The step that does nothing.
LEMMA StutterIInv ==
    ASSUME IInv, UNCHANGED vars
    PROVE  IInv'
  BY DEF IInv, TypeOK, LocalOK, RecordsOK, vars, stores, outside, locals

\* The invariant is inductive.
LEMMA NextIInv ==
    ASSUME IInv, [Next]_vars
    PROVE  IInv'
  <1> USE TaskKinds
  <1>1. CASE \E t \in Uploads : DavStep(t)
    BY <1>1, DavStepIInv
  <1>2. CASE \E t \in Tasks : PushStep(t)
    BY <1>2, PushStepIInv
  <1>3. CASE \E t \in Passes : PassStep(t)
    BY <1>3, PassStepIInv
  <1>4. CASE \E t \in Admins : AdminStep(t)
    BY <1>4, AdminStepIInv
  <1>5. CASE Tick
    BY <1>5, SnapshotIInv DEF Tick
  <1>6. CASE Arrival
    BY <1>6, ArriveDav, ChooseIInv DEF Arrival
  <1>7. CASE World
    BY <1>7, WorldIInv
  <1>8. CASE UNCHANGED vars
    BY <1>8, StutterIInv
  <1> QED BY <1>1, <1>2, <1>3, <1>4, <1>5, <1>6, <1>7, <1>8 DEF Next

\* The inductive invariant holds in every state the engine can reach.
THEOREM EngineInvariant == Spec => []IInv
  BY InitIInv, NextIInv, PTL DEF Spec

\* Type correctness: no step of any task finds an empty hand, a missing
\* record or a position that did not parse.
THEOREM EngineTyped == Spec => []TypeOK
  <1>1. IInv => TypeOK
    BY DEF IInv
  <1> QED BY <1>1, EngineInvariant, PTL

\* The queue flag and the queued percentage of every record in state.json
\* agree, and only queued progress waits for a retry.
THEOREM EngineQueueCoherent == Spec => []QueueCoherent
  <1>1. IInv => QueueCoherent
    BY DEF IInv, RecordsOK, Coherent, QueueCoherent
  <1> QED BY <1>1, EngineInvariant, PTL

\* The dashboard's conflict warning is backed by the record it stands in.
THEOREM EngineWarningHonest == Spec => []WarningHonest
  <1>1. IInv => WarningHonest
    BY DEF IInv, RecordsOK, Coherent, WarningHonest
  <1> QED BY <1>1, EngineInvariant, PTL
----------------------------------------------------------------------------
(* A settled book. *)

\* Such a record has nothing to push, and a pull of what the backend has finds
\* it as it should be.
LEMMA SteadyRecord ==
    ASSUME IInv, NEW b \in Books, Steady(b)
    PROVE  /\ entries[b] \in Entry /\ ~entries[b].retryLater /\ ~NeedsPush(entries[b])
           /\ Observed(entries[b], backend[b]) = entries[b]
  <1> DEFINE e == entries[b]
             r == backend[b]
  <1>1. e \in Entry /\ r \in State /\ Coherent(e)
    BY DEF IInv, TypeOK, RecordsOK, Steady
  <1>2. /\ e.percent \in Nat /\ e.backendPercent \in Nat /\ e.suppress \in Nat
        /\ r.pct \in Nat /\ e.backendPercent = r.pct
        /\ e.pendingSync \in BOOLEAN /\ e.remoteAhead \in BOOLEAN
    BY <1>1 DEF Entry, State, Percent, Steady, Settled
  <1>3. Status(e, TRUE) = Truth(b)
    BY DEF Steady, Settled
  <1>4. /\ e.lastError = "none" /\ ~e.pendingSync /\ ~(e.percent > e.backendPercent + Tol)
        /\ e.remoteAhead = (r.pct > e.percent + Tol /\ e.suppress + Tol < r.pct)
    BY <1>2, <1>3 DEF Status, Truth, Tol
  <1>5. ~e.retryLater /\ ~NeedsPush(e)
    BY <1>1, <1>4 DEF Coherent, QueueOK, NeedsPush
  <1>6. Observed(e, r) = e
    <2> HIDE DEF e, r
    <2> QED BY <1>1, <1>2, <1>4 DEF Observed, Entry
  <1> QED BY <1>1, <1>5, <1>6

Hand(t, b) == book[t] = b => pc[t] \in {"pull", "put"} /\ mine[t] = entries[b]

\* Outside the tasks nothing of book b has changed.
StillOutside(b) ==
    /\ entries'[b] = entries[b] /\ backend'[b] = backend[b] /\ b \in mapped'
    /\ \A r \in late' : r.book # b
    /\ \A u \in Passes : snap'[u][b] \in {None, entries[b]}

\* So it is enough to look at what the task that moved holds.
LEMMA SteadyStep ==
    ASSUME NEW b \in Books, Steady(b), StillOutside(b), NEW t \in Tasks, Frame(t), Hand(t, b)'
    PROVE  Steady(b)'
  BY DEF Steady, StillOutside, Frame, Hand, Settled, Status, Truth, Translatable

\* What is stored for another book, sent for it or asked of it, is not b's: a
\* handler's step,
LEMMA OtherUpload ==
    ASSUME IInv, NEW b \in Books, Steady(b), NEW t \in Uploads, book[t] # b, DavStep(t)
    PROVE  StillOutside(b) /\ Frame(t) /\ Hand(t, b)'
  <1> USE TaskKinds
  <1>1. CASE DavOpen(t)
    BY <1>1, NoneIsNoEntry
       DEF IInv, TypeOK, LocalOK, Steady, StillOutside, Frame, Hand,
           DavOpen, Step, Goto, stores, outside, locals
  <1>2. CASE DavReject(t)
    <2>1. StillOutside(b)
      BY <1>2, NoneAssumption, NoneIsNoEntry
         DEF IInv, TypeOK, LocalOK, Steady, StillOutside, DavReject,
             AfterFile, Spend, Goto, Finish, stores, outside, locals
    <2>2. Frame(t)
      BY <1>2, NoneAssumption, NoneIsNoEntry
         DEF IInv, TypeOK, LocalOK, Steady, Frame, DavReject,
             AfterFile, Spend, Goto, Finish, stores, outside, locals
    <2>3. Hand(t, b)'
      BY <1>2, NoneAssumption, NoneIsNoEntry
         DEF IInv, TypeOK, LocalOK, Steady, Hand, DavReject,
             AfterFile, Spend, Goto, Finish, stores, outside, locals
    <2> QED BY <2>1, <2>2, <2>3
  <1>3. CASE DavCopy(t)
    <2>1. StillOutside(b)
      BY <1>3, NoneAssumption, NoneIsNoEntry
         DEF IInv, TypeOK, LocalOK, Steady, StillOutside, DavCopy,
             AfterFile, Goto, Finish, stores, outside, locals
    <2>2. Frame(t)
      BY <1>3, NoneAssumption, NoneIsNoEntry
         DEF IInv, TypeOK, LocalOK, Steady, Frame, DavCopy,
             AfterFile, Goto, Finish, stores, outside, locals
    <2>3. Hand(t, b)'
      BY <1>3, NoneAssumption, NoneIsNoEntry
         DEF IInv, TypeOK, LocalOK, Steady, Hand, DavCopy,
             AfterFile, Goto, Finish, stores, outside, locals
    <2> QED BY <2>1, <2>2, <2>3
  <1>4. CASE DavMerge(t)
    BY <1>4, NoneIsNoEntry
       DEF IInv, TypeOK, LocalOK, Steady, StillOutside, Frame, Hand,
           DavMerge, Step, Goto, Read, stores, outside, locals
  <1>5. CASE DavStore(t)
    BY <1>5, NoneIsNoEntry
       DEF IInv, TypeOK, LocalOK, Steady, StillOutside, Frame, Hand,
           DavStore, Step, Goto, Put, stores, outside, locals
  <1> QED BY <1>1, <1>2, <1>3, <1>4, <1>5 DEF DavStep

\* a step of a push,
LEMMA OtherPush ==
    ASSUME IInv, NEW b \in Books, Steady(b), NEW t \in Tasks, book[t] # b, PushStep(t)
    PROVE  StillOutside(b) /\ Frame(t) /\ Hand(t, b)'
  <1>1. CASE PushGet(t)
    <2>1. StillOutside(b)
      BY <1>1, NoneAssumption, NoneIsNoEntry
         DEF IInv, TypeOK, LocalOK, Steady, StillOutside, PushGet,
             Goto, Finish, Read, stores, outside, locals
    <2>2. Frame(t)
      BY <1>1, NoneAssumption, NoneIsNoEntry
         DEF IInv, TypeOK, LocalOK, Steady, Frame, PushGet, Goto,
             Finish, Read, stores, outside, locals
    <2>3. Hand(t, b)'
      BY <1>1, NoneAssumption, NoneIsNoEntry
         DEF IInv, TypeOK, LocalOK, Steady, Hand, PushGet, Goto,
             Finish, Read, stores, outside, locals
    <2> QED BY <2>1, <2>2, <2>3
  <1>2. CASE PushUnmapped(t)
    BY <1>2, NoneIsNoEntry
       DEF IInv, TypeOK, LocalOK, Steady, StillOutside, Frame, Hand,
           PushUnmapped, Step, Goto, Read, stores, outside, locals
  <1>3. CASE PushResolve(t)
    BY <1>3, NoneIsNoEntry
       DEF IInv, TypeOK, LocalOK, Steady, StillOutside, Frame, Hand,
           PushResolve, Step, Goto, stores, outside, locals
  <1>4. CASE PushMark(t)
    BY <1>4, NoneIsNoEntry
       DEF IInv, TypeOK, LocalOK, Steady, StillOutside, Frame, Hand,
           PushMark, Step, Goto, Put, stores, outside, locals
  <1>5. CASE PushSend(t)
    BY <1>5, NoneIsNoEntry
       DEF IInv, TypeOK, LocalOK, Steady, StillOutside, Frame, Hand,
           PushSend, Step, Goto, stores, outside, locals
  <1>6. CASE BackendApply(t)
    BY <1>6, NoneIsNoEntry
       DEF IInv, TypeOK, LocalOK, Steady, StillOutside, Frame, Hand,
           BackendApply, Step, Goto, Hold, stores, outside, locals
  <1>7. CASE PushFail(t)
    BY <1>7, NoneIsNoEntry
       DEF IInv, TypeOK, LocalOK, Steady, StillOutside, Frame, Hand,
           PushFail, Step, Goto, Spend, Read, Answered, stores,
           outside, locals
  <1>8. CASE PushReject(t)
    BY <1>8, NoneIsNoEntry
       DEF IInv, TypeOK, LocalOK, Steady, StillOutside, Frame, Hand,
           PushReject, Step, Goto, Spend, Read, Answered, stores,
           outside, locals
  <1>9. CASE PushCommit(t)
    BY <1>9, NoneIsNoEntry
       DEF IInv, TypeOK, LocalOK, Steady, StillOutside, Frame, Hand,
           PushCommit, Step, Goto, Read, Answered, stores, outside,
           locals
  <1>10. CASE PutBack(t)
    <2>1. StillOutside(b)
      BY <1>10, NoneAssumption, NoneIsNoEntry
         DEF IInv, TypeOK, LocalOK, Steady, StillOutside, PutBack,
             Goto, Finish, Put, stores, outside, locals
    <2>2. Frame(t)
      BY <1>10, NoneAssumption, NoneIsNoEntry
         DEF IInv, TypeOK, LocalOK, Steady, Frame, PutBack, Goto,
             Finish, Put, stores, outside, locals
    <2>3. Hand(t, b)'
      BY <1>10, NoneAssumption, NoneIsNoEntry
         DEF IInv, TypeOK, LocalOK, Steady, Hand, PutBack, Goto,
             Finish, Put, stores, outside, locals
    <2> QED BY <2>1, <2>2, <2>3
  <1> QED BY <1>1, <1>2, <1>3, <1>4, <1>5, <1>6, <1>7, <1>8, <1>9, <1>10 DEF PushStep

\* a step of a choice.
LEMMA OtherAdmin ==
    ASSUME IInv, NEW b \in Books, Steady(b), NEW t \in Admins, book[t] # b, AdminStep(t)
    PROVE  StillOutside(b) /\ Frame(t) /\ Hand(t, b)'
  <1> USE TaskKinds
  <1>1. CASE KeepClear(t)
    BY <1>1, NoneIsNoEntry
       DEF IInv, TypeOK, LocalOK, Steady, StillOutside, Frame, Hand,
           KeepClear, Step, Goto, Put, Read, stores, outside, locals
  <1>2. CASE KeepQueue(t)
    BY <1>2, NoneIsNoEntry
       DEF IInv, TypeOK, LocalOK, Steady, StillOutside, Frame, Hand,
           KeepQueue, Step, Goto, Put, stores, outside, locals
  <1> QED BY <1>1, <1>2 DEF AdminStep

\* The task that works on the book stores the record it holds, which is the
\* stored one.
LEMMA OwnPush ==
    ASSUME IInv, NEW b \in Books, Steady(b), NEW t \in Tasks, book[t] = b, PushStep(t)
    PROVE  StillOutside(b) /\ Frame(t) /\ Hand(t, b)'
  <1>1. pc[t] \in {"pull", "put"} /\ mine[t] = entries[b] /\ entries[b] # None
    BY DEF Steady
  <1>2. PutBack(t)
    BY <1>1
       DEF PushStep, PushGet, PushUnmapped, PushResolve, PushMark, PushSend, BackendApply,
           PushFail, PushReject, PushCommit, Step
  <1>3. StillOutside(b)
    BY <1>1, <1>2
       DEF IInv, TypeOK, Steady, StillOutside, PutBack, Finish, Put, stores, outside
  <1>4. Frame(t)
    BY <1>1, <1>2 DEF IInv, TypeOK, Frame, PutBack, Goto, Finish, Put, stores, outside
  <1>5. Hand(t, b)'
    BY <1>2, NoneAssumption DEF IInv, TypeOK, Hand, PutBack, Finish
  <1> QED BY <1>3, <1>4, <1>5

\* A pass that goes on to a book finds nothing to push for b, and takes the
\* stored record along when it pulls.
LEMMA SteadyVisit ==
    ASSUME IInv, NEW b \in Books, Steady(b), NEW t \in Passes,
           \/ PassDone(t)
           \/ \E c \in Books : Skip(t, c) \/ StartPush(t, c) \/ StartPull(t, c)
    PROVE  StillOutside(b) /\ Frame(t) /\ Hand(t, b)'
  <1> USE TaskKinds
  <1>1. pc[t] = "next" /\ book[t] # b /\ snap[t][b] \in {None, entries[b]}
    BY DEF Steady, PassDone, Step, Skip, StartPush, StartPull, Visit
  <1>2. CASE PassDone(t)
    BY <1>1, <1>2
       DEF IInv, TypeOK, Steady, StillOutside, Frame, Hand, PassDone, Step, Goto, stores,
           outside, locals
  <1>3. ASSUME NEW c \in Books, Skip(t, c)
        PROVE  StillOutside(b) /\ Frame(t) /\ Hand(t, b)'
    BY <1>1, <1>3
       DEF IInv, TypeOK, Steady, StillOutside, Frame, Hand, Skip, Visit, stores, outside
  <1>4. ASSUME NEW c \in Books, StartPush(t, c)
        PROVE  StillOutside(b) /\ Frame(t) /\ Hand(t, b)'
    <2>1. c # b
      BY <1>1, <1>4, SteadyRecord DEF StartPush, Visit
    <2> QED BY <1>1, <1>4, <2>1
            DEF IInv, TypeOK, Steady, StillOutside, Frame, Hand, StartPush, Visit, Goto,
                stores, outside
  <1>5. ASSUME NEW c \in Books, StartPull(t, c)
        PROVE  StillOutside(b) /\ Frame(t) /\ Hand(t, b)'
    <2>1. StillOutside(b)
      BY <1>1, <1>5
         DEF IInv, TypeOK, Steady, StillOutside, StartPull, Visit, Goto, stores, outside
    <2>2. Frame(t)
      BY <1>5 DEF IInv, TypeOK, Frame, StartPull, Visit, Goto, Read, stores, outside
    <2>3. Hand(t, b)'
      BY <1>1, <1>5
         DEF IInv, TypeOK, Hand, StartPull, Visit, Goto, Read, stores, outside
    <2> QED BY <2>1, <2>2, <2>3
  <1> QED BY <1>2, <1>3, <1>4, <1>5

\* A pull of b, unless refused for good, computes the record that is stored.
LEMMA SteadyPull ==
    ASSUME IInv, NEW b \in Books, Steady(b), NEW t \in Passes,
           PullOk(t) \/ PullFail(t) \/ (PullReject(t) /\ book[t] # b)
    PROVE  StillOutside(b) /\ Frame(t) /\ Hand(t, b)'
  <1> USE TaskKinds
  <1>1. pc[t] = "pull" /\ (book[t] = b => mine[t] = entries[b])
    BY DEF Steady, PullOk, PullFail, PullReject, Step
  <1>2. StillOutside(b)
    BY DEF Steady, StillOutside, PullOk, PullFail, PullReject, Finish, stores, outside
  <1>3. Frame(t)
    BY DEF IInv, TypeOK, Frame, PullOk, PullFail, PullReject, Finish, Step, Goto, Read,
           stores, outside
  <1>4. CASE PullOk(t) /\ book[t] = b
    <2>1. /\ ~Translatable(mine[t], backend[b])
          /\ Observed(mine[t], backend[b]) = entries[b]
      BY <1>1, <1>4, SteadyRecord DEF Steady
    <2> QED BY <1>2, <1>3, <1>4, <2>1
            DEF IInv, TypeOK, Hand, PullOk, Goto, Read, stores, outside
  <1>5. CASE PullOk(t) /\ book[t] # b
    BY <1>2, <1>3, <1>5 DEF Hand, PullOk
  <1>6. CASE PullFail(t)
    BY <1>2, <1>3, <1>6, NoneAssumption DEF IInv, TypeOK, Hand, PullFail, Finish
  <1>7. CASE PullReject(t) /\ book[t] # b
    BY <1>2, <1>3, <1>7 DEF Hand, PullReject
  <1> QED BY <1>4, <1>5, <1>6, <1>7

\* A translation under way is another book's.
LEMMA SteadyExact ==
    ASSUME IInv, NEW b \in Books, Steady(b), NEW t \in Passes,
           Translate(t) \/ Rewrite(t) \/ NotTranslated(t)
    PROVE  StillOutside(b) /\ Frame(t) /\ Hand(t, b)'
  <1> USE TaskKinds
  <1>1. book[t] # b
    BY DEF Steady, Translate, Rewrite, NotTranslated, Step
  <1>2. StillOutside(b)
    BY DEF Steady, StillOutside, Translate, Rewrite, NotTranslated, stores, outside, locals
  <1>3. Frame(t)
    BY DEF IInv, TypeOK, Frame, Translate, Rewrite, NotTranslated, Step, Goto, Read,
           Answered, stores, outside, locals
  <1>4. Hand(t, b)'
    BY <1>1 DEF Hand, Translate, Rewrite, NotTranslated, locals
  <1> QED BY <1>2, <1>3, <1>4

\* A pass that begins copies the record that is stored.
LEMMA SteadyBegin ==
    ASSUME IInv, NEW b \in Books, Steady(b), NEW t \in Passes, TakeSnapshot(t),
           pc[t] \in {"idle", "start"},
           UNCHANGED <<stores, outside, book, pos, mine, msg>>
    PROVE  StillOutside(b) /\ Frame(t) /\ Hand(t, b)'
  <1> USE TaskKinds
  <1>1. book[t] # b
    BY DEF Steady
  <1>2. StillOutside(b)
    BY DEF IInv, TypeOK, Steady, StillOutside, TakeSnapshot, stores, outside
  <1>3. Frame(t)
    BY DEF IInv, TypeOK, Frame, TakeSnapshot, Goto, stores
  <1>4. Hand(t, b)'
    BY <1>1 DEF Hand
  <1> QED BY <1>2, <1>3, <1>4

\* A new mapping starts a goroutine that holds no book yet.
LEMMA SteadyMapped ==
    ASSUME IInv, NEW b \in Books, Steady(b), NEW t \in Passes, NEW c \in Books,
           MapSet(t, c)
    PROVE  Steady(b)'
  <1> USE TaskKinds
  <1>1. book[t] # b
    BY DEF Steady, MapSet, Step
  <1>2. StillOutside(b)
    BY DEF Steady, StillOutside, MapSet, outside, locals
  <1>3. Frame(t)
    BY DEF IInv, TypeOK, Frame, MapSet, Step, Goto, locals
  <1>4. Hand(t, b)'
    BY <1>1 DEF Hand, MapSet, locals
  <1> QED BY <1>2, <1>3, <1>4, SteadyStep

\* What comes from clients leaves b alone or disturbs it.
LEMMA SteadyArrival ==
    ASSUME IInv, NEW b \in Books, Steady(b), Arrival, ~Disturbed(b)
    PROVE  Steady(b)'
  <1> USE TaskKinds
  <1>1. ASSUME NEW t \in Uploads, NEW c \in Books, NEW p \in UploadPercents \union {None},
               DavRefuse(t, c, p)
        PROVE  Steady(b)'
    BY <1>1 DEF Steady, Settled, Status, Truth, Translatable, DavRefuse, stores, outside, locals
  <1>2. ASSUME NEW t \in Uploads, NEW c \in Books, NEW p \in UploadPercents \union {None},
               DavAccept(t, c, p)
        PROVE  Steady(b)'
    <2>1. c # b
      BY <1>2 DEF Disturbed
    <2>2. StillOutside(b)
      BY <1>2 DEF Steady, StillOutside, DavAccept, stores, outside
    <2>3. Frame(t)
      BY <1>2 DEF IInv, TypeOK, Frame, DavAccept, Step, Goto, stores
    <2>4. Hand(t, b)'
      BY <1>2, <2>1 DEF IInv, TypeOK, Hand, DavAccept
    <2> QED BY <2>2, <2>3, <2>4, SteadyStep
  <1>3. ASSUME NEW t \in Admins, NEW c \in Books, KeepMoon(t, c) \/ Ignore(t, c)
        PROVE  Steady(b)'
    <2>1. c # b
      BY <1>3 DEF Disturbed
    <2>2. StillOutside(b)
      BY <1>3 DEF Steady, StillOutside, KeepMoon, Ignore, Choose, stores, outside
    <2>3. Frame(t)
      BY <1>3 DEF IInv, TypeOK, Frame, KeepMoon, Ignore, Choose, Step, Goto, Read, stores
    <2>4. Hand(t, b)'
      BY <1>3, <2>1 DEF IInv, TypeOK, Hand, KeepMoon, Ignore, Choose
    <2> QED BY <2>2, <2>3, <2>4, SteadyStep
  <1> QED BY <1>1, <1>2, <1>3 DEF Arrival

\* So does the rest of the world; a restart loses only what agrees with what
\* is stored.
LEMMA SteadyWorld ==
    ASSUME IInv, NEW b \in Books, Steady(b), World, ~Disturbed(b)
    PROVE  Steady(b)'
  <1> DEFINE Held == \A t \in Tasks : Hand(t, b)
  <1>0. Held
    BY DEF Steady, Hand
  <1>1. CASE \E t \in AdHoc, c \in Books : MapSet(t, c)
    BY <1>1, TaskKinds, SteadyMapped
  <1>2. ASSUME StillOutside(b), UNCHANGED <<pc, book, mine>>
        PROVE  Steady(b)'
    BY <1>2 DEF Steady, StillOutside, Settled, Status, Truth, Translatable
  <1>3. ASSUME NEW c \in Books, MapDelete(c) \/ DavDelete(c)
        PROVE  Steady(b)'
    <2>1. b \in mapped'
      BY <1>3 DEF Disturbed, Steady, MapDelete, DavDelete
    <2> QED BY <1>2, <1>3, <2>1
            DEF Steady, StillOutside, MapDelete, DavDelete, outside, locals
  <1>4. ASSUME NEW c \in Books, RetryElapses(c)
        PROVE  Steady(b)'
    <2>1. c # b
      BY <1>4, SteadyRecord DEF RetryElapses
    <2> QED BY <1>2, <1>4, <2>1
            DEF IInv, TypeOK, Steady, StillOutside, RetryElapses, outside, locals
  <1>5. ASSUME NEW c \in Books, NEW p \in ReaderPercents, ReaderMoves(c, p)
        PROVE  Steady(b)'
    <2>1. c # b
      BY <1>5 DEF Disturbed
    <2> QED BY <1>2, <1>5, <2>1
            DEF IInv, TypeOK, Steady, StillOutside, ReaderMoves, Hold, stores, locals
  <1>6. ASSUME NEW r \in late, LateApply(r)
        PROVE  Steady(b)'
    <2>1. r.book # b
      BY DEF Steady
    <2> QED BY <1>2, <1>6, <2>1
            DEF IInv, TypeOK, Steady, StillOutside, LateApply, Hold, stores, locals
  <1>7. CASE Crash
    <2>1. \A r \in late' : r.book # b
      <3>1. \A t \in Tasks : pc[t] = "sent" => book[t] # b
        BY DEF Steady
      <3>2. PICK lost \in SUBSET {t \in Tasks : pc[t] = "sent"} :
              late' = late \union {[book |-> book[t], state |-> msg[t]] : t \in lost}
        BY <1>7 DEF Crash
      <3>3. \A r \in late : r.book # b
        BY DEF Steady
      <3> QED BY <3>1, <3>2, <3>3
    <2>2. \A t \in Tasks : book'[t] # b
      BY <1>7, NoneAssumption DEF Crash
    <2>3. \A t \in Passes : snap'[t][b] = None
      BY <1>7 DEF Crash, NoBook
    <2> QED BY <1>7, <2>1, <2>2, <2>3
            DEF Steady, Settled, Status, Truth, Translatable, Crash, stores
  <1> QED BY <1>1, <1>3, <1>4, <1>5, <1>6, <1>7 DEF World

LEMMA NextSteady ==
    ASSUME IInv, [Next]_vars, NEW b \in Books, Steady(b), ~Disturbed(b)
    PROVE  Steady(b)'
  <1> USE TaskKinds
  <1>1. ASSUME NEW t \in Uploads, DavStep(t)
        PROVE  Steady(b)'
    <2>1. book[t] # b
      BY <1>1
         DEF Steady, DavStep, DavOpen, DavReject, DavCopy, DavMerge, DavStore, Step
    <2> QED BY <1>1, <2>1, OtherUpload, SteadyStep
  <1>2. ASSUME NEW t \in Tasks, PushStep(t)
        PROVE  Steady(b)'
    BY <1>2, OtherPush, OwnPush, SteadyStep
  <1>3. ASSUME NEW t \in Passes, PassStep(t)
        PROVE  Steady(b)'
    <2>1. ~(book[t] = b /\ PullReject(t))
      BY DEF Disturbed
    <2>2. StillOutside(b) /\ Frame(t) /\ Hand(t, b)'
      <3>1. CASE PassDone(t) \/ \E c \in Books : Skip(t, c) \/ StartPush(t, c) \/ StartPull(t, c)
        BY <3>1, SteadyVisit
      <3>2. CASE PullOk(t) \/ PullFail(t) \/ PullReject(t)
        BY <2>1, <3>2, SteadyPull
      <3>3. CASE Translate(t) \/ Rewrite(t) \/ NotTranslated(t)
        BY <3>3, SteadyExact
      <3>4. CASE StartPass(t)
        BY <3>4, SteadyBegin DEF StartPass
      <3> QED BY <1>3, <3>1, <3>2, <3>3, <3>4 DEF PassStep
    <2> QED BY <2>2, SteadyStep
  <1>4. ASSUME NEW t \in Admins, AdminStep(t)
        PROVE  Steady(b)'
    <2>1. book[t] # b
      BY <1>4 DEF Steady, AdminStep, KeepClear, KeepQueue, Step
    <2> QED BY <1>4, <2>1, OtherAdmin, SteadyStep
  <1>5. CASE Tick
    BY <1>5, SteadyBegin, SteadyStep DEF Tick
  <1>6. CASE Arrival \/ World
    BY <1>6, SteadyArrival, SteadyWorld
  <1>7. CASE UNCHANGED vars
    BY <1>7
       DEF Steady, Settled, Status, Truth, Translatable, vars, stores, outside, locals
  <1> QED BY <1>1, <1>2, <1>3, <1>4, <1>5, <1>6, <1>7 DEF Next

\* A settled book stays settled until an upload, a choice, another reader, the
\* loss of its mapping or a refused pull: the half of Converges that is safety.
THEOREM EngineStaysSettled == Spec => StaysSettled
  <1>1. IInv /\ [Next]_vars => [\A b \in Books : Steady(b) => Steady(b)' \/ Disturbed(b)]_vars
    BY NextSteady
  <1> QED BY <1>1, EngineInvariant, PTL DEF Spec, StaysSettled
=============================================================================
