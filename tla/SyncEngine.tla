------------------------------ MODULE SyncEngine ------------------------------
(***************************************************************************)
(* MoonDav's synchronisation engine (app.go with the handlers of api.go    *)
(* that change progress): WebDAV uploads of .po files, the push goroutine  *)
(* each starts, the reconciliation loop, the reconciliation a new mapping  *)
(* starts, and the dashboard's conflict actions, all at work on one store  *)
(* of progress records and one directory of position files.                *)
(*                                                                         *)
(* The store's mutex covers one Get, Put or Snapshot, never a Get and the  *)
(* Put that follows it.  So every access of the store, of a file, of the   *)
(* mapping and of the backend is a step of its own, and the record a task  *)
(* has read or computed waits in mine[t] until the task stores it.         *)
(*                                                                         *)
(* A task is a goroutine with the work it leads to: an upload's handler    *)
(* becomes the push it starts, a conflict action likewise.  A backend is   *)
(* configured (with MOONDAV_BACKEND=none the engine never pushes or        *)
(* pulls), writes of state.json succeed (StateStore.tla is about those     *)
(* that do not), and what backendFailure and backendSuccess do to the      *)
(* health record and its alerts is in BackendHealth.tla.                   *)
(***************************************************************************)
EXTENDS SyncRecords

CONSTANTS
    Books,           \* book keys
    Uploads,         \* goroutines that serve a PUT of a .po file
    Admins,          \* goroutines that serve a conflict action
    Loop,            \* the goroutine of reconcileLoop
    AdHoc,           \* goroutines started for one pass by a new mapping
    Mapped0,         \* sets of books that may be mapped when the model starts
    UploadPercents,  \* percentages Moon+ uploads
    ReaderPercents,  \* percentages other readers give the backend
    Policy,          \* MOONDAV_CONFLICT_POLICY
    Exact,           \* MOONDAV_EXACT_POSITIONS with a Calibre-Web backend
    Limits           \* budgets of the environment's events: how often each may
                     \* happen in a behaviour that keeps to one of the budgets

Passes == {Loop} \union AdHoc
Tasks == Uploads \union Admins \union Passes
Events == {"uploads", "choices", "edits", "reads", "faults", "crashes"}

ASSUME MappedAssumption == Mapped0 \subseteq SUBSET Books
ASSUME PercentAssumption == /\ UploadPercents \subseteq Percent
                            /\ ReaderPercents \subseteq Percent
ASSUME PolicyAssumption == Policy \in {"furthest", "latest"}
ASSUME ExactAssumption == Exact \in BOOLEAN
ASSUME LimitAssumption == Limits \subseteq [Events -> Nat]
ASSUME NoneAssumption == None \notin Books \union State

VARIABLES
    entries,   \* state.json: the record of every book
    files,     \* the .po file of every book: its percentage, or None
    mapped,    \* book-map.json: the books that have a backend ID
    backend,   \* the backend's reading state of every book
    late,      \* requests MoonDav gave up on that may still reach the backend
    pc,        \* where each task is
    book,      \* the book it works on
    pos,       \* the position a PUT carries, None if it does not parse
    mine,      \* the task's copy of a record
    msg,       \* the state it sends to the backend or received from it
    snap,      \* what a pass has still to visit of its Snapshot
    seen,      \* history: percentages stored by uploads and held by the backend
    spent      \* how often each event of the environment has happened

stores == <<entries, files, mapped>>
outside == <<backend, late>>
locals == <<book, pos, mine, msg, snap>>
vars == <<stores, outside, pc, locals, seen, spent>>

Labels == {"idle", "open", "copy", "merge", "store",
           "push", "resolve", "mark", "send", "sent", "applied",
           "clear", "requeue", "start", "next", "pull", "translate", "rewrite",
           "put"}

Request == [book: Books, state: State]

TypeOK ==
    /\ entries \in [Books -> Entry \union {None}]
    /\ files \in [Books -> Percent \union {None}]
    /\ mapped \subseteq Books
    /\ backend \in [Books -> State]
    /\ late \subseteq Request
    /\ pc \in [Tasks -> Labels]
    /\ book \in [Tasks -> Books \union {None}]
    /\ pos \in [Tasks -> Percent \union {None}]
    /\ mine \in [Tasks -> Entry \union {None}]
    /\ msg \in [Tasks -> State \union {None}]
    /\ snap \in [Passes -> [Books -> Entry \union {None}]]
    /\ seen \in [Books -> [stored: SUBSET Percent, held: SUBSET Percent]]
    /\ spent \in [Events -> Nat]

NoBook == [b \in Books |-> None]

Init ==
    /\ entries = NoBook
    /\ files = NoBook
    /\ mapped \in Mapped0
    /\ backend = [b \in Books |-> [pct |-> 0, loc |-> None]]
    /\ late = {}
    /\ pc = [t \in Tasks |-> "idle"]
    /\ book = [t \in Tasks |-> None]
    /\ pos = [t \in Tasks |-> None]
    /\ mine = [t \in Tasks |-> None]
    /\ msg = [t \in Tasks |-> None]
    /\ snap = [t \in Passes |-> NoBook]
    /\ seen = [b \in Books |-> [stored |-> {}, held |-> {0}]]
    /\ spent = [e \in Events |-> 0]

----------------------------------------------------------------------------
(* Steps of a task. *)

Goto(t, label) == pc' = [pc EXCEPT ![t] = label]

Step(t, from, to) == pc[t] = from /\ Goto(t, to)

Spend(event) ==
    /\ spent' = [spent EXCEPT ![event] = @ + 1]
    /\ \E budget \in Limits : \A e \in Events : spent'[e] <= budget[e]

Read(t, record) == mine' = [mine EXCEPT ![t] = record]

\* The task's copy becomes the stored record.
Put(t) == entries' = [entries EXCEPT ![book[t]] = mine[t]]

\* The request or the pulled state is done with.
Answered(t) == msg' = [msg EXCEPT ![t] = None]

\* A push or a visit is over: a pass goes on with its next book, any other
\* goroutine ends.
Finish(t) ==
    /\ Goto(t, IF t \in Passes THEN "next" ELSE "idle")
    /\ book' = [book EXCEPT ![t] = None]
    /\ pos' = [pos EXCEPT ![t] = None]
    /\ mine' = [mine EXCEPT ![t] = None]
    /\ msg' = [msg EXCEPT ![t] = None]
    /\ UNCHANGED snap

----------------------------------------------------------------------------
(* A PUT of a .po file: davHandler. *)

\* The furthest check answers 204 without storing anything.
DavRefuse(t, b, p) ==
    /\ pc[t] = "idle"
    /\ entries[b] # None /\ p # None /\ Policy = "furthest" /\ Behind(p, entries[b])
    /\ Spend("uploads")
    /\ UNCHANGED <<stores, outside, pc, locals, seen>>

\* p is None for a body that is not a Moon+ position.
DavAccept(t, b, p) ==
    /\ Step(t, "idle", "open")
    /\ ~(entries[b] # None /\ p # None /\ Policy = "furthest" /\ Behind(p, entries[b]))
    /\ Spend("uploads")
    /\ book' = [book EXCEPT ![t] = b]
    /\ pos' = [pos EXCEPT ![t] = p]
    /\ UNCHANGED <<stores, outside, mine, msg, snap, seen>>

\* Fault: does not ask whether the body parsed.
AfterFileUnchecked(t) == Goto(t, "merge") /\ UNCHANGED locals

\* After the file was served: a body that does not parse leaves no record.
AfterFile(t) ==
    IF pos[t] = None
    THEN Finish(t)
    ELSE Goto(t, "merge") /\ UNCHANGED locals

Locked(b) == \E u \in Uploads : pc[u] = "copy" /\ book[u] = b

\* The WebDAV handler locks the path and truncates the file.
DavOpen(t) ==
    /\ Step(t, "open", "copy")
    /\ ~Locked(book[t])
    /\ files' = [files EXCEPT ![book[t]] = None]
    /\ UNCHANGED <<entries, mapped, outside, locals, seen, spent>>

\* It answers 423 while another PUT of the path is being served, or an error
\* of the file system.  davHandler does not look at the answer.
DavReject(t) ==
    /\ pc[t] = "open"
    /\ \/ Locked(book[t]) /\ UNCHANGED spent
       \/ ~Locked(book[t]) /\ Spend("faults")
    /\ AfterFile(t)
    /\ UNCHANGED <<stores, outside, seen>>

\* The body is copied into the open file, which a rename by a pass may have
\* unlinked since: then the copy goes nowhere.
DavCopy(t) ==
    /\ pc[t] = "copy"
    /\ files' = [files EXCEPT ![book[t]] = IF @ = None THEN pos[t] ELSE @]
    /\ AfterFile(t)
    /\ UNCHANGED <<entries, mapped, outside, seen, spent>>

DavMerge(t) ==
    /\ Step(t, "merge", "store")
    /\ Read(t, Uploaded(pos[t], entries[book[t]]))
    /\ UNCHANGED <<stores, outside, book, pos, msg, snap, seen, spent>>

\* The record is stored and a push goroutine started.
DavStore(t) ==
    /\ Step(t, "store", "push")
    /\ Put(t)
    /\ seen' = [seen EXCEPT ![book[t]].stored = @ \union {pos[t]}]
    /\ pos' = [pos EXCEPT ![t] = None]
    /\ mine' = [mine EXCEPT ![t] = None]
    /\ UNCHANGED <<files, mapped, outside, book, msg, snap, spent>>

----------------------------------------------------------------------------
(* push, run by its own goroutine or by a pass. *)

PushGet(t) ==
    LET e == entries[book[t]] IN
    /\ pc[t] = "push"
    /\ IF e = None \/ e.retryLater
       THEN Finish(t)
       ELSE /\ Goto(t, "resolve")
            /\ Read(t, e)
            /\ UNCHANGED <<book, pos, msg, snap>>
    /\ UNCHANGED <<stores, outside, seen, spent>>

PushUnmapped(t) ==
    /\ Step(t, "resolve", "put")
    /\ book[t] \notin mapped
    /\ Read(t, Unmapped(mine[t]))
    /\ UNCHANGED <<stores, outside, book, pos, msg, snap, seen, spent>>

PushResolve(t) ==
    /\ Step(t, "resolve", "mark")
    /\ book[t] \in mapped
    /\ UNCHANGED <<stores, outside, locals, seen, spent>>

\* The attempt is stamped: the record read before the mapping goes back.
PushMark(t) ==
    /\ Step(t, "mark", "send")
    /\ Put(t)
    /\ UNCHANGED <<files, mapped, outside, locals, seen, spent>>

\* Where the stored .po file lies in the book; None if exact positions are
\* off, the file does not parse or its position has no KoboSpan.
Locations(b) == {None} \union (IF Exact THEN {files[b]} ELSE {})

PushSend(t) ==
    /\ Step(t, "send", "sent")
    /\ \E l \in Locations(book[t]) :
           msg' = [msg EXCEPT ![t] = [pct |-> Target(mine[t]), loc |-> l]]
    /\ UNCHANGED <<stores, outside, book, pos, mine, snap, seen, spent>>

\* The backend takes the state it is given, whatever it had.
Hold(b, s) ==
    /\ backend' = [backend EXCEPT ![b] = s]
    /\ seen' = [seen EXCEPT ![b].held = @ \union {s.pct}]

BackendApply(t) ==
    /\ Step(t, "sent", "applied")
    /\ Hold(book[t], msg[t])
    /\ UNCHANGED <<stores, late, locals, spent>>

\* The request timed out or was answered 408, 429 or 5xx: it may have been
\* applied, and one that was not may still be.
PushFail(t) ==
    /\ \/ /\ Step(t, "sent", "put")
          /\ \/ UNCHANGED late
             \/ late' = late \union {[book |-> book[t], state |-> msg[t]]}
       \/ Step(t, "applied", "put") /\ UNCHANGED late
    /\ Spend("faults")
    /\ Read(t, Failed(entries[book[t]], "none"))
    /\ Answered(t)
    /\ UNCHANGED <<stores, backend, book, pos, snap, seen>>

\* Any other status: refused for good.
PushReject(t) ==
    /\ Step(t, "sent", "put")
    /\ Spend("faults")
    /\ Read(t, Failed(entries[book[t]], "backend"))
    /\ Answered(t)
    /\ UNCHANGED <<stores, outside, book, pos, snap, seen>>

PushCommit(t) ==
    /\ Step(t, "applied", "put")
    /\ Read(t, Delivered(entries[book[t]], msg[t].pct))
    /\ Answered(t)
    /\ UNCHANGED <<stores, outside, book, pos, snap, seen, spent>>

\* The last Put of a push, of a visit or of a conflict action.
PutBack(t) ==
    /\ pc[t] = "put"
    /\ Put(t)
    /\ Finish(t)
    /\ UNCHANGED <<files, mapped, outside, seen, spent>>

----------------------------------------------------------------------------
(* A pass of reconcile. *)

\* reconcileLoop starts a pass on every tick; a new mapping starts a goroutine
\* for one (MapSet).  Both begin by copying the whole store.
TakeSnapshot(t) ==
    /\ Goto(t, "next")
    /\ snap' = [snap EXCEPT ![t] = entries]

Tick ==
    /\ pc[Loop] = "idle"
    /\ TakeSnapshot(Loop)
    /\ UNCHANGED <<stores, outside, book, pos, mine, msg, seen, spent>>

StartPass(t) ==
    /\ pc[t] = "start"
    /\ TakeSnapshot(t)
    /\ UNCHANGED <<stores, outside, book, pos, mine, msg, seen, spent>>

Visit(t, b) ==
    /\ pc[t] = "next"
    /\ snap[t][b] # None
    /\ snap' = [snap EXCEPT ![t][b] = None]

\* Fault: gives up on a record whose push was refused.
SkipRefused(t, b) ==
    /\ Visit(t, b)
    /\ \/ b \notin mapped
       \/ /\ NeedsPush(snap[t][b])
          /\ snap[t][b].retryLater \/ snap[t][b].lastError = "backend"
    /\ UNCHANGED <<stores, outside, pc, book, pos, mine, msg, seen, spent>>

Skip(t, b) ==
    /\ Visit(t, b)
    /\ b \notin mapped \/ (NeedsPush(snap[t][b]) /\ snap[t][b].retryLater)
    /\ UNCHANGED <<stores, outside, pc, book, pos, mine, msg, seen, spent>>

StartPush(t, b) ==
    /\ Visit(t, b)
    /\ b \in mapped /\ NeedsPush(snap[t][b]) /\ ~snap[t][b].retryLater
    /\ Goto(t, "push")
    /\ book' = [book EXCEPT ![t] = b]
    /\ UNCHANGED <<stores, outside, pos, mine, msg, seen, spent>>

StartPull(t, b) ==
    /\ Visit(t, b)
    /\ b \in mapped /\ ~NeedsPush(snap[t][b])
    /\ Goto(t, "pull")
    /\ book' = [book EXCEPT ![t] = b]
    /\ Read(t, snap[t][b])
    /\ UNCHANGED <<stores, outside, pos, msg, seen, spent>>

\* The backend is ahead and says where: try to rewrite the .po file.
Translatable(e, r) == Exact /\ r.loc # None /\ r.pct > e.percent + Tol

PullOk(t) ==
    LET r == backend[book[t]] IN
    /\ pc[t] = "pull"
    /\ IF Translatable(mine[t], r)
       THEN Goto(t, "translate") /\ msg' = [msg EXCEPT ![t] = r] /\ UNCHANGED mine
       ELSE Goto(t, "put") /\ Read(t, Observed(mine[t], r)) /\ UNCHANGED msg
    /\ UNCHANGED <<stores, outside, book, pos, snap, seen, spent>>

PullFail(t) ==
    /\ pc[t] = "pull"
    /\ Spend("faults")
    /\ Finish(t)
    /\ UNCHANGED <<stores, outside, seen>>

PullReject(t) ==
    /\ Step(t, "pull", "put")
    /\ Spend("faults")
    /\ Read(t, Errored(mine[t]))
    /\ UNCHANGED <<stores, outside, book, pos, msg, snap, seen>>

\* The stored position is the base of the translation.
Translate(t) ==
    /\ Step(t, "translate", "rewrite")
    /\ files[book[t]] # None
    /\ UNCHANGED <<stores, outside, locals, seen, spent>>

\* A temporary file renamed over the .po file.
Rewrite(t) ==
    /\ Step(t, "rewrite", "put")
    /\ files' = [files EXCEPT ![book[t]] = EncodePercent(msg[t].pct)]
    /\ Read(t, Adopted(mine[t], msg[t]))
    /\ Answered(t)
    /\ UNCHANGED <<entries, mapped, outside, book, pos, snap, seen, spent>>

\* No valid base, no such span, or the file cannot be written.
NotTranslated(t) ==
    /\ \/ Step(t, "translate", "put")
       \/ Step(t, "rewrite", "put")
    /\ Read(t, Observed(mine[t], msg[t]))
    /\ Answered(t)
    /\ UNCHANGED <<stores, outside, book, pos, snap, seen, spent>>

PassDone(t) ==
    /\ Step(t, "next", "idle")
    /\ snap[t] = NoBook
    /\ UNCHANGED <<stores, outside, locals, seen, spent>>

----------------------------------------------------------------------------
(* The dashboard's conflict actions: apiConflicts. *)

Choose(t, b, label, record) ==
    /\ Step(t, "idle", label)
    /\ Spend("choices")
    /\ book' = [book EXCEPT ![t] = b]
    /\ Read(t, record)
    /\ UNCHANGED <<stores, outside, pos, msg, snap, seen>>

KeepMoon(t, b) == entries[b] # None /\ Choose(t, b, "clear", KeptClear(entries[b]))

KeepClear(t) ==
    /\ Step(t, "clear", "requeue")
    /\ Put(t)
    /\ Read(t, KeptQueue(mine[t]))
    /\ UNCHANGED <<files, mapped, outside, book, pos, msg, snap, seen, spent>>

KeepQueue(t) ==
    /\ Step(t, "requeue", "push")
    /\ Put(t)
    /\ mine' = [mine EXCEPT ![t] = None]
    /\ UNCHANGED <<files, mapped, outside, book, pos, msg, snap, seen, spent>>

Ignore(t, b) == entries[b] # None /\ Choose(t, b, "put", Ignored(entries[b]))

----------------------------------------------------------------------------
(* The rest of the world. *)

\* The dashboard maps a book and starts the goroutine of a pass.
MapSet(t, b) ==
    /\ Step(t, "idle", "start")
    /\ Spend("edits")
    /\ mapped' = mapped \union {b}
    /\ UNCHANGED <<entries, files, outside, locals, seen>>

MapDelete(b) ==
    /\ Spend("edits")
    /\ mapped' = mapped \ {b}
    /\ UNCHANGED <<entries, files, outside, pc, locals, seen>>

\* A WebDAV client removes the .po file; davHandler passes that through.
DavDelete(b) ==
    /\ ~Locked(b)
    /\ Spend("edits")
    /\ files' = [files EXCEPT ![b] = None]
    /\ UNCHANGED <<entries, mapped, outside, pc, locals, seen>>

\* Another reader stores its position in the backend.
ReaderMoves(b, p) ==
    /\ Spend("reads")
    /\ Hold(b, [pct |-> p, loc |-> IF Exact THEN p ELSE None])
    /\ UNCHANGED <<stores, late, pc, locals>>

LateApply(r) ==
    /\ r \in late
    /\ late' = late \ {r}
    /\ Hold(r.book, r.state)
    /\ UNCHANGED <<stores, pc, locals, spent>>

\* NextRetryAt of the record passes.
RetryElapses(b) ==
    /\ entries[b] # None
    /\ entries[b].retryLater
    /\ entries' = [entries EXCEPT ![b].retryLater = FALSE]
    /\ UNCHANGED <<files, mapped, outside, pc, locals, seen, spent>>

\* The process dies and starts again: state.json, book-map.json, the .po
\* files and whatever was on its way to the backend survive.
Crash ==
    /\ Spend("crashes")
    /\ \E lost \in SUBSET {t \in Tasks : pc[t] = "sent"} :
           late' = late \union {[book |-> book[t], state |-> msg[t]] : t \in lost}
    /\ pc' = [t \in Tasks |-> "idle"]
    /\ book' = [t \in Tasks |-> None]
    /\ pos' = [t \in Tasks |-> None]
    /\ mine' = [t \in Tasks |-> None]
    /\ msg' = [t \in Tasks |-> None]
    /\ snap' = [t \in Passes |-> NoBook]
    /\ UNCHANGED <<stores, backend, seen>>

----------------------------------------------------------------------------
DavStep(t) ==
    DavOpen(t) \/ DavReject(t) \/ DavCopy(t) \/ DavMerge(t) \/ DavStore(t)

PushStep(t) ==
    \/ PushGet(t) \/ PushUnmapped(t) \/ PushResolve(t) \/ PushMark(t)
    \/ PushSend(t) \/ BackendApply(t) \/ PushFail(t) \/ PushReject(t)
    \/ PushCommit(t) \/ PutBack(t)

PassStep(t) ==
    \/ StartPass(t)
    \/ \E b \in Books : Skip(t, b) \/ StartPush(t, b) \/ StartPull(t, b)
    \/ PullOk(t) \/ PullFail(t) \/ PullReject(t)
    \/ Translate(t) \/ Rewrite(t) \/ NotTranslated(t) \/ PassDone(t)

AdminStep(t) == KeepClear(t) \/ KeepQueue(t)

Arrival ==
    \/ \E t \in Uploads, b \in Books, p \in UploadPercents \union {None} :
           DavRefuse(t, b, p) \/ DavAccept(t, b, p)
    \/ \E t \in Admins, b \in Books : KeepMoon(t, b) \/ Ignore(t, b)

World ==
    \/ \E t \in AdHoc, b \in Books : MapSet(t, b)
    \/ \E b \in Books : MapDelete(b) \/ DavDelete(b) \/ RetryElapses(b)
    \/ \E b \in Books, p \in ReaderPercents : ReaderMoves(b, p)
    \/ \E r \in late : LateApply(r)
    \/ Crash

Next ==
    \/ \E t \in Uploads : DavStep(t)
    \/ \E t \in Tasks : PushStep(t)
    \/ \E t \in Passes : PassStep(t)
    \/ \E t \in Admins : AdminStep(t)
    \/ Tick \/ Arrival \/ World

Spec == Init /\ [][Next]_vars

GoesOn(t) == DavStep(t) \/ PushStep(t) \/ PassStep(t) \/ AdminStep(t)

\* A goroutine that can go on does: every HTTP call has a 10 s timeout, and
\* nothing waits for a lock across calls.  The ticker ticks and the clock
\* passes NextRetryAt.  Clients, readers, faults and crashes owe nothing.
Fairness ==
    /\ \A t \in Tasks : WF_vars(GoesOn(t))
    /\ WF_vars(Tick)
    /\ \A b \in Books : WF_vars(RetryElapses(b))

FairSpec == Spec /\ Fairness

----------------------------------------------------------------------------
(* Safety. *)

\* Whatever the interleaving, every stored record has a queue flag and a
\* queued percentage that agree: stale records are stored whole.
QueueCoherent == \A b \in Books : entries[b] # None => QueueOK(entries[b])

\* The dashboard never warns of a backend that, by the same record, is not
\* ahead of the Moon+ position and of what the user chose to ignore.
WarningHonest == \A b \in Books : entries[b] # None => WarningOK(entries[b])

\* The backend progress a record shows is one the backend really held, also
\* when a push, a pull and a newer upload overlapped.
BackendPercentReal ==
    \A b \in Books : entries[b] # None => entries[b].backendPercent \in seen[b].held

Progress(b) == seen[b].stored \union (seen[b].held \ {0})

\* A push carries a percentage that an upload stored or that was adopted from
\* the backend, never one a merge of records made up nor an empty queue's 0.
PushesRealProgress ==
    \A t \in Tasks : pc[t] = "sent" => msg[t].pct \in Progress(book[t])

\* What a task at each label has in its hands.
LocalOK(t) ==
    /\ pc[t] \notin {"idle", "start", "next"} => book[t] \in Books
    /\ pc[t] \in {"merge", "store"} => pos[t] \in Percent
    /\ pc[t] \in {"store", "resolve", "mark", "send", "clear", "requeue",
                 "pull", "translate", "rewrite", "put"} => mine[t] \in Entry
    /\ pc[t] \in {"sent", "applied", "translate", "rewrite"} => msg[t] \in State
    /\ pc[t] \in {"resolve", "mark", "send", "sent", "applied"}
           => entries[book[t]] # None

\* Records are coherent wherever they are: stored, copied or still to visit.
RecordsOK ==
    /\ \A b \in Books : entries[b] # None => Coherent(entries[b])
    /\ \A t \in Tasks : mine[t] # None => Coherent(mine[t])
    /\ \A t \in Passes, b \in Books : snap[t][b] # None => Coherent(snap[t][b])

\* The inductive invariant: every task finds in its hands, and in the store,
\* what its next step takes for granted.
IInv ==
    /\ TypeOK
    /\ \A t \in Tasks : LocalOK(t)
    /\ RecordsOK

\* Every record, wherever it is, shows progress that was real, and so does
\* what a task sends or has received.
Real(b, e) == e.backendPercent \in seen[b].held /\ e.percent \in Progress(b)

HandReal(t) ==
    /\ pc[t] \in {"resolve", "mark", "send", "clear", "requeue",
                 "pull", "translate", "rewrite", "put"} => Real(book[t], mine[t])
    /\ pc[t] = "store" => /\ mine[t].percent = pos[t]
                         /\ mine[t].backendPercent \in seen[book[t]].held
    /\ pc[t] \in {"sent", "applied"} => msg[t].pct \in Progress(book[t])
    /\ pc[t] \in {"applied", "translate", "rewrite"}
           => msg[t].pct \in seen[book[t]].held
    /\ pc[t] \in {"translate", "rewrite"} => msg[t].pct # 0

RealInv ==
    /\ \A b \in Books : entries[b] # None => Real(b, entries[b])
    /\ \A t \in Tasks : HandReal(t)
    /\ \A t \in Passes, b \in Books : snap[t][b] # None => Real(b, snap[t][b])
    /\ \A b \in Books : 0 \in seen[b].held /\ backend[b].pct \in seen[b].held

----------------------------------------------------------------------------
(* What the documentation promises and the code does not keep. *)

AtRest(b) == \A t \in Tasks : book[t] # b /\ (t \in Passes => snap[t][b] = None)

\* README.md:345, "The newest normalized reading percentage is persisted in
\* /data/state.json": under the furthest policy the record of a book nobody
\* works on is not behind an upload that was stored.
NewestPersisted ==
    \A b \in Books : AtRest(b) =>
        \A p \in seen[b].stored : p <= entries[b].percent + Tol

\* README.md:139, "If the server has 61% and an offline device later uploads
\* 35%, MoonDav keeps the 61% position.  The device receives the server copy on
\* its next read/sync cycle": once nobody works on a book, the copy a device
\* would receive is not behind the record uploads are refused for (but for the
\* one decimal a rewritten file keeps).
FileKeepsUp ==
    \A b \in Books : AtRest(b) /\ entries[b] # None /\ files[b] # None
        => files[b] + 5 >= entries[b].percent

\* README.md:125, "Ignore until caught up suppresses the warning until Moon+
\* reaches the backend percentage": an ignored percentage is only forgotten
\* once a push reached it or the user chose again.
IgnoreIsKept ==
    [][\A b \in Books :
          /\ entries[b] # None
          /\ entries[b].suppress > entries[b].percent + Tol
          /\ \A t \in Admins : book[t] # b
          => \/ entries'[b].suppress >= entries[b].suppress
             \/ entries'[b].backendPercent >= entries[b].suppress]_vars

\* t is to keep position p of a book whose conflict is shown.
Keeps(t, b, p) ==
    /\ pc[t] = "clear" /\ book[t] = b
    /\ mine[t].percent = p /\ entries[b].remoteAhead

\* README.md:122 and 124, "For a backend-ahead conflict [...] Keep Moon+ position
\* pushes the exact current Moon+ progress back to the backend": the backend
\* comes to hold the position chosen, unless the book's mapping goes or newer
\* progress takes its place.
KeepMoonDelivered ==
    \A t \in Admins, b \in Books, p \in UploadPercents :
        Keeps(t, b, p) ~> \/ b \notin mapped
                          \/ entries[b] # None /\ entries[b].percent # p
                          \/ backend[b].pct = p

----------------------------------------------------------------------------
(* Agreement with the backend. *)

\* What the dashboard should say of a mapped book, from the backend itself.
Truth(b) ==
    LET e == entries[b] IN
    IF backend[b].pct <= e.percent + Tol THEN "synced"
    ELSE IF backend[b].pct > e.suppress + Tol THEN "conflict"
    ELSE "remote-ahead"

\* Record and backend agree, nothing is queued or in error, and a backend that
\* is ahead is reported as a conflict unless the user chose to ignore it.
Settled(b) ==
    /\ entries[b].backendPercent = backend[b].pct
    /\ Status(entries[b], TRUE) = Truth(b)

\* A settled book whose record is the same wherever a copy of it is, with no
\* request on its way to the backend and no position to adopt from there.
Steady(b) ==
    /\ b \in mapped /\ entries[b] # None /\ Settled(b)
    /\ ~Translatable(entries[b], backend[b])
    /\ \A r \in late : r.book # b
    /\ \A t \in Passes : snap[t][b] \in {None, entries[b]}
    /\ \A t \in Tasks : book[t] = b => pc[t] \in {"pull", "put"} /\ mine[t] = entries[b]

\* What may unsettle a book: an upload, a choice of the user, another reader,
\* the loss of its mapping, or a pull the backend refuses for good.
Disturbed(b) ==
    \/ \E t \in Uploads, p \in UploadPercents \union {None} : DavAccept(t, b, p)
    \/ \E t \in Admins : KeepMoon(t, b) \/ Ignore(t, b)
    \/ \E p \in ReaderPercents : ReaderMoves(b, p)
    \/ MapDelete(b)
    \/ \E t \in Passes : book[t] = b /\ PullReject(t)

\* A book that has settled stays so through any number of passes, retries,
\* refused uploads, temporary errors and restarts, and whatever happens to
\* other books: what a pass stores back is what it found, so no status flaps.
StaysSettled == [][\A b \in Books : Steady(b) => Steady(b)' \/ Disturbed(b)]_vars

----------------------------------------------------------------------------
(* Liveness. *)

\* Once the world leaves it alone, every mapped book with a record settles:
\* the queue drains and conflicts surface, whatever was lost or late.
Converges == \A b \in Books : <>[](b \in mapped /\ entries[b] # None => Settled(b))
=============================================================================
