# MoonDav in TLA+

MoonDav is a WebDAV server for Moon+ Reader that forwards reading progress to
Calibre-Web or to a KOReader-sync server (BookLore), and reports where those
are ahead of Moon+; it also serves an OPDS catalog of books. This directory
holds TLA+ models of its parts, TLC configurations that check them on small
instances, and TLAPS proofs of what holds for every instance. Line numbers of
the code are those of `src/internal/moondav/`; "README.md:n" is the
repository's README.

Contents: 1 inventory, 2 modules and how they correspond to the code, 3 runs,
bounds and fairness, 4 what the documentation promises and the code does not
do, 5 proofs, 6 what is not modelled, 7 plan.

## 1. Inventory

| Component | State | Operations | Talks to |
|---|---|---|---|
| WebDAV handler (`app.go` davHandler, golang.org/x/net/webdav) | `.po` files; locks of paths | PUT of a position, passthrough of everything else | state store, starts `go push` |
| Sync engine (`app.go` push, reconcile) | none of its own | push of one book; a pass over all books, every 30 s and after a mapping edit | state store, book map, backend, `.po` files |
| Conflict and mapping API (`api.go`) | none of its own | keep-moon, ignore-until-caught-up, map, unmap | state store, book map, starts `go push` / `go reconcile` |
| State store (`state.go`) | records by book key, health record, `state.json` | Get, Put, Snapshot, Health, PutHealth under one mutex; every Put writes the whole file | every other component |
| Book map (`bookmap.go`) | backend IDs and EPUB paths, `book-map.json` | Resolve, SetDetailed, Delete | engine, API |
| Backend adapters (`backend.go`) | none | Push/PushState, Pull/PullState with a 10 s timeout; errors are temporary or permanent | the backend service |
| Backend health and notifications (`app.go`, `notification.go`) | health record in the store | backendFailure, backendSuccess, maybeNotifyOutage, notify goroutines | state store, three alert channels |
| Position codec (`progress.go`) | none | parse, encode | handler, translator |
| Exact EPUB translator (`epub_position.go`) | rewrites `.po` files | moonToKobo, koboToMoon | engine, EPUB files |
| OPDS shelf (`shelf.go`) | index of the directory with its mutex, table of link targets | catalog pages, downloads, a walk of the directory when the index is 30 s old; rewriting of a proxied catalog | canonical library: a directory, or an OPDS server |
| Dashboard views (`api.go`, `ui.go`) | none | the status of each book | state store, book map |
| Configuration, authentication, command | none | start, headers | |

What makes the code hard is one design decision seen from many sides: the
store's mutex protects a single Get or Put, while every operation is a Get, a
computation that may contain a network call of up to ten seconds, and a Put of
the **whole** record. An upload's handler, the push goroutine of each upload,
the reconciliation loop, the passes started by mapping edits, and the
dashboard's two actions all do this to the same record. On top of that come a
backend that fails, answers late or applies a request its client has given up
on; a process that dies between any two steps; and, with exact positions, a
second writer of the `.po` files.

Two parts are hard for other reasons. The EPUB translator turns a chapter and a
number of characters into one of the spans kepubify puts around sentences, and
back, on every push and pull; an error of one sentence in either direction
would walk a reader through the book. The shelf keeps what it tells readers in
an index and a table of limited size, while the directory changes under it and
several catalogs are rewritten at once.

What makes each component correct:

- *Engine*: whatever stale record is stored last, a record is one the code
  could act on (queue flag and queued percentage agree, a warning is backed by
  the percentages next to it); what is pushed and what is shown as the
  backend's progress was real; the queue drains and conflicts surface once the
  world is quiet.
- *Conflict actions*: a choice takes effect although it overlaps a push.
- *State store*: the file always decodes, a save reported as done is what a
  restart finds, no error path keeps the mutex.
- *Translator*: a place that went back and forth stands for the place where
  somebody was; sync alone moves nobody.
- *Shelf*: a link works as long as its file stays, following the pages shows
  every book once, a link just handed out is not the next to be forgotten.
- *Dashboard*: once the world is quiet, a book's status is what a comparison
  with the backend itself would say.
- *Health*: the record is coherent although it has several writers; outages
  are alerted, and not too often.

`PROJECT.json` lists the hazards line by line with the properties for each.

## 2. Modules

    SyncRecords            records and the ways a record is computed from another
      SyncEngine           tasks that read, compute and store records
        MCSyncEngine       instances for TLC
      SyncRecordsProofs    lemmas: what each computation keeps or establishes
        SyncEngineProofs   the inductive invariant of SyncEngine: coherence;
                           what settled stays settled
          SyncRealProofs   and on top of it, no invented progress
    BackendHealth          health record, alerts
      MCBackendHealth, BackendHealthProofs
    EpubPositions          spans of a document, both translations
      PositionSync         a place that travels between Moon+ and Kobo
        MCPositionSync     books for TLC
        PositionSyncProofs
    ShelfLinks             proxied catalogs: the table of link targets
      ShelfLinksProofs
    ShelfIndex             a directory: index, pages, downloads
    Shelf                  EXTENDS both: shelfHandler, one source at a time
      MCShelf, ShelfProofs (on top of ShelfLinksProofs)
    DurableStore           what a saved map promises (abstract)
      StateStore           state.go's way of saving it
        MCStateStore, StateStoreProofs

An operator whose comment begins with *Fault:* is not the code: it is a
plausible bug in the definition after it, with which the named property fails.

**SyncRecords** has one operator per place where the code builds a record:
`Uploaded` (davHandler), `Unmapped`, `Delivered` (push), `Failed`
(syncFailure), `Observed`, `Errored` (reconcile), `Adopted`
(applyRemoteExact), `KeptClear`, `KeptQueue`, `Ignored` (apiConflicts), and
the decisions `Behind`, `NeedsPush`, `Target`. `Status` is what apiDashboard
derives from a record. Percentages are natural numbers
of hundredths, so the code's tolerance 0.01 is 1. Left out of a record are the
fields no decision reads; `NextRetryAt` is the Boolean `retryLater`, "lies in
the future", so every delay of `retryDelay` and the 15 minutes of unmapped or
refused books are one: time enough for anything else to happen.

**SyncEngine** gives every goroutine a program counter `pc[t]`, the book it
works on, the copy of a record it holds (`mine[t]`), and the message it sends
or has received (`msg[t]`). An action reads **or** writes one shared thing:

| Code | Actions |
|---|---|
| davHandler 94-138 | `DavRefuse` (furthest check, 204), `DavAccept`, `DavOpen`/`DavReject`/`DavCopy` (the library's handlePut: lock, truncate, copy; 423 or an error), `DavMerge` (Get and new record), `DavStore` (Put, `go push`) |
| push 140-186 | `PushGet`, `PushUnmapped`, `PushResolve`, `PushMark` (stamp), `PushSend`, `BackendApply`, then `PushCommit`, `PushFail` or `PushReject`, and `PutBack` |
| reconcileLoop, reconcile 327-382 | `Tick`, `StartPass` (the Snapshot of a pass the dashboard started), `Skip`, `StartPush`, `StartPull`, `PullOk`, `PullFail`, `PullReject`, `PutBack`, `PassDone`; books of a Snapshot are visited in any order, as Go ranges over a map |
| applyRemoteExact 212-239 | `Translate` (read the base), `Rewrite` (temporary file and rename), `NotTranslated` |
| apiConflicts 110-157 | `KeepMoon`, `KeepClear`, `KeepQueue` (then a push), `Ignore` then `PutBack` |
| apiMappings 68-108 | `MapSet` (the goroutine of a pass starts later, with `StartPass`), `MapDelete` |
| apiDashboard 34-52 | `Status`, in the property `Converges` |
| the rest of the world | `DavDelete`, `ReaderMoves`, `LateApply`, `RetryElapses`, `Crash` |

`late` holds requests MoonDav gave up on that the backend may still apply. A
crash loses goroutines and keeps `state.json`, `book-map.json`, the files and
requests on the wire. `seen` is a history variable: percentages stored by
uploads and percentages the backend has held.

Writes of `state.json` succeed in this module; **StateStore** is about those
that do not. It models `saveLocked` file operation by file operation (encode,
create `<path>.tmp`, fill it, rename), each of which may fail, with crashes
between them and in the middle of a write. `bookmap.go` saves in the same way
(its OpenBookMap differs in one point, it refuses to start on a file that does
not decode; `DiskWhole` says no such file comes from a crash). **DurableStore**
is the abstract specification: a current map, a saved map, and three moves,
change, save, restart. `Durable` is the refinement, with the decoded file as
the saved map.

**BackendHealth** models the health record's writers in the same style, with a
counter for the clock. Alerts are goroutines in `outbox` that deliver, or fail
and only log. `told` is a history: the stamp of the last alert of the outage.

**EpubPositions** has the pure functions of `epub_position.go`: `KoboSpans` (the
walk of koboSpans, one piece after the other, with its fix-up of spans that end
at 0), `MoonToKobo`, `KoboToMoon`. A document is the sequence of pieces the walk counts, each with
its length and whether a span is around it; the spans kepubify makes are not
nested, which is external. A path is a cleaned sequence of components, so `resolveEPUBPath`
(`Full`) appends it to the package's directory, of which each leading `..` takes
a component away; a chapter's document has the two names koboToMoon
accepts. **PositionSync** lets a place travel:

| Code | Actions |
|---|---|
| pushBackendState 188-202, moonToKobo | `Push`; without a translation the location is gone, as in a percentage-only push |
| applyRemoteExact 212-226, koboToMoon, writeStoredMoonPosition | `Pull`, only with a file and a translation |
| SetDetailed, or another file at the same path | `Replace` |
| the readers | `MoonReads`, `KoboReads` |

Which of them happens when is decided by percentages in SyncEngine; here any may
happen at any time. `fileRead` and `locationRead` are histories: the place a
person was at when the file's position, or the location, was made.

**ShelfLinks**, **ShelfIndex** and **Shelf** are `shelf.go`:

| Code | Actions |
|---|---|
| shelfTargetURL 189-212 | `AskRoot`, `Follow` (an unknown id is refused and changes nothing) |
| proxyOPDS 144-187 | `Catalog`, `NoCatalog` (a payload or a failure), `CatalogSent` |
| rewriteOPDSLinks, put 50-74 | per link `Stamp` (the time, before the lock), then `Put` with `Staying`, what a full table keeps |
| restart | `ProxyRestart`: the table is not saved |
| filesystemOPDS 239-311 | `AskFirst`, `AskNext`, `GivePage` with `Matching`, `PageSize`, `Page`, `NextPage` |
| scanShelfFiles 313-378 | `UseIndex`, `StartWalk`, `Look` (one path), `LookFail` (d.Info fails: no entry and no error), `WalkFail`, `StoreIndex` |
| serveShelfFile 380-430 | `AskFile`, `FindFile`, `Lstat`, `Open`, `Refuse` (Lstat or Open fails for a file that is there: 404), `StatFail` (500) |
| shelfHandler 87-102 | `Shelf!Next`: one source, set at the start |
| the directory, the clock | `Change`, `Expire`, `TimePasses` |

A walk looks at each path once, at the moment that decides whether it is
listed. `last`, `newest`, `during`, `throughout`, `steady`, `kept`, `calm` and
`crowded` are histories that say what the library was like in the meantime.
No other state of MoonDav is read or written by the shelf, so it is composed
with nothing else.

## 3. Runs

| Run | Question | Instance |
|---|---|---|
| `engine_settles` | Are records coherent and progress real whatever overlaps, does every book settle after what can go wrong, and stay so? `TypeOK`, `QueueCoherent`, `WarningHonest`, `BackendPercentReal`, `PushesRealProgress`, `Converges`, `StaysSettled` | a book mapped from the start or not; one upload of 60%; then one move of the backend to 80%, one fault (a call that fails, is refused or is applied late) and an edit (the mapping or the `.po` file, with a pass of its own) or a restart; or one conflict action (keep or ignore) with the move or with the fault |
| `engine_exact` | The same when files are rewritten: `QueueCoherent`, `WarningHonest`, `Converges` | exact positions, two uploads one after the other (the second is refused when a position ahead of it was adopted), one move of the backend, behind or ahead, with a second decimal the file format drops, one fault |
| `engine_newest`, `engine_files`, `engine_ignore`, `engine_keep` | see section 4 | two overlapping uploads of 20% or 60% (the first two), one choice and one move (the others), one fault (the last) |
| `health_race` | Is the record coherent with two writers and a restart, and does a due outage lead to an alert? `TypeOK`, `HealthCoherent`, `OutageAlerted` | loop and one more caller, calls and a restart until time 3, clock until 5, delays 2 |
| `health_spaced`, `health_recovery` | see section 4 | the loop, with one more caller in the first; clock until 8: room for two alerts and two outages |
| `store` | Is a save atomic? `DiskWhole`, `KeptIsOnDisk`, `Durable`, `MutexReleased` | two writers, two keys, two values, three Puts, one failure, one crash |
| `shelf` | Do links last, and does a listing show what is there? `TypeOK`, `LinksLast`, `WalkSound`, `LinksHold`, `PagesComplete` | proxied: three links, a table of two, two goroutines, three requests, three instants, one restart. Directory: three files of two titles, an index of at most two, pages of one or two entries, two readers, three requests, one change, one expiry, one fault (a walk, a look, Lstat, Open or Stat that fails) |
| `translator` | Does a place survive translation? `PositionTypeOK`, `PlaceKept`, `NoDrift` | every document of up to three pieces (a sentence, an image, a space), in a plain book, one whose second chapter has a name of the first, and one with a repeated chapter, a missing document and a missing item; every offset and span of it; the EPUB replaced by two others or unmapped |

*Bounds.* `Limits` is a set of budgets, each a number for every event of the
environment; a behaviour stays within one of them. Everything
MoonDav itself does is unbounded (the loop ticks for ever). One book is enough
for the engine's properties: each speaks of one book, records of different
books share nothing but the pass that visits them, and a pass that is busy
with another book is a pass that takes longer between `TakeSnapshot` and the
visit, which interleaving already allows. One upload and one choice, with the
loop, give three writers of one record; a lost update needs two. Two uploads
that overlap are explored by `engine_newest` and `engine_files`, and for the
safety properties of the other engine runs by the proofs of section 5, which
have none of these bounds. All runs have the furthest policy; `latest` only
leaves out the refusal of an upload, which the proofs cover too.

A table of two targets is full after two links and evicts with the third; three
instants let a stamp be overtaken twice. An index of two over libraries of two
and three has the case that just fits and the one that does not. Three requests
are two pages and a file, or two pages and the first of another listing, with an
expiry and a change anywhere between. Three pieces are what the boundary cases
of the spans need: a gap or an image between, before or after two sentences.

`MaxTime`, `LastCall`, `MaxCrashes` and `MaxAlerts` bound the clock, the calls,
the restarts and the counted alerts. Two units lie between the last call and the
end of the clock, so what is left when the callers fall silent can become due,
and `OutageAlerted` asks for a goroutine of notify in `outbox`, not for the stamp:
a restart between `StampPut` and `AlertOutage` has to be made up for, and is, when
the repeat interval has passed, by the loop. The clock stops, so the health runs do not check for deadlock, and
neither do `store` and `shelf`, whose Puts and requests run out.

*Symmetry* is used for the upload goroutines of `engine_newest` and
`engine_files`, and for the goroutines of each source of `shelf`: in runs of
invariants only.

*Fairness.* `WF` of each goroutine's own steps: every HTTP call has a timeout
of 10 s, no lock is held across a call, and the Go scheduler runs every
goroutine. `WF(Tick)`, `WF(LoopCheck)`: the ticker of reconcileLoop.
`WF(RetryElapses)`, `WF(Pass)`: time passes. Clients, other readers, faults,
late requests and crashes are under no fairness; the budgets make them stop,
which is what "once the world leaves it alone" means in `Converges`.

## 4. What the documentation promises and the code does not do

Each of these runs checks one sentence of the repository's README, and TLC
finds a behaviour of the model, hence of the code, that breaks it.

- `engine_newest`: "The newest normalized reading percentage is persisted in
  `/data/state.json`" (README.md:345). Two uploads overlap; the push of the
  first stores the record it read before the second. The second position and
  its queue entry are gone, though its WebDAV answer was a success.
- `engine_files`: "If the server has 61% and an offline device later uploads 35%,
  MoonDav keeps the 61% position. The device receives the server copy on its
  next read/sync cycle" (README.md:139). Two uploads overlap: both pass the
  furthest check, and the further one becomes the record though its file was
  refused (423, the answer is not looked at) or overwritten by the other. The
  device that is refused the upload then receives the older copy.
- `engine_ignore`: "Ignore until caught up suppresses the warning until Moon+
  reaches the backend percentage" (README.md:125). A pass or a push that read
  the record earlier stores it after the choice.
- `engine_keep`: "Keep Moon+ position pushes the exact current Moon+ progress
  back to the backend" (README.md:124). The push of the choice fails once and
  leaves the retry to the queue entry; a pass that read the record before the
  choice, and is still pulling, stores its copy without that entry. Nobody
  pushes any more and the warning is back, although every later call succeeds.
- `health_spaced`: "Minimum repeat interval for persistent outage"
  (README.md:568). The loop and a push both decide on copies nobody has stamped,
  and alert the outage twice at once.
- `health_recovery`: "A recovery notification is sent only when an outage
  notification was previously emitted" (README.md:366). The outage is stamped
  as notified before a goroutine tries to deliver it, and two goroutines keep
  no order.

The stale copies behind `health_spaced` break one more sentence, for which there is
no run: "MoonDav waits before alerting" (README.md:357). A failure that computed
its record before another call's success stores the old outage over it
(app.go:289), and alerts it at once although calls have just succeeded. In the
model it is a `SuccessPut` between the `FailureGet` and the `FailurePut` of another
task.

## 5. Proofs

`tlapm` checks every proof; no fact is assumed except the named ASSUMEs of the
modules (sets of percentages, `None` is none of the values, bounds are
naturals), which TLC evaluates in the runs.

**The engine.** `QueueCoherent` and `WarningHonest` are about stored records,
and neither is inductive: any step may store a copy some task has held for a
long time. The invariant `IInv` therefore says coherence of records *wherever
they are* (`RecordsOK`: in the store, in `mine`, in what a pass has still to
visit), and what every task has in its hands at each label (`LocalOK`). With it
a stale Put is harmless for coherence: what is stored was coherent when it was
computed, and coherence speaks of one record only. What is computed is
coherent by the lemmas of **SyncRecordsProofs**, one for each operator: for
example `Failed` keeps the queue percentage equal to the record's because a
coherent record that is not queued has queued percentage 0, and `Unmapped`,
`Failed`, `Delivered` keep a warning only when its percentages are kept.
`SyncEngineProofs` proves `Init => IInv` and one lemma per action, and
concludes

- `EngineInvariant`: `Spec => []IInv`
- `EngineTyped`: `Spec => []TypeOK`
- `EngineQueueCoherent`: `Spec => []QueueCoherent`
- `EngineWarningHonest`: `Spec => []WarningHonest`

for any sets of books and goroutines, any percentages, both policies, with and
without exact positions, and any budgets. `IInv` was checked by TLC on the
instances of the engine runs before it was proved.

**No invented progress.** `BackendPercentReal` and `PushesRealProgress` speak
of history: what uploads have stored and what the backend has held (`seen`).
**SyncRealProofs** adds `RealInv` to `IInv`: every record, again wherever it
is, shows progress that was real once, and so do the requests and answers in
`msg`. Two things make it inductive. `seen` only grows, so a record that sat in
a slow task for any time stays real. And a push sends `Target`, the queued
percentage or the record's own; because coherence (`IInv`) makes the queued
percentage of a queued record the record's own, one that is real for the record
is real for the push. This is where coherence is needed for more than itself:
with an incoherent queue a push would send the 0 of an empty one.

- `EngineReal`: `Spec => [](IInv /\ RealInv)`
- `EngineBackendReal`: `Spec => []BackendPercentReal`
- `EnginePushesReal`: `Spec => []PushesRealProgress`

**What settled stays settled.** `Converges` is liveness and stays with TLC. Its
other half is not: `StaysSettled` says that a book once `Steady` (settled, every
copy of its record the stored one, no request on the wire, nothing to adopt) only
leaves that state by a step of `Disturbed`: an upload, a choice, another reader,
the loss of its mapping or a pull refused for good. The argument is a fixed point:
the status of a settled record determines its warning, so `Observed` of it and of
what the backend holds is the record itself (`SteadyRecord`), it needs no push,
and no retry of it is open. Passes, late ticks, refused uploads, temporary errors,
restarts, and everything that happens to other books, late requests of theirs
included, then leave it as it is. Theorem `EngineStaysSettled`, for any number of
books and goroutines, with and without exact positions. It takes nothing for
granted about how the book settled, and says nothing of one with stale copies
under way: section 4 shows what those do.

**The health record.** `HealthCoherent` is proved like the engine's: the
invariant of **BackendHealthProofs** says it of the stored record and of every
copy on its way back, and that the clock has left the zero time, which the
record uses for "not down". Lemmas for `Failed`, `Recovered` and the stamp of
maybeNotifyOutage show each computation keeps it; theorems `HealthInvariant`,
`HealthTyped`, `HealthIsCoherent`. Any number of callers, any delays, restarts
at any moment. `TypeOK` includes that no stamp lies in the future, in the store or
in a copy: maybeNotifyOutage compares the time since a stamp with a delay, and
would be silent until such a stamp had passed.

**The store.** The invariant of **StateStoreProofs** adds two conjuncts to the
properties: `Exclusive` (the mutex: one writer is between its Put and its
unlock) and `Fresh` (once `fill` is done the temporary file holds exactly the
map its writer encoded, which is the map in memory). Then the rename is the
one step that changes what a restart reads, and it takes it from one whole map
to another. Theorems:

- `StoreInvariant`: `Spec => []IInv`
- `StoreWhole`: `Spec => []DiskWhole`, and `StoreKept`: `Spec => []KeptIsOnDisk`
- `StoreRefines`: `Spec => Durable`, the refinement of **DurableStore**: the
  rename is its save, a crash its restart, a Put its change (one whose save
  fails stays in memory, as in the code), every other step a stutter.

- `StoreTyped`: `Spec => []TypeOK`

**Links.** `LinksLast` counts: if a link that was stored is not in the table, at
least Capacity - 1 other links were stored with times no older than its own.
It is inductive together with what the table says (`TableOK`: a held link has
the time it was last stored with). The interesting step is `Put` on a full
table: the evicted link is an oldest one, so every link that stays is a witness,
and there are Capacity - 1 of those. That the new link may already be in the
table, and that stamps may arrive out of order, is why it is one less than the
capacity and why the witnesses' times are `newest` and not `last`.
`LinksInvariant`, `LinksTyped` are about **ShelfLinks**, `ShelfLinksLast` is the
same of **Shelf**, for any capacity, links, catalogs and goroutines.

**The directory.** A link of a page works because of a chain: a file that
stayed all through a walk is found or still to look at (`WalkSound`), so in the
index it leaves (`steady`), so wherever a reader took a link from (`kept`). The
invariant (`StaysOK`, `KeptOK` in **ShelfProofs**) says of every moment that what
stayed on the shelf and was given to a reader is in the index, and, while somebody
walks, in `throughout`; all of it as long as no walk met more files than an index
holds. A file the operating system refused to describe or to open, at the request
or during the walk, no longer counts as one that stayed: the code tells neither
from a file that is gone. Theorems `IndexInvariant`, `ShelfWalkSound`, `ShelfLinksHold`.

**Pages.** `PagesComplete` says that a reader who followed the next links to their
end was shown every matching file once. `PagesInv` says it of every moment: while
nothing changed since the first page (`calm`), what a reader has been shown is the
listing up to where the page it asks for next begins (`Followed`), and the page it
is waiting for is one it was given a link to. One page more is arithmetic
(`PagesBefore`, `PageGoesOn`): the end of a page is the start of the next, and no
link is given exactly when it is the end of the list. What the lists are is the
harder part. `Listing` chooses a list sorted by title with each file once; that
there is one for every set of files is shown by a least counterexample, of which
the file with the last title can be taken away and appended again (`LastTitle`,
`ListGrows`, `ListingLists`). `Filtered` is a recursive function; that it exists
and is unique, hence that a search gives a list of files, is shown the same way
(`FilterExists`, `FilterUnique`). The least element comes from the library's
theorem that finite sets are well founded under inclusion (`LeastNumber`), which
needs no induction theorem with an operator parameter. Theorems `PagesInvariant`,
`ShelfPagesComplete`, and `ShelfTyped`, the type correctness of both sources.

**Positions.** `PlaceKept` is the invariant with the types: a position in the file
is either where somebody was or the start of a span that stands for that place,
and a location is a span that does. Its two halves feed each other: a push keeps
it because the first span that ends after an offset stands for every offset that
the start of another such span stood for (`StartOfText`, `StartKeepsStanding` in
**PositionSyncProofs**), a pull because a name that belongs to one chapter alone
finds that chapter again. `NoDrift` follows from the order of the spans: the
start of a span with text lies in no other. That spans are in order (`Ordered`) is
no assumption: `SpansOrdered` shows it of `KoboSpans` for every document. What the
walk has made so far is in order and ends no later than where the walk is
(`PassedSound`); that this holds after the last piece is again an argument by a
least counterexample (`WalkIsSound`); and the fix-up keeps it, because only a span
without text at the very start can still have end 0. All that `BooksAssumption`
asks is that documents are sequences of pieces. Theorems `SpansOrdered`,
`PositionInvariant`, `PositionTyped`, `PositionKept`, `PositionNoDrift`.

Only model-checked: the liveness properties `Converges`,
`OutageAlerted` and `MutexReleased`, as liveness under fairness is out of the
prover's reach. Every other property of a passing run is a theorem. The
sentences of section 4 are refuted, so there is nothing to prove of them.

## 6. Not modelled

Configuration, authentication and the command (sections of `PROJECT.json` say
why). Of what is modelled: the text of a `.po` file and the XML and archive of an
EPUB, with the escapes in its paths, which the code undoes once more each time a
path is resolved; kepubify; spans inside spans, which kepubify does not make; the mapping's
key normalisation (a key is a model value, so the dashboard's key with blanks is
not there); WebDAV methods that move or copy a `.po` file; uploads over the size
limit, refused before any state is read; the wording of errors; the shelf's
headers, ranges and resolution of relative links, and requests for pages nobody
was given a link to. The server's write timeout of 30 s (`cmd/moondav/main.go:41`)
cuts longer downloads short, although README.md:306 promises there is no such
limit: nothing but elapsed time is involved, so there is nothing to check.
Power loss is left out (nothing in the code calls fsync, and what survives is a
matter of the file system). `MOONDAV_BACKEND=none` is left out: the engine then
does nothing.

## 7. Plan

Done: the record operators and the dashboard's status, the engine, the health
record, the store, the translator, the shelf; every property of a passing run
that is not liveness is proved, and the safety half of `Converges`.

Left, in this order:

1. *Proofs*: the safety half of `OutageAlerted` (what keeps an alert due until
   its goroutine is started).
2. *Composition*: PositionSync's positions as the data of SyncEngine's exact
   pushes and pulls, where percentage and location may be of two uploads.
3. *Book map*: key normalisation in SetDetailed, Resolve and apiConflicts, where
   one of them leaves it out.
4. *Moon+ codec*: parse and encode against a reference, with the ranges
   ParseMoonPosition refuses.
