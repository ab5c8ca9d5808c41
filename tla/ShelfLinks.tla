------------------------------ MODULE ShelfLinks ------------------------------
(***************************************************************************)
(* The OPDS proxy's table of link targets (shelf.go: shelfTargetStore with *)
(* proxyOPDS, shelfTargetURL and rewriteOPDSLinks).  MoonDav replaces each *)
(* link of a catalog that stays on the configured origin by an opaque one, *)
(* "/opds/proxy?id=...", and remembers the target in a bounded table that  *)
(* drops its oldest target when it is full.  A reader that follows a link  *)
(* whose target is gone is told 400.                                       *)
(*                                                                         *)
(* put() takes the time before it takes the lock, so targets may enter the *)
(* table in another order than their times.  A link here is a target on    *)
(* the origin; links that are left as they are (templates, other origins,  *)
(* malformed ones) play no part.  What the upstream answers is external:   *)
(* a catalog, a payload that is streamed through, or a failure.            *)
(***************************************************************************)
EXTENDS Naturals, FiniteSets, Sequences

CONSTANTS
    Links,        \* targets on the shelf's origin
    Feeds,        \* catalogs: the links each has, in the order of the document
    Proxies,      \* goroutines that serve a proxied request
    Capacity,     \* the 4096 of put()
    MaxTime,      \* bound on the clock
    MaxAsks,      \* bound on requests
    MaxRestarts   \* bound on restarts

ASSUME LinksAssumption == IsFiniteSet(Links)
ASSUME FeedsAssumption == Feeds \subseteq Seq(Links)
ASSUME CapacityAssumption == Capacity \in Nat \ {0}

VARIABLES
    now,       \* the process's monotonic clock, 1 at the start
    table,     \* targets: the time of each link in the table
    fetching,  \* where each goroutine is
    todo,      \* the links of its catalog still to be replaced
    stamp,     \* the time its put() read
    last,      \* history: the time each link was last stored with, 0 if never
    newest,    \* history: the newest time each link was ever stored with
    asks,      \* requests so far
    restarts   \* restarts so far

linkVars == <<now, table, fetching, todo, stamp, last, newest, asks, restarts>>

Held == DOMAIN table

\* Types, and the table never outgrows its capacity.
LinksTypeOK ==
    /\ now \in Nat \ {0}
    /\ Held \subseteq Links /\ table \in [Held -> Nat \ {0}]
    /\ Cardinality(Held) <= Capacity
    /\ fetching \in [Proxies -> {"idle", "upstream", "links", "put"}]
    /\ todo \in [Proxies -> Seq(Links)]
    /\ stamp \in [Proxies -> Nat]
    /\ last \in [Links -> Nat] /\ newest \in [Links -> Nat]
    /\ asks \in Nat /\ restarts \in Nat

Never == [l \in Links |-> 0]

LinksInit ==
    /\ now = 1
    /\ table = [l \in {} |-> 0]
    /\ fetching = [r \in Proxies |-> "idle"]
    /\ todo = [r \in Proxies |-> <<>>]
    /\ stamp = [r \in Proxies |-> 0]
    /\ last = Never /\ newest = Never
    /\ asks = 0 /\ restarts = 0

Proceed(r, from, to) == fetching[r] = from /\ fetching' = [fetching EXCEPT ![r] = to]

----------------------------------------------------------------------------
(* A request: shelfTargetURL, then proxyOPDS. *)

\* The root catalog has no id; an id is looked up in the table.  One that is
\* not there is answered 400, and nothing changes.
AskRoot(r) ==
    /\ Proceed(r, "idle", "upstream")
    /\ asks < MaxAsks /\ asks' = asks + 1
    /\ UNCHANGED <<now, table, todo, stamp, last, newest, restarts>>

Follow(r, l) ==
    /\ l \in Held
    /\ AskRoot(r)

\* The upstream answers with a catalog.
Catalog(r, f) ==
    /\ Proceed(r, "upstream", "links")
    /\ todo' = [todo EXCEPT ![r] = f]
    /\ UNCHANGED <<now, table, stamp, last, newest, asks, restarts>>

\* A payload is streamed; a failure or an oversized catalog is answered 502.
NoCatalog(r) ==
    /\ Proceed(r, "upstream", "idle")
    /\ UNCHANGED <<now, table, todo, stamp, last, newest, asks, restarts>>

\* put() reads the clock, then locks the table.
Stamp(r) ==
    /\ todo[r] # <<>>
    /\ Proceed(r, "links", "put")
    /\ stamp' = [stamp EXCEPT ![r] = now]
    /\ UNCHANGED <<now, table, todo, last, newest, asks, restarts>>

\* Fault: drops the target that was stored last.
DroppableNewest ==
    {o \in Held : \A k \in Held : table[k] <= table[o]}

Droppable == {o \in Held : \A k \in Held : table[o] <= table[k]}

\* Fault: one target more than the table has room for.
StayingLate ==
    IF Cardinality(Held) > Capacity
    THEN {Held \ {o} : o \in Droppable}
    ELSE {Held}

\* The targets put() leaves in the table: a full one loses an oldest target
\* (which one of several is up to the map's order), also when the new target
\* is in the table already.
Staying ==
    IF Cardinality(Held) >= Capacity
    THEN {Held \ {o} : o \in Droppable}
    ELSE {Held}

Put(r) ==
    LET l == Head(todo[r]) IN
    /\ Proceed(r, "put", "links")
    /\ \E stay \in Staying :
           table' = [k \in stay \union {l} |-> IF k = l THEN stamp[r] ELSE table[k]]
    /\ last' = [last EXCEPT ![l] = stamp[r]]
    /\ newest' = [newest EXCEPT ![l] = IF @ > stamp[r] THEN @ ELSE stamp[r]]
    /\ todo' = [todo EXCEPT ![r] = Tail(@)]
    /\ stamp' = [stamp EXCEPT ![r] = 0]
    /\ UNCHANGED <<now, asks, restarts>>

CatalogSent(r) ==
    /\ todo[r] = <<>>
    /\ Proceed(r, "links", "idle")
    /\ UNCHANGED <<now, table, todo, stamp, last, newest, asks, restarts>>

----------------------------------------------------------------------------
(* Time, and the end of the process: the table is not saved. *)

TimePasses ==
    /\ now < MaxTime
    /\ now' = now + 1
    /\ UNCHANGED <<table, fetching, todo, stamp, last, newest, asks, restarts>>

ProxyRestart ==
    /\ restarts < MaxRestarts /\ restarts' = restarts + 1
    /\ table' = [l \in {} |-> 0]
    /\ fetching' = [r \in Proxies |-> "idle"]
    /\ todo' = [r \in Proxies |-> <<>>]
    /\ stamp' = [r \in Proxies |-> 0]
    /\ last' = Never /\ newest' = Never
    /\ UNCHANGED <<now, asks>>

LinksNext ==
    \/ \E r \in Proxies :
           \/ AskRoot(r) \/ \E l \in Links : Follow(r, l)
           \/ \E f \in Feeds : Catalog(r, f)
           \/ NoCatalog(r) \/ Stamp(r) \/ Put(r) \/ CatalogSent(r)
    \/ TimePasses \/ ProxyRestart

LinksSpec == LinksInit /\ [][LinksNext]_linkVars

----------------------------------------------------------------------------
\* A link MoonDav has handed out is only forgotten (while the process lives)
\* after all but one of the table's places went to other links at least as
\* new: a reader that follows a link of a catalog it was just given is not
\* told 400 because of links older than it.  One place less than the capacity:
\* a full table drops a target even when it stores one it already has.
LinksLast ==
    \A l \in Links : last[l] # 0 /\ l \notin Held =>
        Cardinality({k \in Links \ {l} : newest[k] >= last[l]}) >= Capacity - 1

\* What the table says of a link is what was last stored for it.
TableOK ==
    \A l \in Held : table[l] = last[l] /\ last[l] <= newest[l]

\* A goroutine about to store has a link and a time.
PutOK ==
    \A r \in Proxies : fetching[r] = "put" => todo[r] # <<>> /\ stamp[r] # 0

\* The inductive invariant.
LinksInv == LinksTypeOK /\ TableOK /\ PutOK /\ LinksLast
=============================================================================
