------------------------------ MODULE ShelfIndex ------------------------------
(***************************************************************************)
(* The shelf that lists a directory (shelf.go: filesystemOPDS,             *)
(* scanShelfFiles, serveShelfFile).  A request works on a copy of an index *)
(* of the directory; the first one that finds the index 30 s old walks the *)
(* directory again, with the index's mutex held all the while.  The        *)
(* directory is somebody else's and changes at any moment, also while it   *)
(* is walked.                                                              *)
(*                                                                         *)
(* A file is a path with a supported extension; it is on the shelf while   *)
(* a regular file is there (library), and off it while there is nothing, a *)
(* directory or a symbolic link.  The walk reads directories and asks for  *)
(* each entry's kind later; whether a path is listed depends on one of     *)
(* these two moments, so a path is looked at once, in any order.           *)
(***************************************************************************)
EXTENDS Naturals, FiniteSets, Sequences

CONSTANTS
    Files,        \* paths that may hold a book
    Nothing,      \* no file is asked for, or nobody holds the mutex
    Libraries,    \* the files that may be on the shelf when MoonDav starts
    Title,        \* the rank of each file's title, ignoring case
    Queries,      \* searches: the files each one matches
    Visitors,     \* readers, each with the goroutine that serves it
    MaxFiles,     \* the 10000 files an index holds at most
    DefaultSize,  \* entries of a page: 100
    MaxSize,      \* and at most 200
    Sizes,        \* sizes readers ask for; 0 for none or one that is no number
    Bound         \* how often each event below happens

ShelfEvents == {"asks", "changes", "expiries", "faults"}

ASSUME FilesAssumption == IsFiniteSet(Files) /\ Nothing \notin Files \union Visitors
ASSUME LibrariesAssumption == Libraries \subseteq SUBSET Files
ASSUME TitleAssumption == Title \in [Files -> Nat]
ASSUME QueriesAssumption == Queries \subseteq SUBSET Files
ASSUME SizesAssumption == /\ {MaxFiles, DefaultSize, MaxSize} \subseteq Nat \ {0}
                          /\ Sizes \subseteq Nat
ASSUME BoundAssumption == Bound \in [ShelfEvents -> Nat]

VARIABLES
    library,    \* the files that are on the shelf
    index,      \* shelfIndex.files
    fresh,      \* whether the index is younger than 30 s
    holder,     \* who holds shelfIndex.mu
    unvisited,  \* the paths the walk has still to look at
    found,      \* and those it lists
    where,      \* where each goroutine is
    want,       \* its request
    next,       \* the page the last one links to as the next, 0 if it does not
    shown,      \* the entries of the pages the reader has followed so far
    answer,     \* what its last request for a file came to
    during,     \* history: files that were on the shelf at some time of the walk
    throughout, \* history: and those that were there, and readable, all the time
    steady,     \* history: files of the index that stayed since its walk began
    kept,       \* history: entries a reader was given of files that stayed since,
                \* and that the operating system did not refuse
    calm,       \* history: the library is the one the reader's first page showed
    crowded,    \* history: a walk met more files than an index holds
    happened    \* how often each event has happened

walkVars == <<holder, unvisited, found, during, throughout>>
indexed == <<index, fresh, steady, crowded>>
readerVars == <<where, want, next, shown, answer, kept, calm>>
indexVars == <<library, walkVars, indexed, readerVars, happened>>

Request == [file: Files \union {Nothing}, page: Nat, size: Nat, query: SUBSET Files]
Answers == {"none", "served", "missing", "other", "unavailable"}

IndexTypeOK ==
    /\ library \subseteq Files /\ index \subseteq Files /\ found \subseteq Files
    /\ unvisited \subseteq Files /\ during \subseteq Files
    /\ throughout \subseteq Files /\ steady \subseteq index
    /\ Cardinality(index) <= MaxFiles /\ Cardinality(found) <= MaxFiles
    /\ fresh \in BOOLEAN /\ crowded \in BOOLEAN
    /\ holder \in Visitors \union {Nothing}
    /\ where \in [Visitors -> {"idle", "scan", "walk", "lstat", "open"}]
    /\ want \in [Visitors -> Request]
    /\ next \in [Visitors -> Nat]
    /\ shown \in [Visitors -> Seq(Files)]
    /\ answer \in [Visitors -> Answers]
    /\ kept \in [Visitors -> SUBSET Files]
    /\ calm \in [Visitors -> BOOLEAN]
    /\ happened \in [ShelfEvents -> Nat]

NoRequest == [file |-> Nothing, page |-> 1, size |-> 1, query |-> Files]

IndexInit ==
    /\ library \in Libraries
    /\ index = {} /\ fresh = FALSE /\ holder = Nothing
    /\ unvisited = {} /\ found = {}
    /\ where = [v \in Visitors |-> "idle"]
    /\ want = [v \in Visitors |-> NoRequest]
    /\ next = [v \in Visitors |-> 0]
    /\ shown = [v \in Visitors |-> <<>>]
    /\ answer = [v \in Visitors |-> "none"]
    /\ during = {} /\ throughout = {} /\ steady = {}
    /\ kept = [v \in Visitors |-> {}]
    /\ calm = [v \in Visitors |-> FALSE]
    /\ crowded = FALSE
    /\ happened = [e \in ShelfEvents |-> 0]

Happens(e) ==
    /\ happened[e] < Bound[e]
    /\ happened' = [happened EXCEPT ![e] = @ + 1]

----------------------------------------------------------------------------
(* Pages of a listing. *)

\* Sorted by title; files of equal titles in an order that the same files
\* always get again.
Listing(S) ==
    CHOOSE s \in [1 .. Cardinality(S) -> S] :
        /\ \A f \in S : \E i \in DOMAIN s : s[i] = f
        /\ \A i, j \in DOMAIN s : i < j => Title[s[i]] <= Title[s[j]]

\* The entries of a list that a search matches, in their order.
Filtered(list, q) ==
    LET first[i \in 0 .. Len(list)] ==
            IF i = 0 THEN <<>>
            ELSE IF list[i] \in q THEN Append(first[i - 1], list[i]) ELSE first[i - 1]
    IN  first[Len(list)]

Matching(S, q) == Filtered(Listing(S), q)

PositiveInt(n, default) == IF n < 1 THEN default ELSE n

Least(m, n) == IF m < n THEN m ELSE n

PageSize(asked) == Least(PositiveInt(asked, DefaultSize), MaxSize)

\* Where a page starts and ends in a list of n entries.
Start(r, n) == Least((r.page - 1) * r.size, n)
End(r, n) == Least(Start(r, n) + r.size, n)

Page(list, r) == SubSeq(list, Start(r, Len(list)) + 1, End(r, Len(list)))

\* Fault: no link to a last page of one entry.
NextPageEarly(list, r) == IF End(r, Len(list)) + 1 < Len(list) THEN r.page + 1 ELSE 0

NextPage(list, r) == IF End(r, Len(list)) < Len(list) THEN r.page + 1 ELSE 0

----------------------------------------------------------------------------
(* Requests. *)

Ask(v, request) ==
    /\ where[v] = "idle"
    /\ Happens("asks")
    /\ where' = [where EXCEPT ![v] = "scan"]
    /\ want' = [want EXCEPT ![v] = request]
    /\ UNCHANGED <<library, walkVars, indexed>>

\* The first page, for a size and a search.
AskFirst(v, size, q) ==
    /\ Ask(v, [file |-> Nothing, page |-> 1, size |-> PageSize(size), query |-> q])
    /\ shown' = [shown EXCEPT ![v] = <<>>]
    /\ next' = [next EXCEPT ![v] = 0]
    /\ calm' = [calm EXCEPT ![v] = FALSE]
    /\ UNCHANGED <<answer, kept>>

\* The page a page has a link to.
AskNext(v) ==
    /\ next[v] # 0
    /\ Ask(v, [want[v] EXCEPT !.file = Nothing, !.page = next[v]])
    /\ UNCHANGED <<next, shown, answer, kept, calm>>

AskFile(v, f) ==
    /\ Ask(v, [want[v] EXCEPT !.file = f])
    /\ answer' = [answer EXCEPT ![v] = "none"]
    /\ UNCHANGED <<next, shown, kept, calm>>

\* filesystemOPDS lists a page of what scanShelfFiles returned: the reader
\* has its entries, and what history knows of them.
GivePage(v, files, stayed) ==
    LET list == Matching(files, want[v].query)
        page == Page(list, want[v]) IN
    /\ where' = [where EXCEPT ![v] = "idle"]
    /\ shown' = [shown EXCEPT ![v] = @ \o page]
    /\ next' = [next EXCEPT ![v] = NextPage(list, want[v])]
    /\ kept' = [kept EXCEPT ![v] = @ \union {f \in stayed : \E i \in DOMAIN page : page[i] = f}]
    /\ calm' = [calm EXCEPT ![v] = IF want[v].page = 1 THEN files = library ELSE @]
    /\ UNCHANGED <<want, answer>>

Answered(v, what) ==
    /\ where' = [where EXCEPT ![v] = "idle"]
    /\ answer' = [answer EXCEPT ![v] = what]
    /\ UNCHANGED <<want, next, shown, kept, calm>>

Go(v, label) ==
    /\ where' = [where EXCEPT ![v] = label]
    /\ UNCHANGED <<want, next, shown, answer, kept, calm>>

\* serveShelfFile looks the requested file up.
FindFile(v, files) ==
    IF want[v].file \in files THEN Go(v, "lstat") ELSE Answered(v, "missing")

\* What a request does with the copy scanShelfFiles returns.
Use(v, files, stayed) ==
    IF want[v].file = Nothing THEN GivePage(v, files, stayed) ELSE FindFile(v, files)

----------------------------------------------------------------------------
(* scanShelfFiles. *)

\* The index is young enough.
UseIndex(v) ==
    /\ where[v] = "scan" /\ holder = Nothing
    /\ fresh
    /\ Use(v, index, steady)
    /\ UNCHANGED <<library, walkVars, indexed, happened>>

StartWalk(v) ==
    /\ where[v] = "scan" /\ holder = Nothing
    /\ ~fresh
    /\ holder' = v
    /\ unvisited' = Files /\ found' = {}
    /\ during' = library /\ throughout' = library
    /\ Go(v, "walk")
    /\ UNCHANGED <<library, indexed, happened>>

\* Fault: stops one file early.
LookEarly(v, f) ==
    /\ where[v] = "walk"
    /\ f \in unvisited
    /\ unvisited' = unvisited \ {f}
    /\ found' = IF f \in library /\ Cardinality(found) + 1 < MaxFiles
                THEN found \union {f} ELSE found
    /\ UNCHANGED <<library, holder, during, throughout, indexed, readerVars, happened>>

\* The walk comes to a path; when it has MaxFiles it lists no more.
Look(v, f) ==
    /\ where[v] = "walk"
    /\ f \in unvisited
    /\ unvisited' = unvisited \ {f}
    /\ found' = IF f \in library /\ Cardinality(found) < MaxFiles
                THEN found \union {f} ELSE found
    /\ UNCHANGED <<library, holder, during, throughout, indexed, readerVars, happened>>

\* The operating system does not tell what the path is: no entry, no error.
LookFail(v, f) ==
    /\ where[v] = "walk"
    /\ f \in unvisited /\ f \in library /\ Cardinality(found) < MaxFiles
    /\ Happens("faults")
    /\ unvisited' = unvisited \ {f}
    /\ throughout' = throughout \ {f}
    /\ kept' = [u \in Visitors |-> kept[u] \ {f}]
    /\ calm' = [u \in Visitors |-> FALSE]
    /\ UNCHANGED <<library, holder, found, during, indexed,
                   where, want, next, shown, answer>>

\* Fault: the error return leaves the mutex locked.
WalkFailHolding(v) ==
    /\ where[v] = "walk"
    /\ Happens("faults")
    /\ unvisited' = {} /\ found' = {} /\ during' = {} /\ throughout' = {}
    /\ Answered(v, "unavailable")
    /\ UNCHANGED <<library, holder, indexed>>

\* A directory cannot be read, for example one that was removed in the middle
\* of the walk: 503, and the old index stays as it is.
WalkFail(v) ==
    /\ where[v] = "walk"
    /\ Happens("faults")
    /\ holder' = Nothing
    /\ unvisited' = {} /\ found' = {} /\ during' = {} /\ throughout' = {}
    /\ Answered(v, "unavailable")
    /\ UNCHANGED <<library, indexed>>

\* The walk is over: its files become the index.
StoreIndex(v) ==
    /\ where[v] = "walk" /\ unvisited = {}
    /\ index' = found /\ fresh' = TRUE
    /\ steady' = found \intersect throughout
    /\ crowded' = (crowded \/ Cardinality(during) > MaxFiles)
    /\ holder' = Nothing
    /\ found' = {} /\ during' = {} /\ throughout' = {}
    /\ Use(v, index', steady')
    /\ UNCHANGED <<library, unvisited, happened>>

----------------------------------------------------------------------------
(* serveShelfFile, after the lookup. *)

Lstat(v) ==
    /\ where[v] = "lstat"
    /\ IF want[v].file \in library THEN Go(v, "open") ELSE Answered(v, "missing")
    /\ UNCHANGED <<library, walkVars, indexed, happened>>

\* What is there now is opened; if it is no regular file any more it is gone,
\* or something else.
Open(v) ==
    /\ where[v] = "open"
    /\ \E what \in IF want[v].file \in library THEN {"served"} ELSE {"missing", "other"} :
           Answered(v, what)
    /\ UNCHANGED <<library, walkVars, indexed, happened>>

\* Either may fail for a file that is there (no permission, no descriptor left,
\* an I/O error): that is a 404 as well.
Refuse(v) ==
    /\ where[v] \in {"lstat", "open"}
    /\ Happens("faults")
    /\ where' = [where EXCEPT ![v] = "idle"]
    /\ answer' = [answer EXCEPT ![v] = "missing"]
    /\ kept' = [kept EXCEPT ![v] = @ \ {want[v].file}]
    /\ UNCHANGED <<library, walkVars, indexed, want, next, shown, calm>>

\* The open file cannot be examined: 500.
StatFail(v) ==
    /\ where[v] = "open" /\ want[v].file \in library
    /\ Happens("faults")
    /\ Answered(v, "unavailable")
    /\ UNCHANGED <<library, walkVars, indexed>>

----------------------------------------------------------------------------
(* The rest of the world. *)

\* A file appears on the shelf, or goes.
Change(f) ==
    /\ Happens("changes")
    /\ library' = IF f \in library THEN library \ {f} ELSE library \union {f}
    /\ during' = IF holder # Nothing THEN during \union library' ELSE during
    /\ throughout' = throughout \ {f}
    /\ steady' = steady \ {f}
    /\ kept' = [v \in Visitors |-> kept[v] \ {f}]
    /\ calm' = [v \in Visitors |-> FALSE]
    /\ UNCHANGED <<holder, unvisited, found, index, fresh, crowded,
                   where, want, next, shown, answer>>

\* 30 s pass.
Expire ==
    /\ Happens("expiries")
    /\ fresh /\ fresh' = FALSE
    /\ UNCHANGED <<library, walkVars, index, steady, crowded, readerVars>>

ServeStep(v) ==
    \/ UseIndex(v) \/ StartWalk(v) \/ (\E f \in Files : Look(v, f) \/ LookFail(v, f))
    \/ WalkFail(v) \/ StoreIndex(v)
    \/ Lstat(v) \/ Open(v) \/ Refuse(v) \/ StatFail(v)

IndexNext ==
    \/ \E v \in Visitors :
           \/ \E s \in Sizes, q \in Queries : AskFirst(v, s, q)
           \/ AskNext(v) \/ (\E f \in Files : AskFile(v, f))
           \/ ServeStep(v)
    \/ \E f \in Files : Change(f)
    \/ Expire

IndexSpec == IndexInit /\ [][IndexNext]_indexVars

----------------------------------------------------------------------------
\* Only a walk under way holds the mutex, whatever way the last one ended.  It
\* lists no file that was never there while it went on, and misses none that
\* was there all the time, unless there were more than an index holds.
WalkSound ==
    /\ \A v \in Visitors : holder = v <=> where[v] = "walk"
    /\ found \subseteq during
    /\ throughout \subseteq during
    /\ Cardinality(during) <= MaxFiles => throughout \subseteq found \union unvisited

\* A link of a listing works for as long as its file stays on the shelf, however
\* often the index is rebuilt in between: 404 means that the file was touched, or
\* that the operating system refused to tell of it or to open it since.
LinksHold ==
    \A v \in Visitors : ~crowded /\ answer[v] \in {"missing", "other"} => want[v].file \notin kept[v]

\* A reader that follows the pages of a listing to the end has seen every
\* matching book exactly once, in order, when the library did not change and no
\* walk passed over a file: also across a rebuilt index, and whatever sizes it
\* asked for.
PagesComplete ==
    \A v \in Visitors :
        where[v] = "idle" /\ calm[v] /\ next[v] = 0 /\ want[v].file = Nothing
            => shown[v] = Matching(library, want[v].query)
=============================================================================
