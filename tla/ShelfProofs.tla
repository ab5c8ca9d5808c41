------------------------------ MODULE ShelfProofs ------------------------------
(***************************************************************************)
(* What holds of the shelf whichever source it has: the theorems of        *)
(* ShelfLinksProofs carried over, and, for the directory, that a walk      *)
(* lists what it should, that the links of a listing hold and that         *)
(* following its pages shows every file once: for any files, titles,       *)
(* searches, readers and sizes, and any changes, failures and expiries.    *)
(*                                                                         *)
(* LinksHold needs to know where the files a reader relies on are: still   *)
(* in the library, in the index, and, while a walk is under way, among     *)
(* those that have been there throughout, which the walk does not miss.    *)
(*                                                                         *)
(* PagesComplete needs to know what a reader has been shown: while nothing *)
(* changed, the listing up to where the page it is to ask for begins.      *)
(* That there is a listing at all (sorted by title, each file once), and   *)
(* that a search of it is one function, is shown by a least counterexample.*)
(***************************************************************************)
EXTENDS Shelf, ShelfLinksProofs, SequenceTheorems

Walking == holder # Nothing

\* Types of what the walk and the histories are about.
IndexTyped ==
    /\ library \subseteq Files /\ index \subseteq Files /\ found \subseteq Files
    /\ during \subseteq Files /\ holder \in Visitors \union {Nothing}
    /\ where \in [Visitors -> {"idle", "scan", "walk", "lstat", "open"}]
    /\ want \in [Visitors -> Request]
    /\ next \in [Visitors -> Nat]
    /\ answer \in [Visitors -> Answers]
    /\ kept \in [Visitors -> SUBSET Files]
    /\ crowded \in BOOLEAN

\* Histories: what stayed is still there.
StaysOK ==
    /\ throughout \subseteq library /\ steady \subseteq index \intersect library
    /\ Walking => library \subseteq during

KeptOK(v) ==
    /\ kept[v] \subseteq library
    /\ ~crowded => kept[v] \subseteq index
    /\ Walking => kept[v] \subseteq throughout

\* The inductive invariant.
IndexInv ==
    /\ IndexTyped /\ StaysOK /\ WalkSound
    /\ \A v \in Visitors : KeptOK(v)
    /\ LinksHold

----------------------------------------------------------------------------
LEMMA IndexInitOK == IndexInit => IndexInv
<1> SUFFICES ASSUME IndexInit PROVE IndexInv OBVIOUS
<1> USE DEF IndexInit
<1>1. IndexTyped
  BY LibrariesAssumption, SizesAssumption, FilesAssumption
     DEF IndexTyped, NoRequest, Request, Answers
<1>2. StaysOK BY DEF StaysOK, Walking
<1>3. WalkSound BY FilesAssumption DEF WalkSound
<1>4. \A v \in Visitors : KeptOK(v) BY DEF KeptOK, Walking
<1>5. LinksHold BY DEF LinksHold
<1> QED BY <1>1, <1>2, <1>3, <1>4, <1>5 DEF IndexInv

\* Files are finite, so are the sets of them.
LEMMA FilesFinite ==
    ASSUME NEW S, S \subseteq Files
    PROVE  IsFiniteSet(S) /\ Cardinality(S) \in Nat
BY FilesAssumption, FS_Subset, FS_CardinalityType

\* Looking at a path keeps the walk sound: a list that is full already holds
\* every file of a library that is no larger.
LEMMA LookKeeps ==
    ASSUME IndexInv, NEW v \in Visitors, NEW f \in Files, Look(v, f)
    PROVE  IndexInv'
<1>1. /\ holder = v /\ Walking /\ f \in unvisited /\ unvisited' = unvisited \ {f}
      /\ found' = IF f \in library /\ Cardinality(found) < MaxFiles
                  THEN found \union {f} ELSE found
      /\ UNCHANGED <<library, holder, during, throughout, index, steady, crowded,
                     where, want, next, answer, kept>>
  BY FilesAssumption DEF Look, IndexInv, WalkSound, Walking, indexed, readerVars
<1>2. library \subseteq during /\ throughout \subseteq library /\ found \subseteq during
      /\ during \subseteq Files
  BY <1>1 DEF IndexInv, StaysOK, WalkSound, IndexTyped
<1>3. found' \subseteq during BY <1>1, <1>2
<1>4. ASSUME Cardinality(during) <= MaxFiles PROVE throughout \subseteq found' \union unvisited'
  <2>1. throughout \subseteq found \union unvisited
    BY <1>4 DEF IndexInv, WalkSound
  <2>2. CASE f \in library /\ ~(Cardinality(found) < MaxFiles)
    <3>1. /\ IsFiniteSet(during) /\ Cardinality(found) \in Nat
          /\ Cardinality(during) \in Nat /\ MaxFiles \in Nat
      BY <1>2, FilesFinite, SizesAssumption
    <3>2. Cardinality(found) = Cardinality(during)
      BY <1>2, <1>4, <2>2, <3>1, FS_Subset
    <3>3. found = during BY <1>2, <3>1, <3>2, FS_Subset
    <3> QED BY <1>1, <1>2, <2>1, <2>2, <3>3
  <2> QED BY <1>1, <1>2, <2>1, <2>2
<1>5. WalkSound' BY <1>1, <1>2, <1>3, <1>4 DEF IndexInv, WalkSound
<1>6. IndexTyped' /\ StaysOK' /\ (\A u \in Visitors : KeptOK(u)') /\ LinksHold'
  BY <1>1 DEF IndexInv, IndexTyped, StaysOK, KeptOK, LinksHold, Walking
<1> QED BY <1>5, <1>6 DEF IndexInv

----------------------------------------------------------------------------
(* Requests. *)

\* A new request clears the answer of an earlier one for a file.
LEMMA AskKeeps ==
    ASSUME IndexInv, NEW v \in Visitors, NEW request \in Request, Ask(v, request),
           kept' = kept, next' \in [Visitors -> Nat],
           \/ request.file = Nothing /\ answer' = answer
           \/ answer' = [answer EXCEPT ![v] = "none"]
    PROVE  IndexInv'
<1>1. /\ where[v] = "idle" /\ where' = [where EXCEPT ![v] = "scan"]
      /\ want' = [want EXCEPT ![v] = request]
      /\ UNCHANGED <<library, holder, unvisited, found, during, throughout,
                     index, fresh, steady, crowded>>
  BY DEF Ask, walkVars, indexed
<1>2. IndexTyped' BY <1>1 DEF IndexInv, IndexTyped, Answers
<1>3. WalkSound' BY <1>1 DEF IndexInv, IndexTyped, WalkSound
<1>4. StaysOK' /\ \A u \in Visitors : KeptOK(u)'
  BY <1>1 DEF IndexInv, StaysOK, KeptOK, Walking
<1>5. LinksHold'
  <2> SUFFICES ASSUME NEW u \in Visitors, ~crowded, answer'[u] \in {"missing", "other"}
               PROVE  want'[u].file \notin kept[u]
    BY <1>1 DEF LinksHold
  <2>1. kept[u] \subseteq Files BY DEF IndexInv, IndexTyped
  <2>2. CASE u = v
    <3>1. request.file = Nothing BY <2>2 DEF IndexInv, IndexTyped
    <3> QED BY <1>1, <2>1, <2>2, <3>1, FilesAssumption DEF IndexInv, IndexTyped
  <2>3. CASE u # v BY <1>1, <2>3 DEF IndexInv, IndexTyped, LinksHold
  <2> QED BY <2>2, <2>3
<1> QED BY <1>2, <1>3, <1>4, <1>5 DEF IndexInv

\* The requests of a reader are well formed.
LEMMA Requests ==
    ASSUME IndexInv, NEW v \in Visitors
    PROVE  /\ \A s \in Sizes, q \in Queries :
                 [file |-> Nothing, page |-> 1, size |-> PageSize(s), query |-> q] \in Request
           /\ want[v] \in Request
           /\ \A n \in Nat : [want[v] EXCEPT !.file = Nothing, !.page = n] \in Request
           /\ \A f \in Files : [want[v] EXCEPT !.file = f] \in Request
<1>1. want[v] \in Request BY DEF IndexInv, IndexTyped
<1>2. \A s \in Sizes : PageSize(s) \in Nat
  BY SizesAssumption DEF PageSize, PositiveInt, Least
<1> QED BY <1>1, <1>2, QueriesAssumption DEF Request

\* What a request does with the files it is given.
LEMMA UseFacts ==
    ASSUME IndexInv, NEW v \in Visitors, NEW files, NEW stayed \in SUBSET Files,
           Use(v, files, stayed)
    PROVE  /\ want' = want /\ next' \in [Visitors -> Nat]
           /\ \E w \in {"idle", "lstat"} : where' = [where EXCEPT ![v] = w]
           /\ \/ kept' = kept
              \/ /\ want[v].file = Nothing /\ answer' = answer
                 /\ \E new \in SUBSET stayed : kept' = [kept EXCEPT ![v] = @ \union new]
           /\ \/ answer' = answer
              \/ /\ want[v].file \notin files /\ kept' = kept
                 /\ answer' = [answer EXCEPT ![v] = "missing"]
<1>1. CASE want[v].file = Nothing
  <2>1. GivePage(v, files, stayed) BY <1>1 DEF Use
  <2> DEFINE page == Page(Matching(files, want[v].query), want[v])
             new == {f \in stayed : \E i \in DOMAIN page : page[i] = f}
  <2>2. kept' = [kept EXCEPT ![v] = @ \union new] BY <2>1 DEF GivePage
  <2>3. new \in SUBSET stayed OBVIOUS
  <2> HIDE DEF new
  <2>4. \E n \in SUBSET stayed : kept' = [kept EXCEPT ![v] = @ \union n] BY <2>2, <2>3
  <2>5. NextPage(Matching(files, want[v].query), want[v]) \in Nat
    <3>1. want[v].page \in Nat BY Requests DEF Request
    <3>2. want[v].page + 1 \in Nat BY <3>1
    <3> QED BY <3>2 DEF NextPage
  <2>6. next' \in [Visitors -> Nat]
    BY <2>1, <2>5 DEF GivePage, IndexInv, IndexTyped
  <2> QED BY <1>1, <2>1, <2>4, <2>6 DEF GivePage
<1>2. CASE want[v].file # Nothing
  BY <1>2 DEF Use, FindFile, Go, Answered, IndexInv, IndexTyped
<1> QED BY <1>1, <1>2

\* The files a request was given are all that history knows of for it.
LEMMA UsedKeeps ==
    ASSUME IndexInv, NEW v \in Visitors, NEW files, NEW stayed \in SUBSET Files,
           Use(v, files, stayed),
           ~crowded' => /\ stayed \subseteq files /\ kept[v] \subseteq files
                        /\ ~crowded
    PROVE  /\ next' \in [Visitors -> Nat]
           /\ want' \in [Visitors -> Request] /\ answer' \in [Visitors -> Answers]
           /\ where' \in [Visitors -> {"idle", "scan", "walk", "lstat", "open"}]
           /\ kept' \in [Visitors -> SUBSET Files]
           /\ \A u \in Visitors : kept'[u] \subseteq kept[u] \union (IF u = v THEN stayed ELSE {})
           /\ LinksHold'
<1>1. /\ want \in [Visitors -> Request] /\ answer \in [Visitors -> Answers]
      /\ where \in [Visitors -> {"idle", "scan", "walk", "lstat", "open"}]
      /\ kept \in [Visitors -> SUBSET Files]
  BY DEF IndexInv, IndexTyped
<1>2. /\ want' = want /\ next' \in [Visitors -> Nat]
      /\ \E w \in {"idle", "lstat"} : where' = [where EXCEPT ![v] = w]
      /\ \/ kept' = kept
         \/ /\ want[v].file = Nothing /\ answer' = answer
            /\ \E new \in SUBSET stayed : kept' = [kept EXCEPT ![v] = @ \union new]
      /\ \/ answer' = answer
         \/ /\ want[v].file \notin files /\ kept' = kept
            /\ answer' = [answer EXCEPT ![v] = "missing"]
  BY UseFacts
<1>3. kept' \in [Visitors -> SUBSET Files] BY <1>1, <1>2
<1>4. \A u \in Visitors : kept'[u] \subseteq kept[u] \union (IF u = v THEN stayed ELSE {})
  BY <1>1, <1>2
<1>5. answer' \in [Visitors -> Answers] BY <1>1, <1>2 DEF Answers
<1>6. LinksHold'
  <2> SUFFICES ASSUME NEW u \in Visitors, ~crowded', answer'[u] \in {"missing", "other"}
               PROVE  want[u].file \notin kept'[u]
    BY <1>2 DEF LinksHold
  <2>1. Nothing \notin kept'[u] BY <1>3, FilesAssumption
  <2>2. CASE kept' = kept
    <3>1. CASE answer' = answer BY <2>2, <3>1 DEF IndexInv, LinksHold
    <3>2. CASE want[v].file \notin files /\ answer' = [answer EXCEPT ![v] = "missing"]
      BY <1>1, <2>2, <3>2 DEF IndexInv, LinksHold
    <3> QED BY <1>2, <3>1, <3>2
  <2>3. CASE /\ want[v].file = Nothing /\ answer' = answer
             /\ \E new \in SUBSET stayed : kept' = [kept EXCEPT ![v] = @ \union new]
    <3>1. CASE u = v BY <2>1, <2>3, <3>1
    <3>2. CASE u # v BY <1>1, <2>3, <3>2 DEF IndexInv, LinksHold
    <3> QED BY <3>1, <3>2
  <2> QED BY <1>2, <2>2, <2>3
<1> QED BY <1>1, <1>2, <1>3, <1>4, <1>5, <1>6

LEMMA UseIndexKeeps ==
    ASSUME IndexInv, NEW v \in Visitors, UseIndex(v) PROVE IndexInv'
<1>1. /\ where[v] = "scan" /\ holder = Nothing /\ Use(v, index, steady)
      /\ UNCHANGED <<library, holder, unvisited, found, during, throughout,
                     index, fresh, steady, crowded>>
  BY DEF UseIndex, walkVars, indexed
<1>2. /\ steady \subseteq index /\ steady \subseteq library /\ index \subseteq Files
      /\ kept[v] \subseteq library /\ (~crowded => kept[v] \subseteq index)
  BY DEF IndexInv, StaysOK, KeptOK, IndexTyped
<1>3. /\ next' \in [Visitors -> Nat]
      /\ want' \in [Visitors -> Request] /\ answer' \in [Visitors -> Answers]
      /\ where' \in [Visitors -> {"idle", "scan", "walk", "lstat", "open"}]
      /\ kept' \in [Visitors -> SUBSET Files]
      /\ \A u \in Visitors : kept'[u] \subseteq kept[u] \union (IF u = v THEN steady ELSE {})
      /\ LinksHold'
  <2>1. steady \in SUBSET Files BY <1>2
  <2>2. ~crowded' => steady \subseteq index /\ kept[v] \subseteq index /\ ~crowded
    BY <1>1, <1>2
  <2> QED BY <1>1, <2>1, <2>2, UsedKeeps
<1>4. IndexTyped' BY <1>1, <1>3 DEF IndexInv, IndexTyped
<1>5. StaysOK' BY <1>1 DEF IndexInv, StaysOK, Walking
<1>6. WalkSound'
  <2>1. \E w \in {"idle", "lstat"} : where' = [where EXCEPT ![v] = w]
    <3>1. steady \in SUBSET Files BY <1>2
    <3> QED BY <1>1, <3>1, UseFacts
  <2> QED BY <1>1, <2>1, FilesAssumption DEF IndexInv, IndexTyped, WalkSound
<1>7. \A u \in Visitors : KeptOK(u)'
  BY <1>1, <1>2, <1>3 DEF IndexInv, KeptOK, Walking
<1> QED BY <1>3, <1>4, <1>5, <1>6, <1>7 DEF IndexInv

\* The files of a walk become the index: it has missed none that a reader knows
\* of, because those were there throughout.
LEMMA StoreIndexKeeps ==
    ASSUME IndexInv, NEW v \in Visitors, StoreIndex(v) PROVE IndexInv'
<1>1. /\ where[v] = "walk" /\ unvisited = {} /\ holder' = Nothing
      /\ index' = found /\ steady' = found \intersect throughout
      /\ crowded' = (crowded \/ Cardinality(during) > MaxFiles)
      /\ found' = {} /\ during' = {} /\ throughout' = {}
      /\ Use(v, found, found \intersect throughout)
      /\ UNCHANGED <<library, unvisited>>
  BY DEF StoreIndex
<1>2. holder = v /\ Walking /\ ~Walking'
  BY <1>1, FilesAssumption DEF IndexInv, WalkSound, Walking
<1>3. /\ found \subseteq Files /\ throughout \subseteq library
      /\ \A u \in Visitors : kept[u] \subseteq throughout
  BY <1>2 DEF IndexInv, StaysOK, KeptOK, IndexTyped
<1>4. ASSUME ~crowded' PROVE ~crowded /\ throughout \subseteq found
  <2>1. Cardinality(during) \in Nat /\ MaxFiles \in Nat
    BY FilesFinite, SizesAssumption DEF IndexInv, IndexTyped
  <2>2. ~crowded /\ ~(Cardinality(during) > MaxFiles) BY <1>1, <1>4
  <2>3. Cardinality(during) <= MaxFiles
    <3> DEFINE n == Cardinality(during)
    <3> HIDE DEF n
    <3>1. n \in Nat /\ ~(n > MaxFiles) BY <2>1, <2>2 DEF n
    <3>2. n <= MaxFiles BY <2>1, <3>1
    <3> QED BY <3>2 DEF n
  <2> QED BY <1>1, <2>2, <2>3 DEF IndexInv, WalkSound
<1>5. /\ next' \in [Visitors -> Nat]
      /\ want' \in [Visitors -> Request] /\ answer' \in [Visitors -> Answers]
      /\ where' \in [Visitors -> {"idle", "scan", "walk", "lstat", "open"}]
      /\ kept' \in [Visitors -> SUBSET Files]
      /\ \A u \in Visitors :
             kept'[u] \subseteq kept[u] \union (IF u = v THEN found \intersect throughout ELSE {})
      /\ LinksHold'
  <2>1. found \intersect throughout \in SUBSET Files BY <1>3
  <2>2. ~crowded' => /\ found \intersect throughout \subseteq found
                     /\ kept[v] \subseteq found /\ ~crowded
    BY <1>3, <1>4
  <2> QED BY <1>1, <2>1, <2>2, UsedKeeps
<1>6. \E w \in {"idle", "lstat"} : where' = [where EXCEPT ![v] = w]
  <2>1. found \intersect throughout \in SUBSET Files BY <1>3
  <2> QED BY <1>1, <2>1, UseFacts
<1>7. IndexTyped'
  <2>1. crowded' \in BOOLEAN BY <1>1 DEF IndexInv, IndexTyped
  <2> QED BY <1>1, <1>3, <1>5, <2>1 DEF IndexInv, IndexTyped
<1>8. StaysOK' BY <1>1, <1>2, <1>3 DEF StaysOK
<1>9. WalkSound'
  <2>1. \A u \in Visitors : u # v => where[u] # "walk"
    BY <1>2 DEF IndexInv, WalkSound
  <2>2. \A u \in Visitors : where'[u] # "walk"
    BY <1>6, <2>1 DEF IndexInv, IndexTyped
  <2> QED BY <1>1, <2>2, FilesAssumption DEF WalkSound
<1>10. \A u \in Visitors : KeptOK(u)'
  BY <1>1, <1>2, <1>3, <1>4, <1>5 DEF KeptOK
<1> QED BY <1>5, <1>7, <1>8, <1>9, <1>10 DEF IndexInv

----------------------------------------------------------------------------
(* The other steps. *)

LEMMA StartWalkKeeps ==
    ASSUME IndexInv, NEW v \in Visitors, StartWalk(v) PROVE IndexInv'
<1>1. /\ where[v] = "scan" /\ holder = Nothing /\ holder' = v
      /\ unvisited' = Files /\ found' = {} /\ during' = library /\ throughout' = library
      /\ where' = [where EXCEPT ![v] = "walk"]
      /\ UNCHANGED <<library, index, fresh, steady, crowded, want, next, answer, kept>>
  BY DEF StartWalk, Go, indexed
<1>2. IndexTyped' BY <1>1 DEF IndexInv, IndexTyped
<1>3. StaysOK' BY <1>1 DEF IndexInv, StaysOK
<1>4. WalkSound'
  <2>1. \A u \in Visitors : where[u] # "walk"
    BY <1>1, FilesAssumption DEF IndexInv, WalkSound
  <2> QED BY <1>1, <2>1 DEF IndexInv, IndexTyped, WalkSound
<1>5. \A u \in Visitors : KeptOK(u)' BY <1>1 DEF IndexInv, KeptOK
<1>6. LinksHold' BY <1>1 DEF IndexInv, LinksHold
<1> QED BY <1>2, <1>3, <1>4, <1>5, <1>6 DEF IndexInv

LEMMA WalkFailKeeps ==
    ASSUME IndexInv, NEW v \in Visitors, WalkFail(v) PROVE IndexInv'
<1>1. /\ where[v] = "walk" /\ holder' = Nothing
      /\ unvisited' = {} /\ found' = {} /\ during' = {} /\ throughout' = {}
      /\ where' = [where EXCEPT ![v] = "idle"]
      /\ answer' = [answer EXCEPT ![v] = "unavailable"]
      /\ UNCHANGED <<library, index, fresh, steady, crowded, want, next, kept>>
  BY DEF WalkFail, Answered, indexed
<1>2. IndexTyped' BY <1>1 DEF IndexInv, IndexTyped, Answers
<1>3. StaysOK' BY <1>1 DEF IndexInv, StaysOK, Walking
<1>4. WalkSound'
  <2>1. \A u \in Visitors : u # v => where[u] # "walk"
    BY <1>1, FilesAssumption DEF IndexInv, WalkSound
  <2>2. \A u \in Visitors : where'[u] # "walk"
    BY <1>1, <2>1 DEF IndexInv, IndexTyped
  <2> QED BY <1>1, <2>2, FilesAssumption DEF WalkSound
<1>5. \A u \in Visitors : KeptOK(u)' BY <1>1 DEF IndexInv, KeptOK, Walking
<1>6. LinksHold' BY <1>1 DEF IndexInv, IndexTyped, LinksHold
<1> QED BY <1>2, <1>3, <1>4, <1>5, <1>6 DEF IndexInv

\* A file the walk passes over is no longer one that a reader may rely on.
LEMMA LookFailKeeps ==
    ASSUME IndexInv, NEW v \in Visitors, NEW f \in Files, LookFail(v, f)
    PROVE  IndexInv'
<1>1. /\ unvisited' = unvisited \ {f} /\ throughout' = throughout \ {f}
      /\ kept' = [u \in Visitors |-> kept[u] \ {f}]
      /\ UNCHANGED <<library, holder, found, during, index, fresh, steady, crowded,
                     where, want, next, answer>>
  BY DEF LookFail, indexed
<1>2. IndexTyped' BY <1>1 DEF IndexInv, IndexTyped
<1>3. StaysOK' BY <1>1 DEF IndexInv, StaysOK, Walking
<1>4. WalkSound' BY <1>1 DEF IndexInv, WalkSound
<1>5. \A u \in Visitors : KeptOK(u)' BY <1>1 DEF IndexInv, KeptOK, Walking
<1>6. LinksHold' BY <1>1 DEF IndexInv, LinksHold
<1> QED BY <1>2, <1>3, <1>4, <1>5, <1>6 DEF IndexInv

\* A request the operating system refuses: its file, if the answer is 404, is
\* no longer one that the reader may rely on.
LEMMA RefuseKeeps ==
    ASSUME IndexInv, NEW v \in Visitors, Refuse(v) \/ StatFail(v) PROVE IndexInv'
<1>1. /\ where[v] \in {"lstat", "open"} /\ where' = [where EXCEPT ![v] = "idle"]
      /\ \/ /\ answer' = [answer EXCEPT ![v] = "missing"]
            /\ kept' = [kept EXCEPT ![v] = @ \ {want[v].file}]
         \/ answer' = [answer EXCEPT ![v] = "unavailable"] /\ kept' = kept
      /\ UNCHANGED <<library, holder, unvisited, found, during, throughout,
                     index, fresh, steady, crowded, want, next>>
  BY DEF Refuse, StatFail, Answered, walkVars, indexed
<1>2. /\ where \in [Visitors -> {"idle", "scan", "walk", "lstat", "open"}]
      /\ answer \in [Visitors -> Answers] /\ kept \in [Visitors -> SUBSET Files]
  BY DEF IndexInv, IndexTyped
<1>3. \A u \in Visitors : kept'[u] \subseteq kept[u] BY <1>1, <1>2
<1>4. IndexTyped'
  <2>1. answer' \in [Visitors -> Answers] /\ kept' \in [Visitors -> SUBSET Files]
    BY <1>1, <1>2 DEF Answers
  <2> QED BY <1>1, <1>2, <2>1 DEF IndexInv, IndexTyped
<1>5. StaysOK' BY <1>1 DEF IndexInv, StaysOK, Walking
<1>6. WalkSound' BY <1>1, <1>2 DEF IndexInv, WalkSound
<1>7. \A u \in Visitors : KeptOK(u)' BY <1>1, <1>3 DEF IndexInv, KeptOK, Walking
<1>8. LinksHold'
  <2> SUFFICES ASSUME NEW u \in Visitors, ~crowded, answer'[u] \in {"missing", "other"}
               PROVE  want[u].file \notin kept'[u]
    BY <1>1 DEF LinksHold
  <2>1. CASE u = v BY <1>1, <1>2, <2>1
  <2>2. CASE u # v BY <1>1, <1>2, <1>3, <2>2 DEF IndexInv, LinksHold
  <2> QED BY <2>1, <2>2
<1> QED BY <1>4, <1>5, <1>6, <1>7, <1>8 DEF IndexInv

\* Otherwise serveShelfFile misses only what is not in the library now.
LEMMA ServeKeeps ==
    ASSUME IndexInv, NEW v \in Visitors, Lstat(v) \/ Open(v) PROVE IndexInv'
<1>1. /\ where[v] \in {"lstat", "open"}
      /\ \E w \in {"open", "idle"} : where' = [where EXCEPT ![v] = w]
      /\ \/ answer' = answer
         \/ answer' = [answer EXCEPT ![v] = "served"]
         \/ /\ want[v].file \notin library
            /\ \E what \in {"missing", "other"} : answer' = [answer EXCEPT ![v] = what]
      /\ UNCHANGED <<library, holder, unvisited, found, during, throughout,
                     index, fresh, steady, crowded, want, next, kept>>
  BY DEF Lstat, Open, Go, Answered, walkVars, indexed
<1>2. IndexTyped' BY <1>1 DEF IndexInv, IndexTyped, Answers
<1>3. StaysOK' /\ \A u \in Visitors : KeptOK(u)'
  BY <1>1 DEF IndexInv, StaysOK, KeptOK, Walking
<1>4. WalkSound' BY <1>1 DEF IndexInv, IndexTyped, WalkSound
<1>5. LinksHold'
  <2> SUFFICES ASSUME NEW u \in Visitors, ~crowded, answer'[u] \in {"missing", "other"}
               PROVE  want[u].file \notin kept[u]
    BY <1>1 DEF LinksHold
  <2>1. kept[u] \subseteq library BY DEF IndexInv, KeptOK
  <2>2. CASE answer'[u] = answer[u] BY <2>2 DEF IndexInv, LinksHold
  <2>3. CASE answer'[u] # answer[u] BY <1>1, <2>1, <2>3 DEF IndexInv, IndexTyped
  <2> QED BY <2>2, <2>3
<1> QED BY <1>2, <1>3, <1>4, <1>5 DEF IndexInv

LEMMA ChangeKeeps ==
    ASSUME IndexInv, NEW f \in Files, Change(f) PROVE IndexInv'
<1>1. /\ library' = IF f \in library THEN library \ {f} ELSE library \union {f}
      /\ during' = IF Walking THEN during \union library' ELSE during
      /\ throughout' = throughout \ {f} /\ steady' = steady \ {f}
      /\ kept' = [v \in Visitors |-> kept[v] \ {f}]
      /\ UNCHANGED <<holder, unvisited, found, index, fresh, crowded,
                     where, want, next, answer>>
  BY DEF Change, Walking
<1>2. during \subseteq during' /\ during' \subseteq Files
  BY <1>1 DEF IndexInv, IndexTyped
<1>3. Cardinality(during') <= MaxFiles => Cardinality(during) <= MaxFiles
  <2>1. /\ IsFiniteSet(during') /\ Cardinality(during') \in Nat
        /\ Cardinality(during) \in Nat /\ MaxFiles \in Nat
    BY <1>2, FilesFinite, SizesAssumption
  <2>2. Cardinality(during) <= Cardinality(during') BY <1>2, <2>1, FS_Subset
  <2> QED BY <2>1, <2>2
<1>4. IndexTyped' BY <1>1, <1>2 DEF IndexInv, IndexTyped
<1>5. StaysOK' BY <1>1 DEF IndexInv, StaysOK, Walking
<1>6. WalkSound' BY <1>1, <1>2, <1>3 DEF IndexInv, WalkSound
<1>7. \A u \in Visitors : KeptOK(u)' BY <1>1 DEF IndexInv, KeptOK, Walking
<1>8. LinksHold' BY <1>1 DEF IndexInv, LinksHold
<1> QED BY <1>4, <1>5, <1>6, <1>7, <1>8 DEF IndexInv

LEMMA IndexStep == IndexInv /\ [IndexNext]_indexVars => IndexInv'
<1> SUFFICES ASSUME IndexInv, [IndexNext]_indexVars PROVE IndexInv' OBVIOUS
<1>1. ASSUME NEW v \in Visitors, NEW s \in Sizes, NEW q \in Queries, AskFirst(v, s, q)
      PROVE  IndexInv'
  <2> DEFINE request == [file |-> Nothing, page |-> 1, size |-> PageSize(s), query |-> q]
  <2>1. /\ Ask(v, request) /\ request.file = Nothing /\ answer' = answer /\ kept' = kept
        /\ next' \in [Visitors -> Nat]
    BY <1>1 DEF AskFirst, IndexInv, IndexTyped
  <2>2. request \in Request BY Requests
  <2> HIDE DEF request
  <2> QED BY <2>1, <2>2, AskKeeps
<1>2. ASSUME NEW v \in Visitors, AskNext(v) PROVE IndexInv'
  <2> DEFINE request == [want[v] EXCEPT !.file = Nothing, !.page = next[v]]
  <2>1. /\ Ask(v, request) /\ answer' = answer /\ kept' = kept
        /\ next' \in [Visitors -> Nat]
    BY <1>2 DEF AskNext, IndexInv, IndexTyped
  <2>2. request.file = Nothing BY Requests DEF Request
  <2>3. next[v] \in Nat BY DEF IndexInv, IndexTyped
  <2>4. request \in Request BY <2>3, Requests
  <2> HIDE DEF request
  <2> QED BY <2>1, <2>2, <2>4, AskKeeps
<1>3. ASSUME NEW v \in Visitors, NEW f \in Files, AskFile(v, f) PROVE IndexInv'
  <2> DEFINE request == [want[v] EXCEPT !.file = f]
  <2>1. /\ Ask(v, request) /\ answer' = [answer EXCEPT ![v] = "none"] /\ kept' = kept
        /\ next' \in [Visitors -> Nat]
    BY <1>3 DEF AskFile, IndexInv, IndexTyped
  <2>2. request \in Request BY Requests
  <2> HIDE DEF request
  <2> QED BY <2>1, <2>2, AskKeeps
<1>4. ASSUME NEW v \in Visitors, ServeStep(v) PROVE IndexInv'
  BY <1>4, UseIndexKeeps, StartWalkKeeps, LookKeeps, LookFailKeeps, WalkFailKeeps,
     StoreIndexKeeps, ServeKeeps, RefuseKeeps DEF ServeStep
<1>5. ASSUME NEW f \in Files, Change(f) PROVE IndexInv' BY <1>5, ChangeKeeps
<1>6. CASE Expire
  BY <1>6 DEF Expire, walkVars, readerVars, IndexInv, IndexTyped, StaysOK, WalkSound,
              KeptOK, LinksHold, Walking
<1>7. CASE UNCHANGED indexVars
  BY <1>7 DEF indexVars, walkVars, indexed, readerVars, IndexInv, IndexTyped, StaysOK,
              WalkSound, KeptOK, LinksHold, Walking
<1> QED BY <1>1, <1>2, <1>3, <1>4, <1>5, <1>6, <1>7 DEF IndexNext

----------------------------------------------------------------------------
(***************************************************************************)
(* Lists of files.  A listing is some sorted enumeration, a search a       *)
(* recursive function over it; that there are such ones is shown by the    *)
(* least set, or the least number of entries, for which there would be     *)
(* none.                                                                   *)
(***************************************************************************)

\* A minimal initial part of S ends in the least element of S.
LEMMA LeastNumber ==
    ASSUME NEW S, S \subseteq Nat, S # {}
    PROVE  \E m \in S : \A j \in S : m <= j
<1> DEFINE Part(x) == S \intersect (0 .. x)
           Parts == {Part(x) : x \in S}
<1>1. Parts \subseteq FiniteSubsetsOf(Nat) /\ Parts # {}
  <2>1. \A x \in S : IsFiniteSet(0 .. x) BY FS_Interval
  <2>2. \A x \in S : Part(x) \subseteq 0 .. x /\ Part(x) \subseteq Nat OBVIOUS
  <2>3. \A x \in S : IsFiniteSet(Part(x)) BY <2>1, <2>2, FS_Subset
  <2> QED BY <2>2, <2>3 DEF FiniteSubsetsOf
<1>2. PICK P \in Parts : \A Q \in Parts : <<Q, P>> \notin StrictSubsetOrdering(Nat)
  <2>1. IsWellFoundedOn(StrictSubsetOrdering(Nat), FiniteSubsetsOf(Nat))
    BY FS_StrictSubsetOrderingWellFounded
  <2> HIDE DEF Parts
  <2> QED BY <1>1, <2>1, WFMin
<1>3. PICK x \in S : P = Part(x) OBVIOUS
<1>4. ASSUME NEW y \in S, y < x PROVE FALSE
  <2>1. Part(y) \subseteq Part(x) /\ Part(y) # Part(x) /\ Part(y) \subseteq Nat /\ Part(x) \subseteq Nat
    <3>1. x \in Part(x) /\ x \notin Part(y) BY <1>4
    <3>2. Part(y) \subseteq Part(x) BY <1>4
    <3> QED BY <3>1, <3>2
  <2>2. <<Part(y), P>> \in StrictSubsetOrdering(Nat)
    BY <1>3, <2>1 DEF StrictSubsetOrdering
  <2> QED BY <1>2, <2>2
<1> QED BY <1>4

\* A minimal set of files with at least a file's title is that of a last title.
LEMMA LastTitle ==
    ASSUME NEW T, T \subseteq Files, T # {}
    PROVE  \E f \in T : \A g \in T : Title[g] <= Title[f]
<1> DEFINE Up(f) == {g \in T : Title[f] <= Title[g]}
           Ups == {Up(f) : f \in T}
<1>1. Ups \subseteq FiniteSubsetsOf(Files) /\ Ups # {}
  <2>1. \A f \in T : Up(f) \subseteq Files OBVIOUS
  <2>2. \A f \in T : IsFiniteSet(Up(f)) BY <2>1, FilesFinite
  <2> QED BY <2>1, <2>2 DEF FiniteSubsetsOf
<1>2. PICK P \in Ups : \A Q \in Ups : <<Q, P>> \notin StrictSubsetOrdering(Files)
  <2>1. IsWellFoundedOn(StrictSubsetOrdering(Files), FiniteSubsetsOf(Files))
    BY FS_StrictSubsetOrderingWellFounded
  <2> HIDE DEF Ups
  <2> QED BY <1>1, <2>1, WFMin
<1>3. PICK f \in T : P = Up(f) OBVIOUS
<1>4. \A g \in T : Title[g] \in Nat BY TitleAssumption
<1>5. ASSUME NEW g \in T, ~(Title[g] <= Title[f]) PROVE FALSE
  <2>1. f \in Up(f) /\ f \notin Up(g) BY <1>4, <1>5
  <2>2. Up(g) \subseteq Up(f) BY <1>4, <1>5
  <2>3. <<Up(g), P>> \in StrictSubsetOrdering(Files)
    BY <1>3, <2>1, <2>2 DEF StrictSubsetOrdering
  <2> QED BY <1>2, <2>3
<1> QED BY <1>5

\* What Listing chooses.
Lists(s, S) ==
    /\ s \in [1 .. Cardinality(S) -> S]
    /\ \A f \in S : \E i \in DOMAIN s : s[i] = f
    /\ \A i, j \in DOMAIN s : i < j => Title[s[i]] <= Title[s[j]]

\* A file of the last title goes to the end of a list of the others.
LEMMA ListGrows ==
    ASSUME NEW T, T \subseteq Files, NEW f \in T, \A g \in T : Title[g] <= Title[f],
           NEW s, Lists(s, T \ {f})
    PROVE  \E t : Lists(t, T)
<1> DEFINE n == Cardinality(T \ {f})
           t == [i \in 1 .. n + 1 |-> IF i = n + 1 THEN f ELSE s[i]]
<1>1. n \in Nat /\ Cardinality(T) = n + 1
  <2>1. IsFiniteSet(T) /\ Cardinality(T) \in Nat BY FilesFinite
  <2>2. n = Cardinality(T) - 1 /\ n \in Nat BY <2>1, FS_RemoveElement, FilesFinite
  <2> QED BY <2>1, <2>2
<1>2. /\ s \in [1 .. n -> T \ {f}] /\ DOMAIN s = 1 .. n
      /\ \A g \in T \ {f} : \E i \in 1 .. n : s[i] = g
      /\ \A i, j \in 1 .. n : i < j => Title[s[i]] <= Title[s[j]]
  BY DEF Lists
<1> HIDE DEF n
<1>3. /\ t[n + 1] = f /\ \A i \in 1 .. n : i \in 1 .. n + 1 /\ t[i] = s[i] /\ t[i] \in T
      /\ \A i \in 1 .. n + 1 : i = n + 1 \/ i \in 1 .. n
      /\ n + 1 \in 1 .. n + 1
  BY <1>1, <1>2
<1>4. DOMAIN t = 1 .. n + 1 /\ t \in [1 .. n + 1 -> T] BY <1>1, <1>2
<1> HIDE DEF t
<1>5. \A g \in T : \E i \in 1 .. n + 1 : t[i] = g BY <1>2, <1>3
<1>6. ASSUME NEW i \in 1 .. n + 1, NEW j \in 1 .. n + 1, i < j
      PROVE  Title[t[i]] <= Title[t[j]]
  <2>1. i \in 1 .. n BY <1>1, <1>6
  <2>2. CASE j = n + 1 BY <1>3, <2>1, <2>2
  <2>3. CASE j \in 1 .. n BY <1>2, <1>3, <1>6, <2>1, <2>3
  <2> QED BY <1>3, <2>2, <2>3
<1>7. Lists(t, T) BY <1>1, <1>4, <1>5, <1>6 DEF Lists
<1> QED BY <1>7

\* A listing has the files of a set, sorted by title.
LEMMA ListingLists ==
    ASSUME NEW S, S \subseteq Files
    PROVE  Lists(Listing(S), S)
<1> DEFINE Unlisted == {T \in SUBSET Files : ~ \E s : Lists(s, T)}
<1>1. ASSUME Unlisted # {} PROVE FALSE
  <2>1. Unlisted \subseteq FiniteSubsetsOf(Files)
    BY FilesAssumption, FS_FiniteSubsetsOfFinite
  <2>2. PICK T \in Unlisted : \A U \in Unlisted : <<U, T>> \notin StrictSubsetOrdering(Files)
    <3>1. IsWellFoundedOn(StrictSubsetOrdering(Files), FiniteSubsetsOf(Files))
      BY FS_StrictSubsetOrderingWellFounded
    <3> HIDE DEF Unlisted
    <3> QED BY <1>1, <2>1, <3>1, WFMin
  <2>3. T \subseteq Files /\ ~ \E s : Lists(s, T) OBVIOUS
  <2>4. CASE T = {}
    <3>1. Cardinality(T) = 0 BY <2>4, FS_EmptySet
    <3>2. Lists(<<>>, T) BY <2>4, <3>1 DEF Lists
    <3> QED BY <2>3, <3>2
  <2>5. CASE T # {}
    <3>1. PICK f \in T : \A g \in T : Title[g] <= Title[f] BY <2>3, <2>5, LastTitle
    <3>2. <<T \ {f}, T>> \in StrictSubsetOrdering(Files)
      BY <2>3 DEF StrictSubsetOrdering
    <3>3. T \ {f} \notin Unlisted BY <2>2, <3>2
    <3>4. PICK s : Lists(s, T \ {f}) BY <2>3, <3>3
    <3>5. \E t : Lists(t, T) BY <2>3, <3>1, <3>4, ListGrows
    <3> QED BY <2>3, <3>5
  <2> QED BY <2>4, <2>5
<1>2. PICK s : Lists(s, S) BY <1>1
<1>3. Listing(S) = CHOOSE t \in [1 .. Cardinality(S) -> S] : Lists(t, S)
  BY DEF Listing, Lists
<1>4. s \in [1 .. Cardinality(S) -> S] BY <1>2 DEF Lists
<1> QED BY <1>2, <1>3, <1>4

\* g is the search of the first n entries of a list.
Filters(g, list, q, n) ==
    g = [i \in 0 .. n |->
            IF i = 0 THEN <<>>
            ELSE IF list[i] \in q THEN Append(g[i - 1], list[i]) ELSE g[i - 1]]

\* A search gives files of the list it searches.
LEMMA FilterExists ==
    ASSUME NEW S, NEW list \in Seq(S), NEW q, NEW n \in 0 .. Len(list)
    PROVE  \E g : Filters(g, list, q, n) /\ g[n] \in Seq(S)
<1>0. Len(list) \in Nat /\ \A i \in 1 .. Len(list) : list[i] \in S
  BY LenProperties, ElementOfSeq
<1> DEFINE Bad == {m \in 0 .. Len(list) : ~ \E g : Filters(g, list, q, m) /\ g[m] \in Seq(S)}
<1>1. ASSUME Bad # {} PROVE FALSE
  <2>1. PICK m \in Bad : \A j \in Bad : m <= j
    <3>1. Bad \subseteq Nat BY <1>0
    <3> HIDE DEF Bad
    <3> QED BY <1>1, <3>1, LeastNumber
  <2>2. m \in 0 .. Len(list) /\ ~ \E g : Filters(g, list, q, m) /\ g[m] \in Seq(S) BY <2>1
  <2>3. CASE m = 0
    <3> DEFINE h == [i \in 0 .. 0 |-> <<>>]
    <3>1. Filters(h, list, q, 0) /\ h[0] \in Seq(S) BY DEF Filters
    <3> QED BY <2>2, <2>3, <3>1
  <2>4. CASE m # 0
    <3>1. /\ m - 1 \in 0 .. Len(list) /\ ~(m <= m - 1) /\ m \in 1 .. Len(list) /\ m \in Nat
      BY <1>0, <2>2, <2>4
    <3>2. PICK g : Filters(g, list, q, m - 1) /\ g[m - 1] \in Seq(S) BY <2>1, <3>1
    <3> DEFINE longer == IF list[m] \in q THEN Append(g[m - 1], list[m]) ELSE g[m - 1]
               h == [i \in 0 .. m |-> IF i = m THEN longer ELSE g[i]]
    <3>3. longer \in Seq(S)
      <4>1. list[m] \in S BY <1>0, <3>1
      <4> QED BY <3>2, <4>1, AppendProperties
    <3>4. \A i \in 0 .. m - 1 : g[i] = IF i = 0 THEN <<>>
                                       ELSE IF list[i] \in q THEN Append(g[i - 1], list[i])
                                       ELSE g[i - 1]
      BY <3>2 DEF Filters
    <3>5. /\ h[m] = longer /\ h[m - 1] = g[m - 1]
          /\ \A i \in 0 .. m - 1 : h[i] = g[i] /\ (i # 0 => h[i - 1] = g[i - 1])
      BY <3>1
    <3>6. \A i \in 0 .. m : h[i] = IF i = 0 THEN <<>>
                                   ELSE IF list[i] \in q THEN Append(h[i - 1], list[i])
                                   ELSE h[i - 1]
      <4> SUFFICES ASSUME NEW i \in 0 .. m
                   PROVE  h[i] = IF i = 0 THEN <<>>
                                 ELSE IF list[i] \in q THEN Append(h[i - 1], list[i])
                                 ELSE h[i - 1]
        OBVIOUS
      <4> HIDE DEF h
      <4>1. CASE i = m BY <2>4, <3>5, <4>1
      <4>2. CASE i # m
        <5>1. i \in 0 .. m - 1 BY <3>1, <4>2
        <5> QED BY <3>4, <3>5, <5>1
      <4> QED BY <4>1, <4>2
    <3>7. h = [i \in 0 .. m |-> h[i]] OBVIOUS
    <3> HIDE DEF h, longer
    <3>8. Filters(h, list, q, m) BY <3>6, <3>7 DEF Filters
    <3> QED BY <2>2, <3>3, <3>5, <3>8
  <2> QED BY <2>3, <2>4
<1> QED BY <1>1

\* The function a search is defined by is the only one.
LEMMA FilterUnique ==
    ASSUME NEW list, NEW q, NEW n \in Nat, NEW g, NEW h,
           Filters(g, list, q, n), Filters(h, list, q, n)
    PROVE  g = h
<1>1. /\ \A i \in 0 .. n : g[i] = IF i = 0 THEN <<>>
                                  ELSE IF list[i] \in q THEN Append(g[i - 1], list[i])
                                  ELSE g[i - 1]
      /\ \A i \in 0 .. n : h[i] = IF i = 0 THEN <<>>
                                  ELSE IF list[i] \in q THEN Append(h[i - 1], list[i])
                                  ELSE h[i - 1]
  BY DEF Filters
<1>2. g = [i \in 0 .. n |-> g[i]] /\ h = [i \in 0 .. n |-> h[i]] BY Zenon DEF Filters
<1> DEFINE Differ == {i \in 0 .. n : g[i] # h[i]}
<1>3. ASSUME Differ # {} PROVE FALSE
  <2>1. PICK i \in Differ : \A j \in Differ : i <= j
    <3>1. Differ \subseteq Nat OBVIOUS
    <3> HIDE DEF Differ
    <3> QED BY <1>3, <3>1, LeastNumber
  <2>2. i \in 0 .. n /\ g[i] # h[i] BY <2>1
  <2>3. i # 0 BY <1>1, <2>2
  <2>4. i - 1 \in 0 .. n /\ ~(i <= i - 1) BY <2>2, <2>3
  <2>5. g[i - 1] = h[i - 1] BY <2>1, <2>4
  <2> QED BY <1>1, <2>2, <2>3, <2>5
<1>4. \A i \in 0 .. n : g[i] = h[i] BY <1>3
<1> QED BY <1>2, <1>4

LEMMA FilteredTyped ==
    ASSUME NEW S, NEW list \in Seq(S), NEW q
    PROVE  Filtered(list, q) \in Seq(S)
<1> DEFINE n == Len(list)
           f == CHOOSE g : Filters(g, list, q, n)
<1>1. n \in Nat /\ n \in 0 .. n BY LenProperties
<1>2. Filtered(list, q) = f[n] BY DEF Filtered, Filters
<1>3. PICK g : Filters(g, list, q, n) /\ g[n] \in Seq(S) BY <1>1, FilterExists
<1>4. Filters(f, list, q, n) BY <1>3
<1> HIDE DEF f
<1>5. f = g BY <1>1, <1>3, <1>4, FilterUnique
<1> QED BY <1>2, <1>3, <1>5

\* The listing of a search is a sequence of files.
LEMMA MatchingTyped ==
    ASSUME NEW S, S \subseteq Files, NEW q
    PROVE  Matching(S, q) \in Seq(Files)
<1>1. Listing(S) \in [1 .. Cardinality(S) -> S] BY ListingLists DEF Lists
<1>2. Cardinality(S) \in Nat BY FilesFinite
<1>3. Listing(S) \in [1 .. Cardinality(S) -> Files] BY <1>1
<1>4. Listing(S) \in Seq(Files) BY <1>2, <1>3, SeqDef
<1> QED BY <1>4, FilteredTyped DEF Matching

----------------------------------------------------------------------------
(* Pages of a list. *)

\* The entries on the pages before one.
LEMMA PagesBefore ==
    ASSUME NEW page \in Nat \ {0}, NEW size \in Nat \ {0}
    PROVE  (page - 1) * size \in Nat /\ page * size = (page - 1) * size + size
<1> DEFINE m == page - 1
<1>1. m \in Nat /\ page = m + 1 OBVIOUS
<1> HIDE DEF m
<1>2. m * size \in Nat /\ (m + 1) * size = m * size + size BY <1>1
<1> QED BY <1>1, <1>2 DEF m

\* A page that begins where the ones before have ended goes on with the list,
\* and the page it links to begins where it ends.
LEMMA PageGoesOn ==
    ASSUME NEW list \in Seq(Files), NEW r, r.page \in Nat \ {0}, r.size \in Nat \ {0},
           (r.page - 1) * r.size <= Len(list)
    PROVE  LET seen == (r.page - 1) * r.size
               n == NextPage(list, r)
               all == SubSeq(list, 1, seen) \o Page(list, r)
           IN  /\ Page(list, r) \in Seq(Files)
               /\ n = 0 => all = list
               /\ n # 0 => /\ n = r.page + 1 /\ (n - 1) * r.size < Len(list)
                           /\ all = SubSeq(list, 1, (n - 1) * r.size)
<1> DEFINE seen == (r.page - 1) * r.size
           upto == End(r, Len(list))
           n == NextPage(list, r)
<1>1. Len(list) \in Nat /\ seen \in Nat /\ r.page * r.size = seen + r.size
  BY LenProperties, PagesBefore
<1>2. Start(r, Len(list)) = seen BY <1>1 DEF Start, Least
<1>3. /\ upto \in seen .. Len(list)
      /\ upto = IF seen + r.size < Len(list) THEN seen + r.size ELSE Len(list)
  <2> HIDE DEF seen
  <2> QED BY <1>1, <1>2 DEF End, Least
<1>4. Page(list, r) = SubSeq(list, seen + 1, upto) BY <1>2 DEF Page
<1>5. n = IF upto < Len(list) THEN r.page + 1 ELSE 0 BY DEF NextPage
<1> HIDE DEF seen, upto, n
<1>6. SubSeq(list, 1, seen) \o SubSeq(list, seen + 1, upto) = SubSeq(list, 1, upto)
  <2>1. /\ 1 \in 1 .. Len(list) + 1 /\ seen \in 1 - 1 .. Len(list)
        /\ upto \in seen .. Len(list)
    BY <1>1, <1>3
  <2> QED BY <2>1, ConcatAdjacentSubSeq
<1>7. Page(list, r) \in Seq(Files)
  <2>1. \A i \in seen + 1 .. upto : i \in 1 .. Len(list) BY <1>1, <1>3
  <2>2. \A i \in seen + 1 .. upto : list[i] \in Files BY <2>1, ElementOfSeq
  <2>3. seen + 1 \in Int /\ upto \in Int BY <1>1, <1>3
  <2> QED BY <1>4, <2>2, <2>3, SubSeqProperties
<1>8. SubSeq(list, 1, Len(list)) = list BY SubSeqFull
<1>9. CASE upto < Len(list)
  <2>1. n = r.page + 1 BY <1>5, <1>9
  <2>2. n # 0 /\ n - 1 = r.page BY <2>1
  <2>3. upto = r.page * r.size BY <1>1, <1>3, <1>9
  <2>4. (n - 1) * r.size = upto BY <2>2, <2>3
  <2> QED BY <1>4, <1>6, <1>7, <1>9, <2>1, <2>2, <2>4 DEF seen, n
<1>10. CASE ~(upto < Len(list))
  <2>1. n = 0 /\ upto = Len(list) BY <1>1, <1>3, <1>5, <1>10
  <2> QED BY <1>4, <1>6, <1>7, <1>8, <2>1 DEF seen, n
<1> QED BY <1>9, <1>10

----------------------------------------------------------------------------
(***************************************************************************)
(* Following the pages of a listing.  As long as the library is the one of *)
(* the reader's first page, so is the index, also when a walk that began   *)
(* since replaces it: it holds the whole library, which the first page     *)
(* would not have shown otherwise.  What the reader has seen is then the   *)
(* list up to where the next page starts.                                  *)
(***************************************************************************)

\* A page has been asked for and not been given.
Pending(v) == where[v] \in {"scan", "walk"} /\ want[v].file = Nothing

Asked(v) == want[v].page # 0 /\ want[v].size # 0 /\ next[v] # 1

\* The reader has seen the list, up to the next page if there is one.
Followed(v) ==
    LET list == Matching(library, want[v].query)
        seen == (next[v] - 1) * want[v].size
    IN  IF next[v] = 0 THEN shown[v] = list
        ELSE seen < Len(list) /\ shown[v] = SubSeq(list, 1, seen)

\* A first page follows no other; one that follows is the next.
PagesOK(v) ==
    /\ Pending(v) /\ want[v].page = 1 => shown[v] = <<>> /\ ~calm[v]
    /\ calm[v] => /\ index = library
                  /\ Walking => during = library /\ throughout = library
                  /\ Pending(v) => want[v].page = next[v]
                  /\ Followed(v)

\* Types that IndexInv does without.
RestTyped ==
    /\ unvisited \subseteq Files /\ fresh \in BOOLEAN
    /\ Cardinality(index) <= MaxFiles /\ Cardinality(found) <= MaxFiles
    /\ shown \in [Visitors -> Seq(Files)]
    /\ calm \in [Visitors -> BOOLEAN]
    /\ happened \in [ShelfEvents -> Nat]
    /\ \A v \in Visitors : Asked(v)

\* The inductive invariant, beside IndexInv.
PagesInv == RestTyped /\ \A v \in Visitors : PagesOK(v)

LEMMA PagesInitOK == IndexInit => PagesInv
<1> SUFFICES ASSUME IndexInit PROVE PagesInv OBVIOUS
<1> USE DEF IndexInit
<1>1. RestTyped
  <2>1. Cardinality({}) = 0 /\ 0 <= MaxFiles BY FS_EmptySet, SizesAssumption
  <2>2. Cardinality(index) <= MaxFiles /\ Cardinality(found) <= MaxFiles BY <2>1
  <2>3. <<>> \in Seq(Files) OBVIOUS
  <2>4. shown \in [Visitors -> Seq(Files)] BY <2>3
  <2>5. \A v \in Visitors : Asked(v) BY DEF Asked, NoRequest
  <2> QED BY <2>2, <2>4, <2>5 DEF RestTyped
<1>2. \A v \in Visitors : PagesOK(v) BY DEF PagesOK, Pending
<1> QED BY <1>1, <1>2 DEF PagesInv

\* What happens is counted.
LEMMA Counted ==
    ASSUME happened \in [ShelfEvents -> Nat], NEW e \in ShelfEvents, Happens(e)
    PROVE  happened' \in [ShelfEvents -> Nat]
BY DEF Happens

\* A step that gives no page and changes neither the library nor the index:
\* PagesInv is about requests that are pending and walks under way.
LEMMA QuietKeeps ==
    ASSUME PagesInv, UNCHANGED <<library, index, next, shown, calm>>,
           unvisited' \subseteq Files, fresh' \in BOOLEAN,
           Cardinality(found') <= MaxFiles, happened' \in [ShelfEvents -> Nat],
           \A u \in Visitors : want'[u] = want[u] /\ (Pending(u)' => Pending(u)),
           \/ UNCHANGED <<holder, during, throughout>>
           \/ holder' = Nothing
           \/ during' = library /\ throughout' = library
    PROVE  PagesInv'
<1>1. RestTyped' BY DEF PagesInv, RestTyped, Asked
<1>2. ASSUME NEW u \in Visitors PROVE PagesOK(u)'
  <2>1. Followed(u)' = Followed(u) BY DEF Followed
  <2>2. PagesOK(u) BY DEF PagesInv
  <2> QED BY <2>1, <2>2 DEF PagesOK, Walking
<1> QED BY <1>1, <1>2 DEF PagesInv

----------------------------------------------------------------------------
\* A request for a first page, for the next one, or for a file.
LEMMA AskPages ==
    ASSUME IndexInv, PagesInv, NEW v \in Visitors, NEW request \in Request,
           Ask(v, request), request.page # 0, request.size # 0,
           \/ /\ request.file = Nothing /\ request.page = 1
              /\ shown' = [shown EXCEPT ![v] = <<>>]
              /\ next' = [next EXCEPT ![v] = 0]
              /\ calm' = [calm EXCEPT ![v] = FALSE]
           \/ /\ request.file = Nothing /\ request.page = next[v]
              /\ request.size = want[v].size /\ request.query = want[v].query
              /\ UNCHANGED <<shown, next, calm>>
           \/ /\ request.file # Nothing
              /\ request.size = want[v].size /\ request.query = want[v].query
              /\ UNCHANGED <<shown, next, calm>>
    PROVE  PagesInv'
<1>1. /\ want \in [Visitors -> Request] /\ next \in [Visitors -> Nat]
      /\ where \in [Visitors -> {"idle", "scan", "walk", "lstat", "open"}]
      /\ shown \in [Visitors -> Seq(Files)] /\ calm \in [Visitors -> BOOLEAN]
      /\ happened \in [ShelfEvents -> Nat]
  BY DEF IndexInv, IndexTyped, PagesInv, RestTyped
<1>2. /\ where' = [where EXCEPT ![v] = "scan"]
      /\ want' = [want EXCEPT ![v] = request]
      /\ UNCHANGED <<library, holder, unvisited, found, during, throughout,
                     index, fresh, steady, crowded>>
  BY DEF Ask, walkVars, indexed
<1>3. happened' \in [ShelfEvents -> Nat] BY <1>1, Counted DEF Ask, ShelfEvents
<1>4. \A u \in Visitors : Asked(u)'
  <2>1. \A u \in Visitors : Asked(u) BY DEF PagesInv, RestTyped
  <2> QED BY <1>1, <1>2, <2>1 DEF Asked
<1>5. RestTyped'
  <2>1. <<>> \in Seq(Files) OBVIOUS
  <2>2. shown' \in [Visitors -> Seq(Files)] /\ calm' \in [Visitors -> BOOLEAN]
    BY <1>1, <2>1
  <2> QED BY <1>2, <1>3, <1>4, <2>2 DEF PagesInv, RestTyped
<1>6. ASSUME NEW u \in Visitors PROVE PagesOK(u)'
  <2>1. PagesOK(u) /\ Asked(u) BY DEF PagesInv, RestTyped
  <2>2. CASE u # v
    <3>1. /\ want'[u] = want[u] /\ next'[u] = next[u] /\ shown'[u] = shown[u]
          /\ calm'[u] = calm[u] /\ where'[u] = where[u]
      BY <1>1, <1>2, <2>2
    <3> QED BY <1>2, <2>1, <3>1 DEF PagesOK, Pending, Followed, Walking
  <2>3. CASE u = v
    <3>1. want'[v] = request BY <1>1, <1>2
    <3>2. CASE /\ request.page = 1
               /\ shown' = [shown EXCEPT ![v] = <<>>]
               /\ calm' = [calm EXCEPT ![v] = FALSE]
      BY <1>1, <2>3, <3>2 DEF PagesOK
    <3>3. CASE /\ request.file # Nothing \/ request.page = next[v]
               /\ request.size = want[v].size /\ request.query = want[v].query
               /\ UNCHANGED <<shown, next, calm>>
      <4>1. Followed(v)' = Followed(v) BY <1>2, <3>1, <3>3 DEF Followed
      <4>2. next[v] # 1 BY <2>1, <2>3 DEF Asked
      <4>3. /\ index' = library' <=> index = library
            /\ Walking' = Walking /\ during' = during /\ throughout' = throughout
            /\ library' = library
        BY <1>2 DEF Walking
      <4>4. Pending(v)' => request.page = next[v]
        BY <3>1, <3>3 DEF Pending
      <4> QED BY <2>1, <2>3, <3>1, <3>3, <4>1, <4>2, <4>3, <4>4 DEF PagesOK
    <3> QED BY <3>2, <3>3
  <2> QED BY <2>2, <2>3
<1> QED BY <1>5, <1>6 DEF PagesInv

\* The request of a reader is used with the index there is then, which is the
\* library of every reader who has seen no change.
LEMMA UsePages ==
    ASSUME IndexInv, PagesInv, NEW v \in Visitors, where[v] \in {"scan", "walk"},
           NEW files \in SUBSET Files, NEW stayed, Use(v, files, stayed),
           index' = files, library' = library, holder' = Nothing,
           \A u \in Visitors : calm[u] => files = library
    PROVE  /\ shown' \in [Visitors -> Seq(Files)] /\ calm' \in [Visitors -> BOOLEAN]
           /\ \A u \in Visitors : Asked(u)' /\ PagesOK(u)'
<1> DEFINE list == Matching(files, want[v].query)
           r == want[v]
           page == Page(list, r)
           n == NextPage(list, r)
<1>1. /\ want \in [Visitors -> Request] /\ next \in [Visitors -> Nat]
      /\ where \in [Visitors -> {"idle", "scan", "walk", "lstat", "open"}]
      /\ shown \in [Visitors -> Seq(Files)] /\ calm \in [Visitors -> BOOLEAN]
  BY DEF IndexInv, IndexTyped, PagesInv, RestTyped
<1>2. \A u \in Visitors : Asked(u) /\ PagesOK(u) BY DEF PagesInv, RestTyped
<1>3. ~Walking' BY DEF Walking
<1>4. ASSUME NEW u \in Visitors,
             want'[u] = want[u], next'[u] = next[u], shown'[u] = shown[u],
             calm'[u] = calm[u], Pending(u)' => Pending(u)
      PROVE  Asked(u)' /\ PagesOK(u)'
  <2>1. Asked(u) /\ PagesOK(u) BY <1>2
  <2>2. Followed(u)' = Followed(u) BY <1>4 DEF Followed
  <2>3. calm[u] => index' = library' OBVIOUS
  <2> QED BY <1>3, <1>4, <2>1, <2>2, <2>3 DEF Asked, PagesOK
<1>5. CASE want[v].file # Nothing
  <2>1. /\ \E w \in {"idle", "lstat"} : where' = [where EXCEPT ![v] = w]
        /\ UNCHANGED <<want, next, shown, calm>>
    BY <1>5 DEF Use, FindFile, Go, Answered
  <2>2. \A u \in Visitors : Pending(u)' => Pending(u)
    BY <1>1, <2>1 DEF Pending
  <2> QED BY <1>1, <1>4, <2>1, <2>2
<1>6. CASE want[v].file = Nothing
  <2>1. /\ where' = [where EXCEPT ![v] = "idle"] /\ want' = want
        /\ shown' = [shown EXCEPT ![v] = shown[v] \o page]
        /\ next' = [next EXCEPT ![v] = n]
        /\ calm' = [calm EXCEPT ![v] = IF r.page = 1 THEN files = library ELSE calm[v]]
    BY <1>1, <1>6 DEF Use, GivePage
  <2>2. list \in Seq(Files) BY MatchingTyped
  <2>3. /\ r.page \in Nat \ {0} /\ r.size \in Nat \ {0} /\ next[v] \in Nat
        /\ shown[v] \in Seq(Files)
    BY <1>1, <1>2 DEF Request, Asked
  <2>4. Pending(v) BY <1>6 DEF Pending
  <2> HIDE DEF list, page, n
  <2>5. /\ page \in Seq(Files)
        /\ n = 0 \/ n = r.page + 1
    <3>1. Start(r, Len(list)) \in Nat /\ End(r, Len(list)) \in Nat
          /\ End(r, Len(list)) <= Len(list) /\ Len(list) \in Nat
      <4>1. Len(list) \in Nat BY <2>2, LenProperties
      <4>2. (r.page - 1) * r.size \in Nat BY <2>3, PagesBefore
      <4>3. Start(r, Len(list)) \in Nat BY <4>1, <4>2 DEF Start, Least
      <4> QED BY <2>3, <4>1, <4>3 DEF End, Least
    <3>2. \A i \in Start(r, Len(list)) + 1 .. End(r, Len(list)) : i \in 1 .. Len(list)
      BY <3>1
    <3>3. \A i \in Start(r, Len(list)) + 1 .. End(r, Len(list)) : list[i] \in Files
      BY <2>2, <3>2, ElementOfSeq
    <3>4. page \in Seq(Files) BY <3>1, <3>3, SubSeqProperties DEF page, Page
    <3> QED BY <3>4 DEF n, NextPage
  <2>6. shown[v] \o page \in Seq(Files) BY <2>3, <2>5, ConcatProperties
  <2>7. shown' \in [Visitors -> Seq(Files)] BY <1>1, <2>1, <2>6
  <2>8. calm' \in [Visitors -> BOOLEAN]
    <3>1. (IF r.page = 1 THEN files = library ELSE calm[v]) \in BOOLEAN BY <1>1
    <3> QED BY <1>1, <2>1, <3>1
  <2>9. ASSUME NEW u \in Visitors, u # v PROVE Asked(u)' /\ PagesOK(u)'
    <3>1. /\ want'[u] = want[u] /\ next'[u] = next[u] /\ shown'[u] = shown[u]
          /\ calm'[u] = calm[u] /\ where'[u] = where[u]
      BY <1>1, <2>1, <2>9
    <3>2. Pending(u)' => Pending(u) BY <3>1 DEF Pending
    <3> QED BY <1>4, <3>1, <3>2
  <2>10. /\ want'[v] = r /\ next'[v] = n /\ shown'[v] = shown[v] \o page
         /\ calm'[v] = (IF r.page = 1 THEN files = library ELSE calm[v])
         /\ where'[v] = "idle"
    BY <1>1, <2>1
  <2>11. Asked(v)'
    <3>1. n # 1 BY <2>3, <2>5
    <3> QED BY <1>2, <2>10, <3>1 DEF Asked
  <2>12. ~Pending(v)' BY <2>10 DEF Pending
  <2>13. ASSUME calm'[v] PROVE index' = library' /\ Followed(v)'
    <3> DEFINE seen == (r.page - 1) * r.size
    <3>1. files = library BY <2>10, <2>13
    <3>2. seen <= Len(list) /\ shown[v] = SubSeq(list, 1, seen)
      <4>1. CASE r.page = 1
        <5>1. seen = 0 /\ shown[v] = <<>> BY <1>2, <2>3, <2>4, <4>1 DEF PagesOK
        <5>2. SubSeq(list, 1, 0) = <<>> BY SubSeqEmpty
        <5>3. Len(list) \in Nat BY <2>2, LenProperties
        <5> QED BY <5>1, <5>2, <5>3
      <4>2. CASE r.page # 1
        <5>1. calm[v] BY <2>10, <2>13, <4>2
        <5>2. r.page = next[v] /\ Followed(v) BY <1>2, <2>4, <5>1 DEF PagesOK
        <5>3. seen < Len(list) /\ shown[v] = SubSeq(list, 1, seen)
          BY <2>3, <3>1, <5>2 DEF Followed, list
        <5>4. Len(list) \in Nat /\ seen \in Nat BY <2>2, <2>3, LenProperties, PagesBefore
        <5> HIDE DEF seen
        <5> QED BY <5>3, <5>4
      <4> QED BY <4>1, <4>2
    <3>3. /\ n = 0 => SubSeq(list, 1, seen) \o page = list
          /\ n # 0 => /\ (n - 1) * r.size < Len(list)
                      /\ SubSeq(list, 1, seen) \o page = SubSeq(list, 1, (n - 1) * r.size)
      BY <2>2, <2>3, <3>2, PageGoesOn DEF n, page
    <3>4. list = Matching(library', want'[v].query) BY <2>10, <3>1 DEF list
    <3> QED BY <2>10, <3>1, <3>2, <3>3, <3>4 DEF Followed
  <2>14. PagesOK(v)' BY <1>3, <2>12, <2>13 DEF PagesOK
  <2> QED BY <2>7, <2>8, <2>9, <2>11, <2>14
<1> QED BY <1>5, <1>6

\* A walk during which nothing changed finds the library, if an index that
\* had room for it was there before.
LEMMA StorePages ==
    ASSUME IndexInv, PagesInv, NEW v \in Visitors, StoreIndex(v) PROVE PagesInv'
<1>1. /\ where[v] = "walk" /\ unvisited = {} /\ holder' = Nothing
      /\ index' = found /\ found' = {} /\ fresh' = TRUE
      /\ Use(v, found, found \intersect throughout)
      /\ UNCHANGED <<library, unvisited, happened>>
  BY DEF StoreIndex
<1>2. holder = v /\ Walking BY <1>1, FilesAssumption DEF IndexInv, WalkSound, Walking
<1>3. /\ found \subseteq Files /\ found \subseteq during
      /\ Cardinality(during) <= MaxFiles => throughout \subseteq found \union unvisited
  BY DEF IndexInv, IndexTyped, WalkSound
<1>4. ASSUME NEW u \in Visitors, calm[u] PROVE found = library
  <2>1. index = library /\ during = library /\ throughout = library
    BY <1>2, <1>4 DEF PagesInv, PagesOK
  <2>2. Cardinality(during) <= MaxFiles BY <2>1 DEF PagesInv, RestTyped
  <2> QED BY <1>1, <1>3, <2>1, <2>2
<1>5. /\ shown' \in [Visitors -> Seq(Files)] /\ calm' \in [Visitors -> BOOLEAN]
      /\ \A u \in Visitors : Asked(u)' /\ PagesOK(u)'
  BY <1>1, <1>3, <1>4, UsePages
<1>6. Cardinality(found') <= MaxFiles
  <2>1. Cardinality({}) = 0 /\ 0 <= MaxFiles BY FS_EmptySet, SizesAssumption
  <2> QED BY <1>1, <2>1
<1>7. RestTyped' BY <1>1, <1>5, <1>6 DEF PagesInv, RestTyped
<1> QED BY <1>5, <1>7 DEF PagesInv

LEMMA UseIndexPages ==
    ASSUME IndexInv, PagesInv, NEW v \in Visitors, UseIndex(v) PROVE PagesInv'
<1>1. /\ where[v] = "scan" /\ holder = Nothing /\ Use(v, index, steady)
      /\ UNCHANGED <<library, holder, unvisited, found, index, fresh, happened>>
  BY DEF UseIndex, walkVars, indexed
<1>2. index \in SUBSET Files BY DEF IndexInv, IndexTyped
<1>3. \A u \in Visitors : calm[u] => index = library BY DEF PagesInv, PagesOK
<1>4. /\ shown' \in [Visitors -> Seq(Files)] /\ calm' \in [Visitors -> BOOLEAN]
      /\ \A u \in Visitors : Asked(u)' /\ PagesOK(u)'
  BY <1>1, <1>2, <1>3, UsePages
<1>5. RestTyped' BY <1>1, <1>4 DEF PagesInv, RestTyped
<1> QED BY <1>4, <1>5 DEF PagesInv

\* The steps of a walk, of its failure, and of a request for a file.
LEMMA ServePages ==
    ASSUME IndexInv, PagesInv, NEW v \in Visitors,
           \/ StartWalk(v) \/ (\E f \in Files : Look(v, f))
           \/ WalkFail(v) \/ Lstat(v) \/ Open(v) \/ Refuse(v) \/ StatFail(v)
    PROVE  PagesInv'
<1>1. /\ where \in [Visitors -> {"idle", "scan", "walk", "lstat", "open"}]
      /\ library \subseteq Files /\ found \subseteq Files
  BY DEF IndexInv, IndexTyped
<1>2. /\ unvisited \subseteq Files /\ fresh \in BOOLEAN
      /\ Cardinality(found) <= MaxFiles /\ happened \in [ShelfEvents -> Nat]
  BY DEF PagesInv, RestTyped
<1>3. Cardinality({}) <= MaxFiles
  <2>1. Cardinality({}) = 0 /\ 0 <= MaxFiles BY FS_EmptySet, SizesAssumption
  <2> QED BY <2>1
<1>4. CASE StartWalk(v)
  <2>1. /\ unvisited' = Files /\ found' = {} /\ fresh' = fresh /\ happened' = happened
        /\ during' = library /\ throughout' = library
        /\ where[v] = "scan" /\ where' = [where EXCEPT ![v] = "walk"]
        /\ UNCHANGED <<library, index, next, shown, calm, want>>
    BY <1>4 DEF StartWalk, Go, indexed
  <2>2. \A u \in Visitors : Pending(u)' => Pending(u) BY <1>1, <2>1 DEF Pending
  <2>3. Cardinality(found') <= MaxFiles BY <1>3, <2>1
  <2> QED BY <1>2, <2>1, <2>2, <2>3, QuietKeeps
<1>5. ASSUME NEW f \in Files, Look(v, f) PROVE PagesInv'
  <2>1. /\ unvisited' = unvisited \ {f}
        /\ found' = IF f \in library /\ Cardinality(found) < MaxFiles
                    THEN found \union {f} ELSE found
        /\ UNCHANGED <<library, holder, during, throughout, index, fresh, where,
                       want, next, shown, calm, happened>>
    BY <1>5 DEF Look, indexed, readerVars
  <2>2. Cardinality(found') <= MaxFiles
    <3>1. IsFiniteSet(found) /\ Cardinality(found) \in Nat BY <1>1, FilesFinite
    <3>2. \/ Cardinality(found \union {f}) = Cardinality(found)
          \/ Cardinality(found \union {f}) = Cardinality(found) + 1
      BY <3>1, FS_AddElement
    <3>3. MaxFiles \in Nat BY SizesAssumption
    <3>4. CASE f \in library /\ Cardinality(found) < MaxFiles
      <4>1. Cardinality(found \union {f}) <= MaxFiles BY <3>1, <3>2, <3>3, <3>4
      <4> QED BY <2>1, <3>4, <4>1
    <3>5. CASE ~(f \in library /\ Cardinality(found) < MaxFiles)
      BY <1>2, <2>1, <3>5
    <3> QED BY <3>4, <3>5
  <2>3. \A u \in Visitors : Pending(u)' => Pending(u) BY <2>1 DEF Pending
  <2>4. unvisited' \subseteq Files BY <1>2, <2>1
  <2> QED BY <1>2, <2>1, <2>2, <2>3, <2>4, QuietKeeps
<1>6. CASE WalkFail(v)
  <2>1. /\ unvisited' = {} /\ found' = {} /\ holder' = Nothing
        /\ Happens("faults") /\ where' = [where EXCEPT ![v] = "idle"]
        /\ UNCHANGED <<library, index, fresh, want, next, shown, calm>>
    BY <1>6 DEF WalkFail, Answered, indexed
  <2>2. \A u \in Visitors : Pending(u)' => Pending(u) BY <1>1, <2>1 DEF Pending
  <2>3. happened' \in [ShelfEvents -> Nat] BY <1>2, <2>1, Counted DEF ShelfEvents
  <2>4. Cardinality(found') <= MaxFiles BY <1>3, <2>1
  <2> QED BY <1>2, <2>1, <2>2, <2>3, <2>4, QuietKeeps
<1>7. CASE Lstat(v) \/ Open(v)
  <2>1. /\ where[v] \in {"lstat", "open"}
        /\ \E w \in {"open", "idle"} : where' = [where EXCEPT ![v] = w]
        /\ UNCHANGED <<library, holder, unvisited, found, during, throughout,
                       index, fresh, want, next, shown, calm, happened>>
    BY <1>7 DEF Lstat, Open, Go, Answered, walkVars, indexed
  <2>2. \A u \in Visitors : Pending(u)' => Pending(u) BY <1>1, <2>1 DEF Pending
  <2> QED BY <1>2, <2>1, <2>2, QuietKeeps
<1>8. CASE Refuse(v) \/ StatFail(v)
  <2>1. /\ where[v] \in {"lstat", "open"} /\ where' = [where EXCEPT ![v] = "idle"]
        /\ Happens("faults")
        /\ UNCHANGED <<library, holder, unvisited, found, during, throughout,
                       index, fresh, want, next, shown, calm>>
    BY <1>8 DEF Refuse, StatFail, Answered, walkVars, indexed
  <2>2. \A u \in Visitors : Pending(u)' => Pending(u) BY <1>1, <2>1 DEF Pending
  <2>3. happened' \in [ShelfEvents -> Nat] BY <1>2, <2>1, Counted DEF ShelfEvents
  <2> QED BY <1>2, <2>1, <2>2, <2>3, QuietKeeps
<1> QED BY <1>4, <1>5, <1>6, <1>7, <1>8

\* A file appears, goes or is passed over: no reader can count on the listing
\* any more.
LEMMA DisturbPages ==
    ASSUME PagesInv, calm' = [v \in Visitors |-> FALSE],
           unvisited' \subseteq Files, happened' \in [ShelfEvents -> Nat],
           UNCHANGED <<found, index, fresh, where, want, next, shown>>
    PROVE  PagesInv'
<1>1. RestTyped' BY DEF PagesInv, RestTyped, Asked
<1>2. \A v \in Visitors : PagesOK(v)' BY DEF PagesInv, PagesOK, Pending
<1> QED BY <1>1, <1>2 DEF PagesInv

LEMMA PagesStep ==
    ASSUME IndexInv, PagesInv, [IndexNext]_indexVars PROVE PagesInv'
<1>1. ASSUME NEW v \in Visitors, NEW s \in Sizes, NEW q \in Queries, AskFirst(v, s, q)
      PROVE  PagesInv'
  <2> DEFINE request == [file |-> Nothing, page |-> 1, size |-> PageSize(s), query |-> q]
  <2>1. request \in Request BY Requests
  <2>2. PageSize(s) # 0 BY SizesAssumption DEF PageSize, PositiveInt, Least
  <2>3. request.file = Nothing /\ request.page = 1 /\ request.page # 0 /\ request.size # 0
    BY <2>2
  <2>4. /\ Ask(v, request) /\ shown' = [shown EXCEPT ![v] = <<>>]
        /\ next' = [next EXCEPT ![v] = 0] /\ calm' = [calm EXCEPT ![v] = FALSE]
    BY <1>1 DEF AskFirst
  <2> HIDE DEF request
  <2> QED BY <2>1, <2>3, <2>4, AskPages
<1>2. ASSUME NEW v \in Visitors, AskNext(v) PROVE PagesInv'
  <2> DEFINE request == [want[v] EXCEPT !.file = Nothing, !.page = next[v]]
  <2>1. next[v] \in Nat /\ want[v] \in Request BY DEF IndexInv, IndexTyped
  <2>2. request \in Request BY <2>1, Requests
  <2>3. /\ request.file = Nothing /\ request.page = next[v]
        /\ request.size = want[v].size /\ request.query = want[v].query
    BY <2>1 DEF Request
  <2>4. Ask(v, request) /\ next[v] # 0 /\ UNCHANGED <<shown, next, calm>>
    BY <1>2 DEF AskNext
  <2>5. want[v].size # 0 BY DEF PagesInv, RestTyped, Asked
  <2> HIDE DEF request
  <2> QED BY <2>2, <2>3, <2>4, <2>5, AskPages
<1>3. ASSUME NEW v \in Visitors, NEW f \in Files, AskFile(v, f) PROVE PagesInv'
  <2> DEFINE request == [want[v] EXCEPT !.file = f]
  <2>1. want[v] \in Request BY DEF IndexInv, IndexTyped
  <2>2. request \in Request BY Requests
  <2>3. /\ request.file # Nothing /\ request.page = want[v].page
        /\ request.size = want[v].size /\ request.query = want[v].query
    BY <2>1, FilesAssumption DEF Request
  <2>4. Ask(v, request) /\ UNCHANGED <<shown, next, calm>> BY <1>3 DEF AskFile
  <2>5. want[v].size # 0 /\ want[v].page # 0 BY DEF PagesInv, RestTyped, Asked
  <2> HIDE DEF request
  <2> QED BY <2>2, <2>3, <2>4, <2>5, AskPages
<1>4. ASSUME NEW v \in Visitors, ServeStep(v) PROVE PagesInv'
  <2>1. ASSUME NEW f \in Files, LookFail(v, f) PROVE PagesInv'
    <3>1. /\ calm' = [u \in Visitors |-> FALSE] /\ Happens("faults")
          /\ unvisited' = unvisited \ {f}
          /\ UNCHANGED <<found, index, fresh, where, want, next, shown>>
      BY <2>1 DEF LookFail, indexed
    <3>2. happened' \in [ShelfEvents -> Nat] /\ unvisited' \subseteq Files
      BY <3>1, Counted DEF PagesInv, RestTyped, ShelfEvents
    <3> QED BY <3>1, <3>2, DisturbPages
  <2> QED BY <1>4, <2>1, UseIndexPages, StorePages, ServePages DEF ServeStep
<1>5. ASSUME NEW f \in Files, Change(f) PROVE PagesInv'
  <2>1. /\ calm' = [v \in Visitors |-> FALSE] /\ Happens("changes")
        /\ UNCHANGED <<unvisited, found, index, fresh, where, want, next, shown>>
    BY <1>5 DEF Change
  <2>2. happened' \in [ShelfEvents -> Nat] /\ unvisited' \subseteq Files
    BY <2>1, Counted DEF PagesInv, RestTyped, ShelfEvents
  <2> QED BY <2>1, <2>2, DisturbPages
<1>6. CASE Expire
  <2>1. /\ fresh' = FALSE /\ Happens("expiries")
        /\ UNCHANGED <<library, holder, unvisited, found, during, throughout, index,
                       where, want, next, shown, calm>>
    BY <1>6 DEF Expire, walkVars, readerVars
  <2>2. happened' \in [ShelfEvents -> Nat]
    BY <2>1, Counted DEF PagesInv, RestTyped, ShelfEvents
  <2>3. \A v \in Visitors : Pending(v)' => Pending(v) BY <2>1 DEF Pending
  <2>4. unvisited' \subseteq Files /\ Cardinality(found') <= MaxFiles
    BY <2>1 DEF PagesInv, RestTyped
  <2> QED BY <2>1, <2>2, <2>3, <2>4, QuietKeeps
<1>7. CASE UNCHANGED indexVars
  BY <1>7 DEF indexVars, walkVars, indexed, readerVars, PagesInv, RestTyped, PagesOK,
              Asked, Pending, Followed, Walking
<1> QED BY <1>1, <1>2, <1>3, <1>4, <1>5, <1>6, <1>7 DEF IndexNext

----------------------------------------------------------------------------
(* The shelf. *)

LEMMA ShelfRunsLinks == Spec => LinksSpec
<1>1. Init => LinksInit BY DEF Init
<1>2. [Next]_shelfVars => [LinksNext]_linkVars BY DEF Next, shelfVars
<1> QED BY <1>1, <1>2, PTL DEF Spec, LinksSpec

LEMMA ShelfRunsIndex == Spec => IndexSpec
<1>1. Init => IndexInit BY DEF Init
<1>2. [Next]_shelfVars => [IndexNext]_indexVars BY DEF Next, shelfVars
<1> QED BY <1>1, <1>2, PTL DEF Spec, IndexSpec

\* The inductive invariant of the directory's index.
THEOREM IndexInvariant == IndexSpec => []IndexInv
<1> QED BY IndexInitOK, IndexStep, PTL DEF IndexSpec

\* What a reader of pages has seen, and the rest of the types.
THEOREM PagesInvariant == IndexSpec => []PagesInv
<1>1. IndexInv /\ PagesInv /\ [IndexNext]_indexVars => PagesInv' BY PagesStep
<1> QED BY PagesInitOK, <1>1, IndexInvariant, PTL DEF IndexSpec

\* A link of the proxied catalog is only forgotten for newer ones.
THEOREM ShelfLinksLast == Spec => []LinksLast
BY ShelfRunsLinks, LinksAreLast, PTL

\* A walk lists what it should and gives the mutex back, however it ends.
THEOREM ShelfWalkSound == Spec => []WalkSound
<1>1. IndexInv => WalkSound BY DEF IndexInv
<1> QED BY <1>1, ShelfRunsIndex, IndexInvariant, PTL

\* A listed file that stays in the library, and that the operating system does
\* not refuse, can be downloaded, whatever becomes of the index in between.
THEOREM ShelfLinksHold == Spec => []LinksHold
<1>1. IndexInv => LinksHold BY DEF IndexInv
<1> QED BY <1>1, ShelfRunsIndex, IndexInvariant, PTL

\* Types of the whole shelf: the table and the index stay within their
\* capacities, and every page is a sequence of files.
THEOREM ShelfTyped == Spec => []TypeOK
<1> DEFINE ModeOK == mode \in {"off", "opds", "filesystem"}
<1>1. IndexInv /\ PagesInv => IndexTypeOK
  BY DEF IndexInv, IndexTyped, StaysOK, PagesInv, RestTyped, IndexTypeOK
<1>2. Init => ModeOK BY DEF Init
<1>3. ModeOK /\ [Next]_shelfVars => ModeOK' BY DEF Next, shelfVars
<1>4. ModeOK /\ LinksTypeOK /\ IndexTypeOK => TypeOK BY DEF TypeOK
<1> HIDE DEF ModeOK
<1> QED BY <1>1, <1>2, <1>3, <1>4, ShelfRunsLinks, ShelfRunsIndex, LinksTyped,
           IndexInvariant, PagesInvariant, PTL DEF Spec

\* A reader who follows the pages to the last one has seen the listing of the
\* library, if that is still the one of the first page: for any library, page
\* size, search, and expiries, walks and other readers in between.
THEOREM ShelfPagesComplete == Spec => []PagesComplete
<1>1. PagesInv => PagesComplete
  BY DEF PagesInv, PagesOK, Followed, PagesComplete
<1> QED BY <1>1, ShelfRunsIndex, PagesInvariant, PTL
=============================================================================
