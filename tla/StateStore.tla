------------------------------ MODULE StateStore ------------------------------
(***************************************************************************)
(* The file-backed map of state.go; bookmap.go has the same protocol for   *)
(* the book map.  Put changes the map in memory and then, still holding    *)
(* the mutex, writes all of it to <path>.tmp and renames that over <path>. *)
(* Any of the file operations may fail, and the process may die between    *)
(* any two of them, the middle of a write included.                        *)
(*                                                                         *)
(* The values are records, mappings or the health record; None is a key    *)
(* without one.  A file is the map it decodes to, Torn when it decodes to  *)
(* none, and Absent.  A crash is one of the process: what the kernel was   *)
(* given is not lost (nothing here calls fsync).                           *)
(***************************************************************************)
EXTENDS Naturals

CONSTANTS
    Writers,     \* goroutines that call Put
    Keys, Values,
    None,        \* no value
    Absent,      \* no file
    Torn,        \* a file that does not decode
    Free,        \* nobody holds the mutex
    MaxPuts,     \* bounds the calls of Put
    MaxFailures, \* bounds the file operations that fail
    MaxCrashes   \* bounds the restarts

Map == [Keys -> Values \union {None}]
Empty == [k \in Keys |-> None]
Files == Map \union {Torn, Absent}

ASSUME FileAssumption == Torn \notin Map /\ Absent \notin Map /\ Torn # Absent
ASSUME HolderAssumption == Free \notin Writers
ASSUME BoundAssumption ==
    MaxPuts \in Nat /\ MaxFailures \in Nat /\ MaxCrashes \in Nat

VARIABLES
    current,  \* Entries and BackendHealth in memory
    mutex,    \* who holds mu
    pc,       \* where each writer is
    data,     \* what json.MarshalIndent gave a writer
    tmp,      \* the file <path>.tmp
    disk,     \* the file <path>
    kept,     \* history: the last map whose Put returned no error
    spent     \* how many Puts, failures and crashes there were

vars == <<current, mutex, pc, data, tmp, disk, kept, spent>>

Labels == {"idle", "encode", "create", "write", "rename"}

TypeOK ==
    /\ current \in Map
    /\ mutex \in Writers \union {Free}
    /\ pc \in [Writers -> Labels]
    /\ data \in [Writers -> Map]
    /\ tmp \in Files
    /\ disk \in Files
    /\ kept \in Map
    /\ spent \in [{"puts", "failures", "crashes"} -> Nat]

Init ==
    /\ current = Empty
    /\ mutex = Free
    /\ pc = [w \in Writers |-> "idle"]
    /\ data = [w \in Writers |-> Empty]
    /\ tmp = Absent
    /\ disk = Absent
    /\ kept = Empty
    /\ spent = [e \in {"puts", "failures", "crashes"} |-> 0]

Step(w, from, to) == pc[w] = from /\ pc' = [pc EXCEPT ![w] = to]

Spend(event, bound) ==
    /\ spent[event] < bound
    /\ spent' = [spent EXCEPT ![event] = @ + 1]

----------------------------------------------------------------------------
\* Fault: the mutex covers the map but not the file.
PutUnguarded(w, k, v) ==
    /\ Step(w, "idle", "encode")
    /\ Spend("puts", MaxPuts)
    /\ current' = [current EXCEPT ![k] = v]
    /\ UNCHANGED <<mutex, data, tmp, disk, kept>>

\* Put takes the mutex and changes the map.
Put(w, k, v) ==
    /\ Step(w, "idle", "encode")
    /\ mutex = Free
    /\ mutex' = w
    /\ Spend("puts", MaxPuts)
    /\ current' = [current EXCEPT ![k] = v]
    /\ UNCHANGED <<data, tmp, disk, kept>>

\* The directory is made and the map encoded.
Encode(w) ==
    /\ Step(w, "encode", "create")
    /\ data' = [data EXCEPT ![w] = current]
    /\ UNCHANGED <<current, mutex, tmp, disk, kept, spent>>

\* Fault: writes the file itself instead of a temporary one.
CreateInPlace(w) ==
    /\ Step(w, "create", "write")
    /\ disk' = Torn
    /\ UNCHANGED <<current, mutex, data, tmp, kept, spent>>

\* os.WriteFile truncates or creates the temporary file ...
Create(w) ==
    /\ Step(w, "create", "write")
    /\ tmp' = Torn
    /\ UNCHANGED <<current, mutex, data, disk, kept, spent>>

\* ... and fills it.
Write(w) ==
    /\ Step(w, "write", "rename")
    /\ tmp' = data[w]
    /\ UNCHANGED <<current, mutex, data, disk, kept, spent>>

\* The temporary file takes the place of the old one; Put returns nil.
Rename(w) ==
    /\ Step(w, "rename", "idle")
    /\ disk' = tmp
    /\ tmp' = Absent
    /\ mutex' = Free
    /\ kept' = data[w]
    /\ UNCHANGED <<current, data, spent>>

\* Fault: an error path that returns without unlocking.
FailHolding(w) ==
    /\ pc[w] \in {"encode", "create", "write", "rename"}
    /\ pc' = [pc EXCEPT ![w] = "idle"]
    /\ Spend("failures", MaxFailures)
    /\ UNCHANGED <<current, mutex, data, tmp, disk, kept>>

\* A file operation fails: Put returns the error, the map stays changed.
Fail(w) ==
    /\ pc[w] \in {"encode", "create", "write", "rename"}
    /\ pc' = [pc EXCEPT ![w] = "idle"]
    /\ mutex' = Free
    /\ Spend("failures", MaxFailures)
    /\ UNCHANGED <<current, data, tmp, disk, kept>>

\* Fault: does not expect a missing file.
OpenAlways == disk

\* Fault: reads the temporary file when there is one.
OpenTmp == IF tmp = Absent THEN (IF disk = Absent THEN Empty ELSE disk)
           ELSE IF tmp = Torn THEN Empty ELSE tmp

\* OpenState: no file is an empty map, and so is one that does not decode.
Open == IF disk \in {Absent, Torn} THEN Empty ELSE disk

\* The process dies and starts again.
Crash ==
    /\ Spend("crashes", MaxCrashes)
    /\ current' = Open
    /\ mutex' = Free
    /\ pc' = [w \in Writers |-> "idle"]
    /\ data' = [w \in Writers |-> Empty]
    /\ UNCHANGED <<tmp, disk, kept>>

Save(w) == Encode(w) \/ Create(w) \/ Write(w) \/ Rename(w) \/ Fail(w)

Next ==
    \/ \E w \in Writers, k \in Keys, v \in Values \union {None} : Put(w, k, v)
    \/ \E w \in Writers : Save(w)
    \/ Crash

Spec == Init /\ [][Next]_vars

\* A goroutine that has begun to save goes on.
FairSpec == Spec /\ \A w \in Writers : WF_vars(Save(w))

----------------------------------------------------------------------------
\* At every moment, so whenever the process dies, state.json decodes: the
\* decode error OpenState ignores cannot come from a crash of the process.
DiskWhole == disk # Torn

\* What a Put reported as saved is what a restart finds, except for newer
\* maps: the last reported map is the file.
KeptIsOnDisk == Open = kept

Saved == Open
Promise == INSTANCE DurableStore WITH saved <- Saved

\* The store does what DurableStore promises.
Durable == Promise!Spec

\* The mutex is always released.
MutexReleased == []<>(mutex = Free)
=============================================================================
