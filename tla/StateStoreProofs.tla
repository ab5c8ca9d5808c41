--------------------------- MODULE StateStoreProofs ---------------------------
(***************************************************************************)
(* Proofs about StateStore: the file always decodes, what a Put reported   *)
(* as saved is in it, and the store implements DurableStore.               *)
(***************************************************************************)
EXTENDS StateStore, TLAPS

USE DEF Map, Files

\* Whoever is saving holds the mutex.
Exclusive == \A w \in Writers : pc[w] # "idle" => mutex = w

\* What it has encoded is still the map, since nobody else may change that;
\* a finished temporary file is what it encoded.
Fresh ==
    \A w \in Writers :
        /\ pc[w] \in {"create", "write", "rename"} => data[w] = current
        /\ pc[w] = "rename" => tmp = data[w]

\* The inductive invariant.
IInv == TypeOK /\ Exclusive /\ Fresh /\ DiskWhole /\ KeptIsOnDisk

LEMMA EmptyIsMap == Empty \in Map
  BY DEF Empty

LEMMA OpenIsMap ==
  ASSUME disk \in Files
  PROVE  Open \in Map
  BY EmptyIsMap DEF Open

LEMMA InitInv == Init => IInv
  <1> SUFFICES ASSUME Init PROVE IInv
    OBVIOUS
  <1>1. TypeOK
    BY EmptyIsMap, BoundAssumption DEF Init, TypeOK, Labels
  <1>2. Exclusive /\ Fresh
    BY DEF Init, Exclusive, Fresh
  <1>3. DiskWhole /\ KeptIsOnDisk
    BY FileAssumption DEF Init, DiskWhole, KeptIsOnDisk, Open
  <1> QED BY <1>1, <1>2, <1>3 DEF IInv

LEMMA PutInv ==
  ASSUME IInv, NEW w \in Writers, NEW k \in Keys, NEW v \in Values \union {None},
         Put(w, k, v)
  PROVE  IInv'
  <1>1. TypeOK'
    BY DEF IInv, TypeOK, Put, Step, Spend, Labels
  <1>2. \A u \in Writers : pc[u] = "idle"
    BY HolderAssumption DEF IInv, Exclusive, Put
  <1>3. Exclusive' /\ Fresh'
    BY <1>2 DEF IInv, TypeOK, Exclusive, Fresh, Put, Step
  <1>4. DiskWhole' /\ KeptIsOnDisk'
    BY DEF IInv, DiskWhole, KeptIsOnDisk, Open, Put
  <1> QED BY <1>1, <1>3, <1>4 DEF IInv

LEMMA EncodeInv ==
  ASSUME IInv, NEW w \in Writers, Encode(w)
  PROVE  IInv'
  <1>1. TypeOK'
    BY DEF IInv, TypeOK, Encode, Step, Labels
  <1>2. Exclusive' /\ Fresh'
    BY DEF IInv, TypeOK, Exclusive, Fresh, Encode, Step
  <1>3. DiskWhole' /\ KeptIsOnDisk'
    BY DEF IInv, DiskWhole, KeptIsOnDisk, Open, Encode
  <1> QED BY <1>1, <1>2, <1>3 DEF IInv

LEMMA CreateInv ==
  ASSUME IInv, NEW w \in Writers, Create(w)
  PROVE  IInv'
  <1>1. TypeOK'
    BY DEF IInv, TypeOK, Create, Step, Labels
  <1>2. \A u \in Writers : u # w => pc[u] = "idle"
    BY DEF IInv, Exclusive, Create, Step
  <1>3. Exclusive' /\ Fresh'
    BY <1>2 DEF IInv, TypeOK, Exclusive, Fresh, Create, Step
  <1>4. DiskWhole' /\ KeptIsOnDisk'
    BY DEF IInv, DiskWhole, KeptIsOnDisk, Open, Create
  <1> QED BY <1>1, <1>3, <1>4 DEF IInv

LEMMA WriteInv ==
  ASSUME IInv, NEW w \in Writers, Write(w)
  PROVE  IInv'
  <1>1. TypeOK'
    BY DEF IInv, TypeOK, Write, Step, Labels
  <1>2. \A u \in Writers : u # w => pc[u] = "idle"
    BY DEF IInv, Exclusive, Write, Step
  <1>3. Exclusive' /\ Fresh'
    BY <1>2 DEF IInv, TypeOK, Exclusive, Fresh, Write, Step
  <1>4. DiskWhole' /\ KeptIsOnDisk'
    BY DEF IInv, DiskWhole, KeptIsOnDisk, Open, Write
  <1> QED BY <1>1, <1>3, <1>4 DEF IInv

LEMMA RenameInv ==
  ASSUME IInv, NEW w \in Writers, Rename(w)
  PROVE  IInv'
  <1>1. tmp = data[w] /\ data[w] \in Map
    BY DEF IInv, TypeOK, Fresh, Rename, Step
  <1>2. TypeOK'
    BY <1>1 DEF IInv, TypeOK, Rename, Step, Labels
  <1>3. \A u \in Writers : u # w => pc[u] = "idle"
    BY DEF IInv, Exclusive, Rename, Step
  <1>4. Exclusive' /\ Fresh'
    BY <1>3 DEF IInv, TypeOK, Exclusive, Fresh, Rename, Step
  <1>5. disk' \notin {Absent, Torn}
    BY <1>1, FileAssumption DEF Rename
  <1>6. DiskWhole' /\ KeptIsOnDisk'
    BY <1>1, <1>5 DEF DiskWhole, KeptIsOnDisk, Open, Rename
  <1> QED BY <1>2, <1>4, <1>6 DEF IInv

LEMMA FailInv ==
  ASSUME IInv, NEW w \in Writers, Fail(w)
  PROVE  IInv'
  <1>1. TypeOK'
    BY DEF IInv, TypeOK, Fail, Spend, Labels
  <1>2. \A u \in Writers : u # w => pc[u] = "idle"
    BY DEF IInv, Exclusive, Fail
  <1>3. Exclusive' /\ Fresh'
    BY <1>2 DEF IInv, TypeOK, Exclusive, Fresh, Fail
  <1>4. DiskWhole' /\ KeptIsOnDisk'
    BY DEF IInv, DiskWhole, KeptIsOnDisk, Open, Fail
  <1> QED BY <1>1, <1>3, <1>4 DEF IInv

LEMMA CrashInv ==
  ASSUME IInv, Crash
  PROVE  IInv'
  <1>1. Open \in Map
    BY OpenIsMap DEF IInv, TypeOK
  <1>2. TypeOK'
    BY <1>1, EmptyIsMap DEF IInv, TypeOK, Crash, Spend, Labels
  <1>3. Exclusive' /\ Fresh'
    BY DEF Exclusive, Fresh, Crash
  <1>4. DiskWhole' /\ KeptIsOnDisk'
    BY DEF IInv, DiskWhole, KeptIsOnDisk, Open, Crash
  <1> QED BY <1>2, <1>3, <1>4 DEF IInv

LEMMA StutterInv ==
  ASSUME IInv, UNCHANGED vars
  PROVE  IInv'
  BY DEF IInv, TypeOK, Exclusive, Fresh, DiskWhole, KeptIsOnDisk, Open, vars

\* Types, exclusion and the contents of both files, for any number of writers
\* and any pattern of failures and crashes of saveLocked.
THEOREM StoreInvariant == Spec => []IInv
  <1>1. IInv /\ [Next]_vars => IInv'
    BY PutInv, EncodeInv, CreateInv, WriteInv, RenameInv, FailInv, CrashInv,
       StutterInv DEF Next, Save
  <1> QED BY InitInv, <1>1, PTL DEF Spec

\* The mutex, both files and the maps stay in their ranges.
THEOREM StoreTyped == Spec => []TypeOK
  <1>1. IInv => TypeOK
    BY DEF IInv
  <1> QED BY StoreInvariant, <1>1, PTL

\* state.json decodes at every moment: OpenState never meets a torn file.
THEOREM StoreWhole == Spec => []DiskWhole
  <1>1. IInv => DiskWhole
    BY DEF IInv
  <1> QED BY StoreInvariant, <1>1, PTL

\* The map last reported as saved is the one a restart reads.
THEOREM StoreKept == Spec => []KeptIsOnDisk
  <1>1. IInv => KeptIsOnDisk
    BY DEF IInv
  <1> QED BY StoreInvariant, <1>1, PTL

LEMMA PromisedStep ==
  ASSUME IInv, Next
  PROVE  Promise!Next \/ UNCHANGED Promise!vars
  <1>1. ASSUME NEW w \in Writers, NEW k \in Keys, NEW v \in Values \union {None},
               Put(w, k, v)
        PROVE  Promise!Change(k, v)
    BY <1>1 DEF Put, Promise!Change, Saved, Open
  <1>2. ASSUME NEW w \in Writers, Encode(w) \/ Create(w) \/ Write(w) \/ Fail(w)
        PROVE  UNCHANGED Promise!vars
    BY <1>2 DEF Encode, Create, Write, Fail, Promise!vars, Saved, Open
  <1>3. ASSUME NEW w \in Writers, Rename(w)
        PROVE  Promise!Save
    <2>1. tmp = current /\ current \in Map
      BY <1>3 DEF IInv, TypeOK, Fresh, Rename, Step
    <2>2. disk' = current /\ disk' \notin {Absent, Torn}
      BY <1>3, <2>1, FileAssumption DEF Rename
    <2> QED BY <1>3, <2>2 DEF Rename, Promise!Save, Saved, Open
  <1>4. ASSUME Crash
        PROVE  Promise!Restart
    BY <1>4 DEF Crash, Promise!Restart, Saved, Open
  <1> QED BY <1>1, <1>2, <1>3, <1>4 DEF Next, Save, Promise!Next

\* saveLocked implements the abstract store: every change is saved whole, in
\* one step of the abstract store, the rename, or not at all.
THEOREM StoreRefines == Spec => Durable
  <1>1. Init => Promise!Init
    BY DEF Init, Promise!Init, Saved, Open, Empty, Promise!Empty
  <1>2. IInv /\ [Next]_vars => [Promise!Next]_(Promise!vars)
    <2>1. ASSUME UNCHANGED vars PROVE UNCHANGED Promise!vars
      BY <2>1 DEF vars, Promise!vars, Saved, Open
    <2> QED BY <2>1, PromisedStep
  <1> QED BY StoreInvariant, <1>1, <1>2, PTL DEF Spec, Durable, Promise!Spec
=============================================================================
