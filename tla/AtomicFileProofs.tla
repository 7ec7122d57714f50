-------------------------- MODULE AtomicFileProofs --------------------------
(***************************************************************************)
(* Theorems about the shared read-modify-write, for every set of callers   *)
(* and updates: the file always parses, and without power failures it      *)
(* implements the register of AtomicRegister.                              *)
(***************************************************************************)
EXTENDS AtomicFile, TLAPS

\* The call that holds the mutex works on the current content.
OwnCopy == \A c \in Callers : pc[c] \in {"write", "sync", "rename"} => local[c] = file

\* What is renamed over the file was synced, so nothing unsynced is visible.
OnDisk ==
  /\ synced
  /\ \A c \in Callers : pc[c] = "rename" => flushed[c] = TRUE
  /\ file # Truncated /\ disk # Truncated

Inv == TypeOK /\ OwnCopy /\ OnDisk

\* A call that is about to report has its update in the file.
Promise ==
  /\ reported \subseteq file
  /\ \A c \in Callers : pc[c] = "return" => upd[c] \in file

-----------------------------------------------------------------------------
LEMMA Clean == \A S \in SUBSET Updates : S # Truncated
  BY DamageAssumption DEF Truncated

LEMMA InitInv == Init => Inv /\ Promise
  <1> SUFFICES ASSUME Init PROVE Inv /\ Promise
    OBVIOUS
  <1>1. {} \in SUBSET Updates /\ {} # Truncated
    BY Clean
  <1>2. TypeOK
    BY <1>1, FreeAssumption DEF Init, TypeOK, Contents
  <1>3. OwnCopy /\ OnDisk /\ Promise
    BY <1>1 DEF Init, OwnCopy, OnDisk, Promise
  <1> QED BY <1>2, <1>3 DEF Inv

\* A call that moves holds the mutex, or all others wait.
LEMMA Alone ==
  ASSUME TypeOK, NEW c \in Callers, mu \in {c, Free}
  PROVE  \A d \in Callers \ {c} : pc[d] \in {"idle", "load"}
  BY FreeAssumption DEF TypeOK

LEMMA BeginInv ==
  ASSUME Inv, NEW c \in Callers, NEW u \in Updates, Begin(c, u) PROVE Inv'
  <1>1. TypeOK'
    BY DEF Inv, TypeOK, Begin, fileVars
  <1>2. OwnCopy' /\ OnDisk'
    BY DEF Inv, TypeOK, OwnCopy, OnDisk, Begin, fileVars, Truncated
  <1> QED BY <1>1, <1>2 DEF Inv

LEMMA LoadInv ==
  ASSUME Inv, NEW c \in Callers, Load(c) PROVE Inv'
  <1> USE DEF Load, fileVars
  <1>1. file \in SUBSET Updates /\ file # Truncated
    BY DEF Inv, OnDisk, TypeOK, Contents
  <1>2. \A d \in Callers \ {c} : pc[d] \in {"idle", "load"}
    BY Alone DEF Inv
  <1>3. TypeOK'
    BY <1>1, <1>2, FreeAssumption DEF Inv, TypeOK
  <1>4. OwnCopy' /\ OnDisk'
    BY <1>1, <1>2 DEF Inv, TypeOK, OwnCopy, OnDisk, Truncated
  <1> QED BY <1>3, <1>4 DEF Inv

\* The steps between load and return that leave the file alone.
LEMMA WorkInv ==
  ASSUME Inv, NEW c \in Callers, Fail(c) \/ WriteTemp(c) \/ SyncTemp(c) \/ Return(c)
  PROVE  Inv'
  <1> USE DEF fileVars
  <1>1. mu = c /\ \A d \in Callers \ {c} : pc[d] \in {"idle", "load"}
    BY Alone DEF Inv, TypeOK, Fail, WriteTemp, SyncTemp, Return
  <1>2. TypeOK'
    <2>1. CASE Fail(c)
      BY <1>1, <2>1, FreeAssumption DEF Inv, TypeOK, Fail
    <2>2. CASE WriteTemp(c)
      BY <1>1, <2>2 DEF Inv, TypeOK, WriteTemp
    <2>3. CASE SyncTemp(c)
      BY <1>1, <2>3 DEF Inv, TypeOK, SyncTemp
    <2>4. CASE Return(c)
      BY <1>1, <2>4, FreeAssumption DEF Inv, TypeOK, Return
    <2> QED BY <2>1, <2>2, <2>3, <2>4
  <1>3. OwnCopy'
    BY <1>1 DEF Inv, TypeOK, OwnCopy, Fail, WriteTemp, SyncTemp, Return
  <1>4. OnDisk'
    <2>1. synced' /\ file' # Truncated /\ disk' # Truncated
      BY DEF Inv, OnDisk, Truncated, Fail, WriteTemp, SyncTemp, Return
    <2>2. \A d \in Callers : pc'[d] = "rename" => flushed'[d] = TRUE
      BY <1>1 DEF Inv, TypeOK, Fail, WriteTemp, SyncTemp, Return
    <2> QED BY <2>1, <2>2 DEF OnDisk, Truncated
  <1> QED BY <1>2, <1>3, <1>4 DEF Inv

LEMMA RenameInv ==
  ASSUME Inv, NEW c \in Callers, Rename(c)
  PROVE  Inv' /\ file' = file \cup {upd[c]} /\ UNCHANGED <<upd, reported>>
  <1> USE DEF Rename
  <1>1. mu = c /\ \A d \in Callers \ {c} : pc[d] \in {"idle", "load"}
    BY Alone DEF Inv, TypeOK
  <1>2. file' = file \cup {upd[c]} /\ synced' = TRUE
    BY DEF Inv, OwnCopy, OnDisk
  <1>3. file' \in SUBSET Updates
    BY DEF Inv, TypeOK
  <1>4. file' # Truncated /\ disk' # Truncated
    BY <1>3, Clean DEF Inv, OnDisk, Truncated
  <1>5. TypeOK'
    BY <1>1, <1>2, <1>3 DEF Inv, TypeOK, Contents, Truncated
  <1>6. OwnCopy'
    BY <1>1 DEF Inv, TypeOK, OwnCopy
  <1>7. OnDisk'
    BY <1>1, <1>2, <1>4 DEF Inv, TypeOK, OnDisk, Truncated
  <1> QED BY <1>2, <1>5, <1>6, <1>7 DEF Inv

LEMMA DiskInv ==
  ASSUME Inv, FlushDirectory PROVE Inv'
  <1>1. disk' = file
    BY DEF Inv, OnDisk, FlushDirectory, ReachDisk
  <1>2. TypeOK'
    BY <1>1 DEF Inv, TypeOK, FlushDirectory, callVars, Contents, Truncated
  <1>3. OwnCopy' /\ OnDisk'
    BY <1>1 DEF Inv, OwnCopy, OnDisk, FlushDirectory, callVars, Truncated
  <1> QED BY <1>2, <1>3 DEF Inv

LEMMA StopInv ==
  ASSUME Inv, Crash \/ PowerFailure PROVE Inv'
  <1>1. \A c \in Callers : pc'[c] = "idle"
    BY DEF Crash, PowerFailure, AllCallsEnd
  <1>2. synced' /\ file' \in {file, disk} /\ disk' \in {file, disk}
    BY DEF Inv, OnDisk, Crash, PowerFailure, ReachDisk, fileVars
  <1>3. TypeOK'
    <2>1. file' \in Contents /\ disk' \in Contents /\ synced' \in BOOLEAN
      BY <1>2 DEF Inv, TypeOK, OnDisk, Crash, PowerFailure, fileVars, Contents, Truncated
    <2>2. pc' \in [Callers -> {"idle", "load", "write", "sync", "rename", "return"}] /\ mu' = Free
      BY DEF Crash, PowerFailure, AllCallsEnd
    <2>3. UNCHANGED <<upd, local, flushed, issued, reported>>
      BY DEF Crash, PowerFailure
    <2> QED BY <1>1, <2>1, <2>2, <2>3, FreeAssumption DEF Inv, TypeOK, Contents, Truncated
  <1>4. OwnCopy' /\ OnDisk'
    BY <1>1, <1>2 DEF Inv, OwnCopy, OnDisk, Truncated
  <1> QED BY <1>3, <1>4 DEF Inv

LEMMA NextInv == Inv /\ [Next]_vars => Inv'
  <1> SUFFICES ASSUME Inv, [Next]_vars PROVE Inv'
    OBVIOUS
  <1>1. CASE UNCHANGED vars
    BY <1>1 DEF Inv, TypeOK, OwnCopy, OnDisk, vars, fileVars, callVars, Contents, Truncated
  <1>2. ASSUME NEW c \in Callers, Step(c) PROVE Inv'
    BY <1>2, LoadInv, WorkInv, RenameInv DEF Step
  <1>3. ASSUME NEW c \in Callers, NEW u \in Updates, Begin(c, u) PROVE Inv'
    BY <1>3, BeginInv
  <1>4. CASE FlushDirectory \/ Crash \/ PowerFailure
    BY <1>4, DiskInv, StopInv
  <1> QED BY <1>1, <1>2, <1>3, <1>4 DEF Next

-----------------------------------------------------------------------------
(* Theorems. *)

\* Every field keeps its type, and a call holds the mutex exactly between its
\* load and its return (updateSettings, wcJournal.put).
THEOREM FileTypeOK == Spec => []TypeOK
  <1>1. Inv => TypeOK
    BY DEF Inv
  <1> QED BY <1>1, InitInv, NextInv, PTL DEF Spec

\* The file parses whatever fails and whenever the power goes: only synced
\* content is renamed over it (setSettingsLocked, saveLocked).
THEOREM FileReadable == Spec => []Readable
  <1>1. Inv => Readable
    BY DEF Inv, OnDisk, Readable
  <1> QED BY <1>1, InitInv, NextInv, PTL DEF Spec

\* What is reported stays, as long as no power failure undoes a rename.
LEMMA NextPromise == ~PowerMayFail /\ Inv /\ Promise /\ [Next]_vars => Promise'
  <1> SUFFICES ASSUME ~PowerMayFail, Inv, Promise, [Next]_vars PROVE Promise'
    OBVIOUS
  <1> USE DEF Promise, fileVars, callVars
  <1>1. CASE UNCHANGED vars
    BY <1>1 DEF vars
  <1>2. ASSUME NEW c \in Callers, Rename(c) PROVE Promise'
    <2>1. file' = file \cup {upd[c]} /\ UNCHANGED <<upd, reported>>
      BY <1>2, RenameInv
    <2>2. \A d \in Callers \ {c} : pc'[d] = pc[d]
      BY <1>2 DEF Rename, Inv, TypeOK
    <2> QED BY <2>1, <2>2
  <1>3. ASSUME NEW c \in Callers, Return(c) PROVE Promise'
    BY <1>3 DEF Return, Inv, TypeOK
  <1>4. ASSUME NEW c \in Callers, Load(c) \/ Fail(c) \/ WriteTemp(c) \/ SyncTemp(c) PROVE Promise'
    BY <1>4 DEF Load, Fail, WriteTemp, SyncTemp, Inv, TypeOK
  <1>5. ASSUME NEW c \in Callers, NEW u \in Updates, Begin(c, u) PROVE Promise'
    BY <1>5 DEF Begin, Inv, TypeOK
  <1>6. CASE FlushDirectory
    BY <1>6 DEF FlushDirectory
  <1>7. CASE Crash \/ PowerFailure
    BY <1>7 DEF Crash, PowerFailure, AllCallsEnd
  <1> QED BY <1>1, <1>2, <1>3, <1>4, <1>5, <1>6, <1>7 DEF Next, Step

\* Without power failures, a reported update is never lost to another
\* caller's write, to a failing step or to a crash (updateSettings, put).
THEOREM FileNoLostUpdate == ~PowerMayFail => (Spec => []NoLostUpdate)
  <1> SUFFICES ASSUME ~PowerMayFail PROVE Spec => []NoLostUpdate
    OBVIOUS
  <1>1. Inv /\ Promise => NoLostUpdate
    BY DEF Inv, OnDisk, Promise, NoLostUpdate
  <1>2. Inv /\ Promise /\ [Next]_vars => Promise'
    BY NextPromise
  <1> QED BY <1>1, <1>2, InitInv, NextInv, PTL DEF Spec

\* Every step is a step of the register or leaves it as it is.
LEMMA StepRegister ==
  ASSUME ~PowerMayFail, Inv, Promise, [Next]_vars
  PROVE  [Register!Next]_<<file, reported>>
  <1> USE DEF fileVars, callVars
  <1>1. CASE UNCHANGED vars
    BY <1>1 DEF vars
  <1>2. ASSUME NEW c \in Callers, Rename(c) PROVE [Register!Next]_<<file, reported>>
    <2>1. file' = file \cup {upd[c]} /\ UNCHANGED reported
      BY <1>2, RenameInv
    <2>2. upd[c] \in Updates
      BY DEF Inv, TypeOK
    <2>3. CASE upd[c] \in file
      BY <2>1, <2>3
    <2>4. CASE upd[c] \notin file
      BY <2>1, <2>2, <2>4 DEF Register!Next, Register!Apply
    <2> QED BY <2>3, <2>4
  <1>3. ASSUME NEW c \in Callers, Return(c) PROVE [Register!Next]_<<file, reported>>
    <2>1. upd[c] \in file /\ upd[c] \in Updates
      BY <1>3 DEF Return, Promise, Inv, TypeOK
    <2> QED BY <1>3, <2>1 DEF Return, Register!Next, Register!Report
  <1>4. ASSUME NEW c \in Callers, Load(c) \/ Fail(c) \/ WriteTemp(c) \/ SyncTemp(c)
        PROVE  UNCHANGED <<file, reported>>
    BY <1>4 DEF Load, Fail, WriteTemp, SyncTemp
  <1>5. ASSUME NEW c \in Callers, NEW u \in Updates, Begin(c, u) PROVE UNCHANGED <<file, reported>>
    BY <1>5 DEF Begin
  <1>6. CASE FlushDirectory \/ Crash \/ PowerFailure
    BY <1>6 DEF FlushDirectory, Crash, PowerFailure
  <1> QED BY <1>1, <1>2, <1>3, <1>4, <1>5, <1>6 DEF Next, Step

\* Without power failures the file implements the register: its callers see
\* every update in one step, and none before it is in (updateSettings, put).
THEOREM FileImplementsRegister == ~PowerMayFail => (Spec => ImplementsRegister)
  <1> SUFFICES ASSUME ~PowerMayFail PROVE Spec => ImplementsRegister
    OBVIOUS
  <1>1. Init => Register!Init
    BY DEF Init, Register!Init
  <1>2. Inv /\ Promise /\ [Next]_vars => Promise'
    BY NextPromise
  <1>3. Inv /\ Promise /\ [Next]_vars => [Register!Next]_<<file, reported>>
    BY StepRegister
  <1> QED BY <1>1, <1>2, <1>3, InitInv, NextInv, PTL DEF Spec, ImplementsRegister, Register!Spec
=============================================================================
