----------------------------- MODULE AtomicFile -----------------------------
(***************************************************************************)
(* The read-modify-write that settings.json (app/config_service.go) and    *)
(* the publication journal (app/walletconnect_journal.go) share: under a   *)
(* mutex, load the file, change it, write a unique temporary file, sync    *)
(* it, rename it over the file.                                            *)
(*                                                                         *)
(* The content of the file is the set of updates that went into it.  What  *)
(* a power failure leaves is up to the file system: content that was not   *)
(* synced may be truncated, and a rename may not have reached the disk,    *)
(* because the code syncs the file and not its directory.                  *)
(***************************************************************************)
EXTENDS Integers

CONSTANTS
  Callers, Free,
  Updates,            \* each is asked for at most once
  Damage,             \* what makes a content unparsable
  PowerMayFail

ASSUME FreeAssumption == Free \notin Callers
ASSUME DamageAssumption == Damage \notin Updates
ASSUME PowerAssumption == PowerMayFail \in BOOLEAN

VARIABLES
  file, synced,       \* what readers see, and whether all of it is on disk
  disk,               \* what the directory on disk names
  mu,
  pc, upd, local,     \* of each call: progress, its update, what it loaded
  flushed,            \* whether its temporary file is synced
  issued, reported

fileVars == <<file, synced, disk>>
callVars == <<mu, pc, upd, local, flushed>>
vars == <<fileVars, callVars, issued, reported>>

Truncated == {Damage}

Contents == (SUBSET Updates) \cup {Truncated}

Init ==
  /\ file = {} /\ synced = TRUE /\ disk = {}
  /\ mu = Free
  /\ pc = [c \in Callers |-> "idle"]
  /\ upd \in [Callers -> Updates]
  /\ local = [c \in Callers |-> {}]
  /\ flushed = [c \in Callers |-> FALSE]
  /\ issued = {} /\ reported = {}

-----------------------------------------------------------------------------
Begin(c, u) ==
  /\ pc[c] = "idle" /\ u \notin issued
  /\ pc' = [pc EXCEPT ![c] = "load"]
  /\ upd' = [upd EXCEPT ![c] = u]
  /\ issued' = issued \cup {u}
  /\ UNCHANGED <<fileVars, mu, local, flushed, reported>>

\* Mutant: a reader copies the file before it takes the mutex.
LoadUnlocked(c) ==
  /\ pc[c] = "load" /\ file # Truncated
  /\ local' = [local EXCEPT ![c] = file]
  /\ mu' = c
  /\ pc' = [pc EXCEPT ![c] = "write"]
  /\ UNCHANGED <<fileVars, upd, flushed, issued, reported>>

\* The whole call holds the mutex; a file that does not parse ends it.
Load(c) ==
  /\ pc[c] = "load" /\ mu = Free
  /\ IF file = Truncated
     THEN pc' = [pc EXCEPT ![c] = "idle"] /\ UNCHANGED <<mu, local>>
     ELSE /\ mu' = c
          /\ local' = [local EXCEPT ![c] = file]
          /\ pc' = [pc EXCEPT ![c] = "write"]
  /\ UNCHANGED <<fileVars, upd, flushed, issued, reported>>

\* Mutant: an error return without the deferred unlock.
FailHeld(c) ==
  /\ pc[c] \in {"write", "sync", "rename"}
  /\ pc' = [pc EXCEPT ![c] = "idle"]
  /\ UNCHANGED <<fileVars, mu, upd, local, flushed, issued, reported>>

\* The change is refused, or a step fails and removes the temporary file.
Fail(c) ==
  /\ pc[c] \in {"write", "sync", "rename"}
  /\ pc' = [pc EXCEPT ![c] = "idle"] /\ mu' = Free
  /\ UNCHANGED <<fileVars, upd, local, flushed, issued, reported>>

\* Mutant: the temporary file is renamed without a sync.
WriteUnsynced(c) ==
  /\ pc[c] = "write"
  /\ pc' = [pc EXCEPT ![c] = "rename"]
  /\ flushed' = [flushed EXCEPT ![c] = FALSE]
  /\ UNCHANGED <<fileVars, mu, upd, local, issued, reported>>

WriteTemp(c) ==
  /\ pc[c] = "write"
  /\ pc' = [pc EXCEPT ![c] = "sync"]
  /\ flushed' = [flushed EXCEPT ![c] = FALSE]
  /\ UNCHANGED <<fileVars, mu, upd, local, issued, reported>>

SyncTemp(c) ==
  /\ pc[c] = "sync"
  /\ pc' = [pc EXCEPT ![c] = "rename"]
  /\ flushed' = [flushed EXCEPT ![c] = TRUE]
  /\ UNCHANGED <<fileVars, mu, upd, local, issued, reported>>

\* Mutant: the whole settings are written from the caller's own copy.
RenameOwn(c) ==
  /\ pc[c] = "rename"
  /\ pc' = [pc EXCEPT ![c] = "return"]
  /\ file' = {upd[c]}
  /\ synced' = flushed[c]
  /\ UNCHANGED <<disk, mu, upd, local, flushed, issued, reported>>

Rename(c) ==
  /\ pc[c] = "rename"
  /\ pc' = [pc EXCEPT ![c] = "return"]
  /\ file' = local[c] \cup {upd[c]}
  /\ synced' = flushed[c]
  /\ UNCHANGED <<disk, mu, upd, local, flushed, issued, reported>>

Return(c) ==
  /\ pc[c] = "return"
  /\ pc' = [pc EXCEPT ![c] = "idle"] /\ mu' = Free
  /\ reported' = reported \cup {upd[c]}
  /\ UNCHANGED <<fileVars, upd, local, flushed, issued>>

-----------------------------------------------------------------------------
ReachDisk == IF synced THEN {file} ELSE {file, Truncated}

\* The file system writes the directory when it likes.
FlushDirectory ==
  /\ disk' \in ReachDisk
  /\ UNCHANGED <<file, synced, callVars, issued, reported>>

AllCallsEnd == pc' = [c \in Callers |-> "idle"] /\ mu' = Free

Crash ==
  /\ AllCallsEnd
  /\ UNCHANGED <<fileVars, upd, local, flushed, issued, reported>>

PowerFailure ==
  /\ PowerMayFail
  /\ AllCallsEnd
  /\ file' \in ReachDisk \cup {disk} /\ disk' = file' /\ synced' = TRUE
  /\ UNCHANGED <<upd, local, flushed, issued, reported>>

Step(c) ==
  \/ Load(c) \/ Fail(c) \/ WriteTemp(c) \/ SyncTemp(c) \/ Rename(c) \/ Return(c)

Next ==
  \/ \E c \in Callers : Step(c) \/ \E u \in Updates : Begin(c, u)
  \/ FlushDirectory \/ Crash \/ PowerFailure

Spec == Init /\ [][Next]_vars

(* A call goes on, and one that waits for the mutex gets it.               *)
FairSpec == Spec /\ \A c \in Callers : SF_vars(Step(c))

-----------------------------------------------------------------------------
(* Properties.                                                             *)

\* Every field keeps its type; a call is between load and return iff it holds
\* the mutex (updateSettings, wcJournal.put).
TypeOK ==
  /\ file \in Contents /\ disk \in Contents /\ synced \in BOOLEAN
  /\ mu \in Callers \cup {Free}
  /\ pc \in [Callers -> {"idle", "load", "write", "sync", "rename", "return"}]
  /\ upd \in [Callers -> Updates] /\ local \in [Callers -> SUBSET Updates]
  /\ flushed \in [Callers -> BOOLEAN]
  /\ issued \subseteq Updates /\ reported \subseteq Updates
  /\ \A c \in Callers : pc[c] \notin {"idle", "load"} <=> mu = c

\* A reported update is in the file, whichever other updates, failures and
\* crashes there were (updateSettings: one atomic read-modify-write).
NoLostUpdate == file # Truncated /\ reported \subseteq file

\* The file parses, whenever the power fails (setSettingsLocked: an
\* interrupted write can never leave truncated JSON behind).
Readable == file # Truncated

\* Every call returns, so no path leaves the mutex held.
UpdatesEnd == \A c \in Callers : []<>(pc[c] = "idle")

\* Readers and callers see a register in which every update is one step.
Register == INSTANCE AtomicRegister WITH value <- file
ImplementsRegister == Register!Spec
=============================================================================
