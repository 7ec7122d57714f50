------------------------------ MODULE NodeStore ------------------------------
(***************************************************************************)
(* The node store (frontend/src/stores/node.ts): the node's status as it   *)
(* is pushed by events and pulled at every mount of the shell, and the     *)
(* sync frames of the embedded node's poller.                              *)
(*                                                                         *)
(* The backend's status is its version: every change is a new one.  What   *)
(* the backend sends, events and answers, arrives in the order it is sent. *)
(***************************************************************************)
EXTENDS Integers, SequencesExt

CONSTANTS
  Pulls,        \* calls of NodeStatus that may overlap
  MaxVersion, MaxWire, MaxMounts  \* bounds: status changes, messages under way, mounts

BoundsAssumption == MaxVersion \in Nat \ {0} /\ {MaxWire, MaxMounts} \subseteq Nat

VARIABLES
  version, mode, connected, silent,  \* the backend: silent when a change is not pushed yet
  pollers,                           \* sync pollers alive: "own", "dying"
  wire,                              \* messages under way
  shown, storeMode, statusSeq, sync, \* the store: version of its status, mode, _statusSeq, last frame
  listening, mounted, mounts,        \* _eventsInit, _onTick, mounts so far
  pulls, pushed                      \* the pulls, the last version a push brought

backend == <<version, mode, connected, silent, pollers>>
store == <<shown, storeMode, statusSeq, sync, listening, mounted, mounts>>
vars == <<backend, wire, store, pulls, pushed>>

NoPull == [pc |-> "none", seq |-> 0, version |-> 0, mode |-> "remote"]
NoSync == "none"

Init ==
  /\ version = 1 /\ mode \in {"remote", "embedded"} /\ connected = FALSE /\ silent = FALSE
  /\ pollers = {} /\ wire = <<>>
  /\ shown = 0 /\ storeMode = "remote" /\ statusSeq = 0 /\ sync = NoSync
  /\ listening = FALSE /\ mounted = FALSE /\ mounts = 0
  /\ pulls = [p \in Pulls |-> NoPull] /\ pushed = 0

-----------------------------------------------------------------------------
(* The backend.                                                            *)

Send(m) == Len(wire) < MaxWire /\ wire' = Append(wire, m)

Status(v, m) == [kind |-> "status", version |-> v, mode |-> m]

\* A change and its push are one critical section (emitStatusLocked).
Change(m, c) ==
  /\ version < MaxVersion /\ <<m, c>> # <<mode, connected>>
  /\ version' = version + 1 /\ mode' = m /\ connected' = c /\ silent' = FALSE
  /\ pollers' = IF connected /\ "own" \in pollers THEN (pollers \ {"own"}) \cup {"dying"} ELSE pollers
  /\ Send(Status(version', m))
  /\ UNCHANGED <<store, pulls, pushed>>

\* setNode drops the connection, and Connect sets the mode, before they emit.
ChangeSilently(m) ==
  /\ version < MaxVersion /\ ~silent
  /\ version' = version + 1 /\ mode' = m /\ connected' = FALSE /\ silent' = TRUE
  /\ pollers' = IF "own" \in pollers THEN (pollers \ {"own"}) \cup {"dying"} ELSE pollers
  /\ UNCHANGED <<wire, store, pulls, pushed>>

Push ==
  /\ silent /\ silent' = FALSE
  /\ Send(Status(version, mode))
  /\ UNCHANGED <<version, mode, connected, pollers, store, pulls, pushed>>

StartPoller ==
  /\ mode = "embedded" /\ connected /\ pollers' = pollers \cup {"own"} /\ pollers' # pollers
  /\ UNCHANGED <<version, mode, connected, silent, wire, store, pulls, pushed>>

\* A frame; a dying poller may have one under way.
SyncFrame(p, s) ==
  /\ p \in pollers
  /\ pollers' = pollers \ {"dying"}
  /\ Send([kind |-> "sync", state |-> s])
  /\ UNCHANGED <<version, mode, connected, silent, store, pulls, pushed>>

\* NodeStatus reads the fields under the lock, and its answer is sent after it.
ReadStatus(p) ==
  /\ pulls[p].pc = "called"
  /\ pulls' = [pulls EXCEPT ![p] = [@ EXCEPT !.pc = "read", !.version = version, !.mode = mode]]
  /\ UNCHANGED <<backend, wire, store, pushed>>

AnswerPull(p) ==
  /\ pulls[p].pc = "read"
  /\ pulls' = [pulls EXCEPT ![p].pc = "answered"]
  /\ Send([kind |-> "answer", pull |-> p])
  /\ UNCHANGED <<backend, store, pushed>>

-----------------------------------------------------------------------------
(* The store.                                                              *)

\* What applyStatus makes of the frame shown.
SyncAfter(m) == IF storeMode = "embedded" /\ m # "embedded" THEN NoSync ELSE sync

applyStatus(v, m) ==
  /\ shown' = v
  /\ sync' = SyncAfter(m)
  /\ storeMode' = m

\* Mutant: the mount only registers the listeners.
MountSilent(p) ==
  /\ ~mounted /\ mounts < MaxMounts
  /\ mounted' = TRUE /\ mounts' = mounts + 1 /\ listening' = TRUE
  /\ UNCHANGED <<pulls, backend, wire, shown, storeMode, statusSeq, sync, pushed>>

\* initEvents: a pull, the listeners once, and the tick of this mount.
Mount(p) ==
  /\ ~mounted /\ mounts < MaxMounts /\ pulls[p] = NoPull
  /\ mounted' = TRUE /\ mounts' = mounts + 1 /\ listening' = TRUE
  /\ pulls' = [pulls EXCEPT ![p] = [NoPull EXCEPT !.pc = "called", !.seq = statusSeq]]
  /\ UNCHANGED <<backend, wire, shown, storeMode, statusSeq, sync, pushed>>

clearTick ==
  /\ mounted /\ mounted' = FALSE
  /\ UNCHANGED <<backend, wire, shown, storeMode, statusSeq, sync, listening, mounts, pulls, pushed>>

Receive(kind) == wire # <<>> /\ Head(wire).kind = kind /\ wire' = Tail(wire)

OnStatus ==
  /\ Receive("status")
  /\ IF listening
     THEN /\ statusSeq' = statusSeq + 1 /\ pushed' = Head(wire).version
          /\ applyStatus(Head(wire).version, Head(wire).mode)
     ELSE UNCHANGED <<statusSeq, pushed, shown, storeMode, sync>>
  /\ UNCHANGED <<backend, listening, mounted, mounts, pulls>>

\* Mutant: frames are taken in any mode.
OnSyncAnyMode ==
  /\ Receive("sync")
  /\ sync' = IF listening THEN Head(wire).state ELSE sync
  /\ UNCHANGED <<backend, shown, storeMode, statusSeq, listening, mounted, mounts, pulls, pushed>>

\* Frames are dropped outside embedded mode.
OnSync ==
  /\ Receive("sync")
  /\ sync' = IF listening /\ storeMode = "embedded" THEN Head(wire).state ELSE sync
  /\ UNCHANGED <<backend, shown, storeMode, statusSeq, listening, mounted, mounts, pulls, pushed>>

\* Mutant: an answer is applied whatever was pushed meanwhile.
OnAnswerAnyway ==
  /\ Receive("answer")
  /\ LET p == Head(wire).pull IN
       applyStatus(pulls[p].version, pulls[p].mode) /\ pulls' = [pulls EXCEPT ![p] = NoPull]
  /\ UNCHANGED <<backend, statusSeq, listening, mounted, mounts, pushed>>

\* refreshStatus: an answer is dropped when a push landed during the call.
OnAnswer ==
  /\ Receive("answer")
  /\ LET p == Head(wire).pull IN
       /\ IF pulls[p].seq = statusSeq
          THEN applyStatus(pulls[p].version, pulls[p].mode)
          ELSE UNCHANGED <<shown, storeMode, sync>>
       /\ pulls' = [pulls EXCEPT ![p] = NoPull]
  /\ UNCHANGED <<backend, statusSeq, listening, mounted, mounts, pushed>>

Next ==
  \/ \E m \in {"remote", "embedded"} : ChangeSilently(m) \/ \E c \in BOOLEAN : Change(m, c)
  \/ Push \/ StartPoller
  \/ \E p \in {"own", "dying"}, s \in {"syncing", "synced"} : SyncFrame(p, s)
  \/ \E p \in Pulls : ReadStatus(p) \/ AnswerPull(p) \/ Mount(p)
  \/ clearTick \/ OnStatus \/ OnSync \/ OnAnswer

Spec == Init /\ [][Next]_vars

-----------------------------------------------------------------------------
(* Properties.                                                             *)

\* Every field keeps its type; no status is shown that was never the backend's.
TypeOK ==
  /\ version \in 1..MaxVersion /\ shown \in 0..version /\ pushed \in 0..version
  /\ {mode, storeMode} \subseteq {"remote", "embedded"} /\ sync \in {NoSync, "syncing", "synced"}
  /\ {connected, silent, listening, mounted} \subseteq BOOLEAN /\ pollers \subseteq {"own", "dying"}
  /\ pulls \in [Pulls -> [pc : {"none", "called", "read", "answered"}, seq : 0..statusSeq,
                          version : 0..version, mode : {"remote", "embedded"}]]

\* Nothing older than a status that was pushed is shown: an answer under way
\* does not bring back the old chain (refreshStatus).
PushWins == shown >= pushed

\* When nothing is under way, the store that listens shows the backend's
\* status, although what was pushed before it listened is lost (initEvents).
ShowsTheNode ==
  listening /\ wire = <<>> /\ ~silent /\ (\A p \in Pulls : pulls[p] = NoPull)
    => shown = version /\ storeMode = mode

\* No sync progress stays on show outside embedded mode, however the frames of
\* a dying poller and the switch of the mode arrive (applyStatus, node:sync).
NoSyncOutsideEmbedded == storeMode # "embedded" => sync = NoSync
=============================================================================
