------------------------------- MODULE TxStore -------------------------------
(***************************************************************************)
(* The store behind every confirmation dialog (frontend/src/stores/tx.ts)  *)
(* against TxService's one hold slot (app/tx_service.go), in between an    *)
(* asynchronous binding: a call runs in the backend some time after it was *)
(* made, and its answer arrives some time after it ran.                    *)
(*                                                                         *)
(* A preview is its hold id, 0 for none.  prepareToken is compared with    *)
(* the copy of one running prepare only, so the model keeps the call whose *)
(* copy is current.                                                        *)
(***************************************************************************)
EXTENDS Integers, Sequences

CONSTANTS
  Callers, Nobody,
  Flows,                  \* who prepares: the Transfer page, the panels
  MaxHolds, MaxSessions,  \* bounds
  PressesAgain,           \* whether Send is pressed while a press is releasing a hold
  LeavesPublishing,       \* whether the user navigates while a block is published
  AnswersLost,            \* whether a published block's answer may be lost
  AnswersOvertake         \* whether an answer may arrive before an older one

NobodyAssumption == Nobody \notin Callers
FlowsAssumption == Flows \subseteq {"send", "panel"}
BoundsAssumption == {MaxHolds, MaxSessions} \subseteq Nat
FaultAssumption == {PressesAgain, LeavesPublishing, AnswersLost, AnswersOvertake} \subseteq BOOLEAN

VARIABLES
  status, preview, hash,  \* the store's state
  latest,                 \* the prepare whose token is current, or Nobody
  calls,                  \* each binding call of the store that it awaits
  answered,               \* the calls that ran and whose answer is on its way
  cancels,                \* holds of the CancelPending calls on their way
  pending, publishingHold, holdCounter,   \* TxService
  onChain,                \* holds whose block the network has
  sessions                \* session changes so far

store == <<status, preview, hash, latest>>
backend == <<pending, publishingHold, holdCounter, onChain, sessions>>
bindings == <<calls, answered, cancels>>
vars == <<store, bindings, backend>>

Holds == 1..MaxHolds
Idle == [pc |-> "idle", flow |-> "send", hold |-> 0]

Init ==
  /\ status = "idle" /\ preview = 0 /\ hash = 0 /\ latest = Nobody
  /\ calls = [c \in Callers |-> Idle]
  /\ answered = <<>> /\ cancels = {}
  /\ pending = 0 /\ publishingHold = 0 /\ holdCounter = 0
  /\ onChain = {} /\ sessions = 0

Start(c, pc, flow, h) ==
  /\ calls' = [calls EXCEPT ![c] = [pc |-> pc, flow |-> flow, hold |-> h]]
  /\ UNCHANGED answered
Answer(c, pc, h) ==
  /\ calls' = [calls EXCEPT ![c].pc = pc, ![c].hold = h]
  /\ answered' = Append(answered, c)
Arrives(c) ==
  /\ \E i \in DOMAIN answered :
       /\ answered[i] = c /\ (i = 1 \/ AnswersOvertake)
       /\ answered' = SubSeq(answered, 1, i - 1) \o SubSeq(answered, i + 1, Len(answered))
Return(c) == Arrives(c) /\ calls' = [calls EXCEPT ![c] = Idle]

-----------------------------------------------------------------------------
(* TxService, as its callers see it.                                       *)

\* Both prepares end in holdPending, which takes the slot only when empty.
BackendPrepares(c) ==
  /\ calls[c].pc = "prepare"
  /\ \/ /\ pending = 0 /\ holdCounter < MaxHolds
        /\ holdCounter' = holdCounter + 1 /\ pending' = holdCounter'
        /\ Answer(c, "held", holdCounter')
     \/ Answer(c, "refused", 0) /\ UNCHANGED <<pending, holdCounter>>
  /\ UNCHANGED <<store, cancels, publishingHold, onChain, sessions>>

ConfirmPublish(c) ==
  /\ calls[c].pc = "confirm"
  /\ IF publishingHold = 0 /\ pending = calls[c].hold
     THEN publishingHold' = pending /\ Start(c, "publish", "send", pending)
     ELSE UNCHANGED publishingHold /\ Answer(c, "failed", calls[c].hold)
  /\ UNCHANGED <<store, cancels, pending, holdCounter, onChain, sessions>>

ClearPendingIf(h) == pending' = IF pending = h THEN 0 ELSE pending

\* A guard, the policy, the node or the chain refuses and keeps the hold.
PublishRefused(c) ==
  /\ calls[c].pc = "publish"
  /\ publishingHold' = 0 /\ Answer(c, "failed", calls[c].hold)
  /\ UNCHANGED <<store, cancels, pending, holdCounter, onChain, sessions>>

\* The session, the signing, the PoW or the node's answer ends the hold.
PublishFails(c) ==
  /\ calls[c].pc = "publish"
  /\ \/ UNCHANGED onChain
     \/ AnswersLost /\ onChain' = onChain \cup {calls[c].hold}
  /\ ClearPendingIf(calls[c].hold)
  /\ publishingHold' = 0 /\ Answer(c, "failed", calls[c].hold)
  /\ UNCHANGED <<store, cancels, holdCounter, sessions>>

\* The generation check and the broadcast are one step (TxService has them apart).
Publishes(c) ==
  /\ calls[c].pc = "publish" /\ pending = calls[c].hold
  /\ onChain' = onChain \cup {calls[c].hold}
  /\ ClearPendingIf(calls[c].hold)
  /\ publishingHold' = 0 /\ Answer(c, "published", calls[c].hold)
  /\ UNCHANGED <<store, cancels, holdCounter, sessions>>

CancelPending(h) ==
  /\ h \in cancels
  /\ cancels' = cancels \ {h}
  /\ IF publishingHold = h THEN UNCHANGED pending ELSE ClearPendingIf(h)
  /\ \/ \E c \in Callers : calls[c].pc = "release" /\ calls[c].hold = h /\ Answer(c, "released", h)
     \/ (\A c \in Callers : calls[c].pc = "release" => calls[c].hold # h) /\ UNCHANGED <<calls, answered>>
  /\ UNCHANGED <<store, publishingHold, holdCounter, onChain, sessions>>

\* A lock or an account switch drops the hold.
SessionChange ==
  /\ sessions < MaxSessions
  /\ sessions' = sessions + 1
  /\ pending' = 0
  /\ UNCHANGED <<store, bindings, publishingHold, holdCounter, onChain>>

-----------------------------------------------------------------------------
(* The store.                                                              *)

\* A mutant for the model checker: the reset forgets the status.
ResetPreview == preview' = 0 /\ hash' = 0 /\ latest' = Nobody /\ UNCHANGED status

Reset == status' = "idle" /\ preview' = 0 /\ hash' = 0 /\ latest' = Nobody

Prepare(c) ==
  /\ status' = "preparing" /\ preview' = 0 /\ hash' = 0 /\ latest' = c
  /\ calls' = [calls EXCEPT ![c] = [pc |-> "prepare", flow |-> "send", hold |-> 0]]

Release(h) == cancels' = IF h = 0 THEN cancels ELSE cancels \cup {h}

\* The Transfer page's form; an error that owns a hold releases it first, and
\* waits for the answer.
Send(c) ==
  /\ "send" \in Flows /\ calls[c] = Idle
  /\ PressesAgain \/ \A d \in Callers : calls[d].pc \notin {"release", "released"}
  /\ \/ /\ status \in {"idle", "error"} /\ preview = 0
        /\ Prepare(c) /\ UNCHANGED <<answered, cancels>>
     \/ status = "error" /\ preview # 0 /\ Release(preview) /\ Reset /\ Start(c, "release", "send", preview)
  /\ UNCHANGED backend

SendAfterRelease(c) ==
  /\ calls[c].pc = "released" /\ Arrives(c)
  /\ Prepare(c)
  /\ UNCHANGED <<cancels, backend>>

\* A mutant: a stale prepare takes the dialog.
Preparing(c) == status = "preparing" /\ c \in Callers

Owned(c) == latest = c /\ status = "preparing"

\* A mutant: a prepare that lost the dialog is just dropped.
PreparedOrDropped(c) ==
  /\ calls[c].pc = "held" /\ calls[c].flow = "send"
  /\ Return(c)
  /\ IF Owned(c)
     THEN status' = "awaiting" /\ preview' = calls[c].hold /\ UNCHANGED <<hash, latest>>
     ELSE UNCHANGED store
  /\ UNCHANGED <<cancels, backend>>

\* A prepare that lost the dialog releases its hold.
Prepared(c) ==
  /\ calls[c].pc = "held" /\ calls[c].flow = "send"
  /\ Return(c)
  /\ IF Owned(c)
     THEN status' = "awaiting" /\ preview' = calls[c].hold /\ UNCHANGED <<hash, latest, cancels>>
     ELSE Release(calls[c].hold) /\ UNCHANGED store
  /\ UNCHANGED backend

PrepareFailed(c) ==
  /\ calls[c].pc = "refused" /\ calls[c].flow = "send"
  /\ Return(c)
  /\ IF Owned(c) THEN status' = "error" ELSE UNCHANGED status
  /\ UNCHANGED <<preview, hash, latest, cancels, backend>>

\* A panel's button; the dialog covers the panels while it is open.
Panel(c) ==
  /\ "panel" \in Flows /\ calls[c] = Idle /\ status = "idle"
  /\ Start(c, "prepare", "panel", 0)
  /\ UNCHANGED <<store, cancels, backend>>

AwaitConfirm(c) ==
  /\ calls[c].pc = "held" /\ calls[c].flow = "panel"
  /\ status' = "awaiting" /\ preview' = calls[c].hold /\ hash' = 0
  /\ Return(c)
  /\ UNCHANGED <<latest, cancels, backend>>

PanelFailed(c) ==
  /\ calls[c].pc = "refused" /\ calls[c].flow = "panel"
  /\ Return(c)
  /\ UNCHANGED <<store, cancels, backend>>

Confirm(c) ==
  /\ status = "awaiting" /\ calls[c] = Idle
  /\ status' = "publishing"
  /\ Start(c, "confirm", "send", preview)
  /\ UNCHANGED <<preview, hash, latest, cancels, backend>>

OwnedBy(h) == status = "publishing" /\ preview = h
\* A mutant: only the dialog that asked shows the success.
NotOwned(h) == ~OwnedBy(h)
NewerActive(h) == ~OwnedBy(h) /\ status \in {"preparing", "awaiting", "publishing"}

\* A success is shown even after a reset, unless a newer dialog is up.
Published(c) ==
  LET h == calls[c].hold IN
  /\ calls[c].pc = "published"
  /\ Return(c)
  /\ IF NewerActive(h) THEN UNCHANGED store
     ELSE status' = "done" /\ hash' = h /\ preview' = 0 /\ UNCHANGED latest
  /\ UNCHANGED <<cancels, backend>>

\* A mutant: the failure of a publication is dropped.
ConfirmDropped(c) ==
  /\ calls[c].pc = "failed"
  /\ Return(c)
  /\ UNCHANGED <<store, cancels, backend>>

\* A failure is shown only by the dialog it belongs to.
ConfirmFailed(c) ==
  /\ calls[c].pc = "failed"
  /\ Return(c)
  /\ IF OwnedBy(calls[c].hold) THEN status' = "error" ELSE UNCHANGED status
  /\ UNCHANGED <<preview, hash, latest, cancels, backend>>

\* A mutant: an error is closed without releasing its hold.
DiscardAwaiting ==
  /\ status \in {"awaiting", "error"}
  /\ Release(IF status = "awaiting" THEN preview ELSE 0) /\ Reset
  /\ UNCHANGED <<calls, answered, backend>>

Discard ==
  /\ status \in {"awaiting", "error"}
  /\ Release(preview) /\ Reset
  /\ UNCHANGED <<calls, answered, backend>>

CloseResult ==
  /\ status = "done" /\ Reset
  /\ UNCHANGED <<bindings, backend>>

\* The router's afterEach: a reset where nothing seems to be held.
Navigate ==
  /\ status \in {"preparing", "publishing"}
  /\ status = "publishing" => LeavesPublishing
  /\ Reset
  /\ UNCHANGED <<bindings, backend>>

-----------------------------------------------------------------------------
Runs(c) ==
  \/ BackendPrepares(c) \/ ConfirmPublish(c) \/ PublishRefused(c) \/ PublishFails(c) \/ Publishes(c)

Answers(c) ==
  \/ SendAfterRelease(c) \/ Prepared(c) \/ PrepareFailed(c)
  \/ AwaitConfirm(c) \/ PanelFailed(c) \/ Published(c) \/ ConfirmFailed(c)

User(c) == Send(c) \/ Panel(c) \/ Confirm(c)

Next ==
  \/ \E c \in Callers : Runs(c) \/ Answers(c) \/ User(c)
  \/ \E h \in Holds : CancelPending(h)
  \/ SessionChange \/ Discard \/ CloseResult \/ Navigate

Spec == Init /\ [][Next]_vars

(* A call that was made runs, and its answer arrives.                      *)
FairSpec ==
  /\ Spec
  /\ \A c \in Callers : WF_vars(Runs(c)) /\ WF_vars(Answers(c))
  /\ \A h \in Holds : WF_vars(CancelPending(h))

-----------------------------------------------------------------------------
(* Properties.                                                             *)

Pcs ==
  {"idle", "release", "released", "prepare", "held", "refused", "confirm", "publish", "published", "failed"}

\* Every field keeps its type, and a dialog that asks has something to ask:
\* a preview is up exactly while a user may confirm it, waits for its outcome
\* or may release it (tx.ts).
TypeOK ==
  /\ status \in {"idle", "preparing", "awaiting", "publishing", "done", "error"}
  /\ preview \in 0..MaxHolds /\ hash \in 0..MaxHolds
  /\ latest \in Callers \cup {Nobody}
  /\ calls \in [Callers -> [pc : Pcs, flow : {"send", "panel"}, hold : 0..MaxHolds]]
  /\ answered \in Seq(Callers) /\ cancels \subseteq Holds /\ onChain \subseteq Holds
  /\ pending \in 0..MaxHolds /\ publishingHold \in 0..MaxHolds
  /\ holdCounter \in 0..MaxHolds /\ sessions \in 0..MaxSessions
  /\ status \in {"awaiting", "publishing"} => preview # 0

Quiet == (\A c \in Callers : calls[c] = Idle) /\ cancels = {}

\* When no call is under way and no dialog owns one, no hold is left in the
\* slot: it would refuse every later transaction (holdPending; router's
\* afterEach: both must release it by identity).
NoStrandedHold == Quiet /\ status \in {"idle", "done"} => pending = 0

\* A dialog that asks for a confirmation shows the slot's block, or one that a
\* session change dropped: another block is in the slot only while the stale
\* prepare that made it is on its way to release it (prepare: the slot would
\* diverge from whatever a dialog is displaying).
Orphans == cancels \cup {calls[c].hold : c \in {d \in Callers : calls[d].pc = "held" /\ latest # d}}
DialogIsSlot == status = "awaiting" => pending \in {preview, 0} \cup Orphans

PublishedSurfacesStep ==
  \A c \in Callers : calls[c].pc = "published" /\ calls'[c] = Idle =>
    \/ status' = "done" /\ hash' = calls[c].hold
    \/ status' \in {"preparing", "awaiting", "publishing"} /\ preview' # calls[c].hold

\* An outcome the user has to know is not hidden: the answer of a published
\* block is shown, or another transaction is being shown (confirm).
PublishedSurfaces == [][PublishedSurfacesStep]_vars

\* A failure is reported only for a block that did not reach the chain
\* (confirm: Nothing happened on-chain).
ErrorMeansNothing == status = "error" => preview \notin onChain

\* A dialog that prepares or publishes comes to an end.
Settles == []<>(status \notin {"preparing", "publishing"})
=============================================================================
