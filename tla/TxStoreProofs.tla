---------------------------- MODULE TxStoreProofs ----------------------------
(***************************************************************************)
(* Proofs about stores of the user interface: TxStore (tx.ts), for every   *)
(* number of calls, holds and session changes, with answers that overtake  *)
(* each other and answers that are lost; UnreceivedStore (unreceived.ts),  *)
(* for any accounts, blocks, refreshers and switches; TxHistory (txs.ts),  *)
(* for any histories, caps and turns; and NodeStore (node.ts), for any     *)
(* number of statuses, pulls and mounts.                                   *)
(*                                                                         *)
(* Each hold has one place: Once says that no two calls work on the same   *)
(* hold and none on the one a dialog asks about, whoever prepares and      *)
(* leaves.  Under OneDialog, the Transfer page whose user waits for a      *)
(* publication to end, a call past its confirmation has its dialog up      *)
(* (Confirming), and the hold in the slot always has somebody who will     *)
(* release it (Accounted).                                                 *)
(*                                                                         *)
(* UnreceivedStore: rows of an account that was left have the shell's      *)
(* refresh to come, under way or due once more (RowsInv).  TxHistory: a    *)
(* current fetch that is alone is for the chunk that is next, so the       *)
(* buffer grows in order (FetchesInv, BufferInv); once two overlap, mixed  *)
(* says so until a load lands alone.  NodeStore: statuses arrive in the    *)
(* order they were sent                                                    *)
(* (WireInv), and the answer of a pull is current or a push follows it     *)
(* (PullInv).                                                              *)
(***************************************************************************)
EXTENDS TxStore, SequenceTheorems, TLAPS

StoreAssumption ==
  NobodyAssumption /\ FlowsAssumption /\ BoundsAssumption /\ FaultAssumption

\* The Transfer page alone, whose user waits for a press and a publication.
OneDialog == "panel" \notin Flows /\ ~PressesAgain /\ ~LeavesPublishing

-----------------------------------------------------------------------------
(* The inductive invariant.                                                *)

\* The calls that work on a hold, and those after its confirmation.
Confirmed == {"confirm", "publish", "published", "failed"}
Working == Confirmed \cup {"held"}

CallType == [pc : Pcs, flow : {"send", "panel"}, hold : 0..MaxHolds]

\* No hold is older than its number.
Counted ==
  /\ preview <= holdCounter /\ pending <= holdCounter
  /\ \A c \in Callers :
       /\ calls[c].hold <= holdCounter
       /\ calls[c].pc \in Working => calls[c].hold # 0

\* A hold is worked on by one call, and by none while a dialog asks about it.
Once ==
  /\ \A c, d \in Callers :
       calls[c].pc \in Working /\ calls[d].pc \in Working /\ calls[c].hold = calls[d].hold
         => c = d
  /\ status = "awaiting" => \A c \in Callers : calls[c].pc \in Working => calls[c].hold # preview
  /\ status = "preparing" => preview = 0

Inv == TypeOK /\ Counted /\ Once

\* A confirmation under way is the dialog's.
Confirming ==
  \A c \in Callers : calls[c].pc \in Confirmed => status = "publishing" /\ preview = calls[c].hold

\* A press that releases a hold is the only one, and no dialog is up.
Releasing ==
  \A c \in Callers : calls[c].pc \in {"release", "released"} =>
    /\ status = "idle" /\ preview = 0
    /\ \A d \in Callers : calls[d].pc \in {"release", "released"} => c = d

\* The prepare that owns the dialog shows it.
Owning ==
  \A c \in Callers :
    /\ calls[c].flow = "send"
    /\ latest = c /\ calls[c].pc \in {"prepare", "held", "refused"} => status = "preparing"

\* The latch is a publication's, and what was published is out of the slot.
Latched ==
  /\ publishingHold # 0 =>
       \E c \in Callers : calls[c].pc = "publish" /\ calls[c].hold = publishingHold
  /\ \A c \in Callers : calls[c].pc = "published" => calls[c].hold # pending

\* The hold in the slot is being released, on its way to the store or shown.
Accounted ==
  pending # 0 =>
    \/ pending \in cancels
    \/ \E c \in Callers : calls[c].pc = "held" /\ calls[c].hold = pending
    \/ preview = pending /\ status \in {"awaiting", "publishing", "error"}

DialogInv == Inv /\ Confirming /\ Releasing /\ Owning /\ Latched /\ Accounted

HoldType ==
  /\ cancels \subseteq Holds /\ onChain \subseteq Holds
  /\ pending \in 0..MaxHolds /\ publishingHold \in 0..MaxHolds
  /\ holdCounter \in 0..MaxHolds /\ sessions \in 0..MaxSessions
ShownType ==
  /\ status \in {"idle", "preparing", "awaiting", "publishing", "done", "error"}
  /\ preview \in 0..MaxHolds /\ hash \in 0..MaxHolds /\ latest \in Callers \cup {Nobody}
  /\ status \in {"awaiting", "publishing"} => preview # 0

-----------------------------------------------------------------------------
(* The types.                                                              *)

\* What TypeOK says of the calls.
LEMMA CallTypes ==
  ASSUME TypeOK
  PROVE  calls \in [Callers -> CallType]
BY DEF TypeOK, CallType

\* The bounds are numbers, so the holds are.
LEMMA HoldTypes ==
  ASSUME StoreAssumption, TypeOK
  PROVE  /\ MaxHolds \in Nat /\ MaxSessions \in Nat /\ Nobody \notin Callers
         /\ preview \in Nat /\ pending \in Nat /\ holdCounter \in Nat /\ publishingHold \in Nat
         /\ \A c \in Callers : calls[c].hold \in Nat
BY DEF StoreAssumption, NobodyAssumption, BoundsAssumption, TypeOK

\* A queue of answers stays one when an answer arrives, from any place in it.
LEMMA QueueWithout ==
  ASSUME NEW s \in Seq(Callers), NEW i \in DOMAIN s
  PROVE  SubSeq(s, 1, i - 1) \o SubSeq(s, i + 1, Len(s)) \in Seq(Callers)
<1>1. i \in 1..Len(s) /\ Len(s) \in Nat
  BY LenProperties
<1>2. SubSeq(s, 1, i - 1) \in Seq(Callers) /\ SubSeq(s, i + 1, Len(s)) \in Seq(Callers)
  BY <1>1, SubSeqProperties
<1> QED
  BY <1>2, ConcatProperties

\* Answers are of calls, whatever order they arrive in.
LEMMA QueueStep ==
  ASSUME TypeOK, [Next]_vars
  PROVE  answered' \in Seq(Callers)
<1> USE DEF Start, Answer, Return
<1>a. answered \in Seq(Callers)
  BY DEF TypeOK
<1>b. ASSUME NEW c \in Callers PROVE Append(answered, c) \in Seq(Callers)
  BY <1>a, AppendProperties
<1>c. ASSUME NEW c, Arrives(c) PROVE answered' \in Seq(Callers)
  BY <1>a, <1>c, QueueWithout DEF Arrives
<1>1. ASSUME NEW c \in Callers, BackendPrepares(c) PROVE answered' \in Seq(Callers)
  BY <1>1, <1>a, <1>b, <1>c DEF BackendPrepares
<1>2. ASSUME NEW c \in Callers, ConfirmPublish(c) PROVE answered' \in Seq(Callers)
  BY <1>2, <1>a, <1>b, <1>c DEF ConfirmPublish
<1>3. ASSUME NEW c \in Callers, PublishRefused(c) PROVE answered' \in Seq(Callers)
  BY <1>3, <1>a, <1>b, <1>c DEF PublishRefused
<1>4. ASSUME NEW c \in Callers, PublishFails(c) PROVE answered' \in Seq(Callers)
  BY <1>4, <1>a, <1>b, <1>c DEF PublishFails
<1>5. ASSUME NEW c \in Callers, Publishes(c) PROVE answered' \in Seq(Callers)
  BY <1>5, <1>a, <1>b, <1>c DEF Publishes
<1>6. ASSUME NEW c \in Callers, SendAfterRelease(c) PROVE answered' \in Seq(Callers)
  BY <1>6, <1>a, <1>b, <1>c DEF SendAfterRelease
<1>7. ASSUME NEW c \in Callers, Prepared(c) PROVE answered' \in Seq(Callers)
  BY <1>7, <1>a, <1>b, <1>c DEF Prepared
<1>8. ASSUME NEW c \in Callers, PrepareFailed(c) PROVE answered' \in Seq(Callers)
  BY <1>8, <1>a, <1>b, <1>c DEF PrepareFailed
<1>9. ASSUME NEW c \in Callers, AwaitConfirm(c) PROVE answered' \in Seq(Callers)
  BY <1>9, <1>a, <1>b, <1>c DEF AwaitConfirm
<1>10. ASSUME NEW c \in Callers, PanelFailed(c) PROVE answered' \in Seq(Callers)
  BY <1>10, <1>a, <1>b, <1>c DEF PanelFailed
<1>11. ASSUME NEW c \in Callers, Published(c) PROVE answered' \in Seq(Callers)
  BY <1>11, <1>a, <1>b, <1>c DEF Published
<1>12. ASSUME NEW c \in Callers, ConfirmFailed(c) PROVE answered' \in Seq(Callers)
  BY <1>12, <1>a, <1>b, <1>c DEF ConfirmFailed
<1>13. ASSUME NEW c \in Callers, Send(c) PROVE answered' \in Seq(Callers)
  BY <1>13, <1>a, <1>b, <1>c DEF Send
<1>14. ASSUME NEW c \in Callers, Panel(c) PROVE answered' \in Seq(Callers)
  BY <1>14, <1>a, <1>b, <1>c DEF Panel
<1>15. ASSUME NEW c \in Callers, Confirm(c) PROVE answered' \in Seq(Callers)
  BY <1>15, <1>a, <1>b, <1>c DEF Confirm
<1>16. ASSUME NEW h \in Holds, CancelPending(h) PROVE answered' \in Seq(Callers)
  BY <1>16, <1>a, <1>b, <1>c DEF CancelPending
<1>17. CASE UNCHANGED answered
  BY <1>17, <1>a
<1> QED
  BY <1>1, <1>2, <1>3, <1>4, <1>5, <1>6, <1>7, <1>8, <1>9, <1>10, <1>11, <1>12, <1>13,
     <1>14, <1>15, <1>16, <1>17
     DEF Next, Runs, Answers, User, vars, store, backend, bindings, SessionChange, Discard,
         CloseResult, Navigate

\* An answer and a release keep the types.
LEMMA AnswerTypes ==
  ASSUME TypeOK, NEW c \in Callers, NEW p \in Pcs, NEW h \in 0..MaxHolds, Answer(c, p, h)
  PROVE  calls' \in [Callers -> CallType]
BY CallTypes DEF Answer, CallType

\* A release under way is of a hold.
LEMMA ReleaseTypes ==
  ASSUME TypeOK, MaxHolds \in Nat, NEW h \in 0..MaxHolds, Release(h)
  PROVE  cancels' \subseteq Holds
<1>1. h # 0 => h \in Holds
  BY DEF Holds
<1> QED
  BY <1>1 DEF Release, TypeOK

\* A call stays a call.
LEMMA CallTypeStep ==
  ASSUME StoreAssumption, TypeOK, [Next]_vars
  PROVE  calls' \in [Callers -> CallType]
<1> USE DEF Start, Answer, Return, Idle, Prepare, CallType, Pcs
<1>a. calls \in [Callers -> CallType]
  BY CallTypes
<1>b. /\ MaxHolds \in Nat /\ preview \in 0..MaxHolds /\ pending \in 0..MaxHolds
      /\ holdCounter \in 0..MaxHolds /\ publishingHold \in 0..MaxHolds
  BY HoldTypes DEF TypeOK
<1>1. ASSUME NEW c \in Callers, BackendPrepares(c) PROVE calls' \in [Callers -> CallType]
  <2>1. CASE Answer(c, "refused", 0)
    <3> HIDE DEF Answer
    <3> QED
      BY <1>b, <2>1, AnswerTypes DEF Pcs
  <2>2. CASE holdCounter < MaxHolds /\ Answer(c, "held", holdCounter + 1)
    <3>1. holdCounter + 1 \in 0..MaxHolds
      BY <1>b, <2>2
    <3> QED
      BY <2>2, <3>1, AnswerTypes DEF Pcs
  <2> QED
    BY <1>1, <2>1, <2>2 DEF BackendPrepares
<1>2. ASSUME NEW c \in Callers, ConfirmPublish(c) PROVE calls' \in [Callers -> CallType]
  BY <1>2, <1>a, <1>b DEF ConfirmPublish
<1>3. ASSUME NEW c \in Callers, PublishRefused(c) PROVE calls' \in [Callers -> CallType]
  BY <1>3, <1>a, <1>b DEF PublishRefused
<1>4. ASSUME NEW c \in Callers, PublishFails(c) PROVE calls' \in [Callers -> CallType]
  BY <1>4, <1>a, <1>b DEF PublishFails
<1>5. ASSUME NEW c \in Callers, Publishes(c) PROVE calls' \in [Callers -> CallType]
  BY <1>5, <1>a, <1>b DEF Publishes
<1>6. ASSUME NEW c \in Callers, SendAfterRelease(c) PROVE calls' \in [Callers -> CallType]
  BY <1>6, <1>a, <1>b DEF SendAfterRelease
<1>7. ASSUME NEW c \in Callers, Prepared(c) PROVE calls' \in [Callers -> CallType]
  BY <1>7, <1>a, <1>b DEF Prepared
<1>8. ASSUME NEW c \in Callers, PrepareFailed(c) PROVE calls' \in [Callers -> CallType]
  BY <1>8, <1>a, <1>b DEF PrepareFailed
<1>9. ASSUME NEW c \in Callers, AwaitConfirm(c) PROVE calls' \in [Callers -> CallType]
  BY <1>9, <1>a, <1>b DEF AwaitConfirm
<1>10. ASSUME NEW c \in Callers, PanelFailed(c) PROVE calls' \in [Callers -> CallType]
  BY <1>10, <1>a, <1>b DEF PanelFailed
<1>11. ASSUME NEW c \in Callers, Published(c) PROVE calls' \in [Callers -> CallType]
  BY <1>11, <1>a, <1>b DEF Published
<1>12. ASSUME NEW c \in Callers, ConfirmFailed(c) PROVE calls' \in [Callers -> CallType]
  BY <1>12, <1>a, <1>b DEF ConfirmFailed
<1>13. ASSUME NEW c \in Callers, Send(c) PROVE calls' \in [Callers -> CallType]
  BY <1>13, <1>a, <1>b DEF Send
<1>14. ASSUME NEW c \in Callers, Panel(c) PROVE calls' \in [Callers -> CallType]
  BY <1>14, <1>a, <1>b DEF Panel
<1>15. ASSUME NEW c \in Callers, Confirm(c) PROVE calls' \in [Callers -> CallType]
  BY <1>15, <1>a, <1>b DEF Confirm
<1>16. ASSUME NEW h \in Holds, CancelPending(h) PROVE calls' \in [Callers -> CallType]
  <2>1. CASE UNCHANGED calls
    BY <1>a, <2>1
  <2>2. ASSUME NEW c \in Callers, Answer(c, "released", h) PROVE calls' \in [Callers -> CallType]
    <3> HIDE DEF Answer
    <3> QED
      BY <1>b, <2>2, AnswerTypes DEF Pcs, Holds
  <2> QED
    BY <1>16, <2>1, <2>2 DEF CancelPending
<1>17. CASE UNCHANGED calls
  BY <1>17, <1>a
<1> QED
  BY <1>1, <1>2, <1>3, <1>4, <1>5, <1>6, <1>7, <1>8, <1>9, <1>10, <1>11, <1>12, <1>13,
     <1>14, <1>15, <1>16, <1>17
     DEF Next, Runs, Answers, User, vars, store, backend, bindings, SessionChange, Discard,
         CloseResult, Navigate

\* The slot, the latch and the counter stay within the bound.
LEMMA HoldTypeStep ==
  ASSUME StoreAssumption, TypeOK, Counted, [Next]_vars
  PROVE  HoldType'
<1> USE DEF HoldType, Working, Confirmed, Release, ClearPendingIf, Holds, store, bindings,
         backend, Start, Answer, Return, Idle
<1>a. calls \in [Callers -> CallType]
  BY CallTypes
<1>b. /\ MaxHolds \in Nat /\ preview \in 0..MaxHolds /\ pending \in 0..MaxHolds
      /\ holdCounter \in 0..MaxHolds /\ publishingHold \in 0..MaxHolds
  BY HoldTypes DEF TypeOK
<1>c. /\ HoldType /\ MaxSessions \in Nat
      /\ \A c \in Callers : calls[c].hold \in 0..MaxHolds
      /\ \A c \in Callers : calls[c].pc \in Working => calls[c].hold \in Holds
  BY HoldTypes, <1>a, <1>b DEF HoldType, TypeOK, CallType, Counted, Holds
<1>1. ASSUME NEW c \in Callers, BackendPrepares(c) PROVE HoldType'
  BY <1>1, <1>b, <1>c DEF BackendPrepares
<1>2. ASSUME NEW c \in Callers, ConfirmPublish(c) PROVE HoldType'
  BY <1>2, <1>b, <1>c DEF ConfirmPublish
<1>3. ASSUME NEW c \in Callers, PublishRefused(c) PROVE HoldType'
  BY <1>3, <1>b, <1>c DEF PublishRefused
<1>4. ASSUME NEW c \in Callers, PublishFails(c) PROVE HoldType'
  BY <1>4, <1>b, <1>c DEF PublishFails
<1>5. ASSUME NEW c \in Callers, Publishes(c) PROVE HoldType'
  BY <1>5, <1>b, <1>c DEF Publishes
<1>6. ASSUME NEW c \in Callers, Prepared(c) PROVE HoldType'
  <2>1. cancels' \subseteq Holds
    BY <1>6, <1>b, <1>c, ReleaseTypes DEF Prepared
  <2> QED
    BY <1>6, <1>b, <1>c, <2>1 DEF Prepared
<1>7. ASSUME NEW c \in Callers, Send(c) PROVE HoldType'
  <2>1. cancels' \subseteq Holds
    BY <1>7, <1>b, <1>c, ReleaseTypes DEF Send
  <2> QED
    BY <1>7, <1>b, <1>c, <2>1 DEF Send
<1>8. ASSUME NEW h \in Holds, CancelPending(h) PROVE HoldType'
  BY <1>8, <1>b, <1>c DEF CancelPending
<1>9. CASE SessionChange
  BY <1>9, <1>b, <1>c DEF SessionChange
<1>10. CASE Discard
  BY <1>10, <1>b, <1>c DEF Discard
<1>11. CASE UNCHANGED <<pending, publishingHold, holdCounter, cancels, onChain, sessions>>
  BY <1>11, <1>c
<1> QED
  BY <1>1, <1>2, <1>3, <1>4, <1>5, <1>6, <1>7, <1>8, <1>9, <1>10, <1>11
     DEF Next, Runs, Answers, User, vars, store, backend, bindings, SendAfterRelease,
         PrepareFailed, AwaitConfirm, PanelFailed, Published, ConfirmFailed, Panel, Confirm,
         CloseResult, Navigate

\* What the dialog shows stays within the types, and it asks about a hold.
LEMMA ShownTypeStep ==
  ASSUME StoreAssumption, TypeOK, Counted, [Next]_vars
  PROVE  ShownType'
<1> USE DEF ShownType, Counted, Working, Confirmed, Prepare, Reset, store, bindings,
         backend, Start, Answer, Return, Idle
<1>a. calls \in [Callers -> CallType]
  BY CallTypes
<1>b. /\ MaxHolds \in Nat /\ preview \in 0..MaxHolds /\ pending \in 0..MaxHolds
      /\ holdCounter \in 0..MaxHolds /\ publishingHold \in 0..MaxHolds
  BY HoldTypes DEF TypeOK
<1>c. ShownType /\ \A c \in Callers : calls[c].hold \in 0..MaxHolds
  BY <1>a DEF ShownType, TypeOK, CallType
<1>1. ASSUME NEW c \in Callers, SendAfterRelease(c) PROVE ShownType'
  BY <1>1, <1>b, <1>c DEF SendAfterRelease
<1>2. ASSUME NEW c \in Callers, Prepared(c) PROVE ShownType'
  BY <1>2, <1>b, <1>c DEF Prepared
<1>3. ASSUME NEW c \in Callers, PrepareFailed(c) PROVE ShownType'
  BY <1>3, <1>b, <1>c DEF PrepareFailed
<1>4. ASSUME NEW c \in Callers, AwaitConfirm(c) PROVE ShownType'
  BY <1>4, <1>b, <1>c DEF AwaitConfirm
<1>5. ASSUME NEW c \in Callers, Published(c) PROVE ShownType'
  BY <1>5, <1>b, <1>c DEF Published
<1>6. ASSUME NEW c \in Callers, ConfirmFailed(c) PROVE ShownType'
  BY <1>6, <1>b, <1>c DEF ConfirmFailed
<1>7. ASSUME NEW c \in Callers, Send(c) PROVE ShownType'
  BY <1>7, <1>b, <1>c DEF Send
<1>8. ASSUME NEW c \in Callers, Confirm(c) PROVE ShownType'
  BY <1>8, <1>b, <1>c DEF Confirm
<1>9. CASE Discard
  BY <1>9, <1>b, <1>c DEF Discard
<1>10. CASE CloseResult
  BY <1>10, <1>b, <1>c DEF CloseResult
<1>11. CASE Navigate
  BY <1>11, <1>b, <1>c DEF Navigate
<1>12. CASE UNCHANGED <<status, preview, hash, latest>>
  BY <1>12, <1>c
<1> QED
  BY <1>1, <1>2, <1>3, <1>4, <1>5, <1>6, <1>7, <1>8, <1>9, <1>10, <1>11, <1>12
     DEF Next, Runs, Answers, User, vars, store, backend, bindings, BackendPrepares,
         ConfirmPublish, PublishRefused, PublishFails, Publishes, PanelFailed, Panel,
         CancelPending, SessionChange

-----------------------------------------------------------------------------
(* Every hold has one place.                                               *)

\* The backend takes the slot for a prepare and numbers the hold, or refuses.
LEMMA Prepares ==
  ASSUME TypeOK, NEW c \in Callers, BackendPrepares(c)
  PROVE  /\ calls[c].pc = "prepare" /\ calls'[c].flow = calls[c].flow
         /\ \A d \in Callers \ {c} : calls'[d] = calls[d]
         /\ UNCHANGED <<status, preview, latest, cancels, publishingHold>>
         /\ \/ /\ pending = 0 /\ pending' = holdCounter + 1 /\ holdCounter' = holdCounter + 1
               /\ calls'[c].pc = "held" /\ calls'[c].hold = holdCounter + 1
            \/ /\ UNCHANGED <<pending, holdCounter>>
               /\ calls'[c].pc = "refused" /\ calls'[c].hold = 0
<1> USE CallTypes DEF BackendPrepares, Answer, CallType, store
<1>1. /\ calls[c].pc = "prepare" /\ \A d \in Callers \ {c} : calls'[d] = calls[d]
      /\ calls'[c].flow = calls[c].flow
  OBVIOUS
<1>2. \/ /\ pending = 0 /\ pending' = holdCounter + 1 /\ holdCounter' = holdCounter + 1
         /\ calls'[c].pc = "held" /\ calls'[c].hold = holdCounter + 1
      \/ /\ UNCHANGED <<pending, holdCounter>>
         /\ calls'[c].pc = "refused" /\ calls'[c].hold = 0
  OBVIOUS
<1> QED
  BY <1>1, <1>2

\* It latches the hold it is asked to publish, or fails.
LEMMA Confirms ==
  ASSUME TypeOK, NEW c \in Callers, ConfirmPublish(c)
  PROVE  /\ calls[c].pc = "confirm" /\ calls'[c].hold = calls[c].hold
         /\ calls'[c].flow \in {"send", calls[c].flow}
         /\ \A d \in Callers \ {c} : calls'[d] = calls[d]
         /\ UNCHANGED <<status, preview, latest, cancels, pending, holdCounter>>
         /\ \/ /\ publishingHold' = pending /\ pending = calls[c].hold
               /\ calls'[c].pc = "publish"
            \/ UNCHANGED publishingHold /\ calls'[c].pc = "failed"
BY CallTypes DEF ConfirmPublish, Start, Answer, CallType, store

\* A cancel empties the slot of its hold, unless that is being published, and
\* answers the press that waits for it.
LEMMA Cancels ==
  ASSUME TypeOK, NEW h \in Holds, CancelPending(h)
  PROVE  /\ cancels' = cancels \ {h}
         /\ IF publishingHold = h \/ pending # h THEN UNCHANGED pending ELSE pending' = 0
         /\ UNCHANGED <<status, preview, latest, holdCounter, publishingHold>>
         /\ \/ UNCHANGED calls
            \/ \E c \in Callers :
                 /\ calls[c].pc = "release" /\ calls'[c].pc = "released"
                 /\ calls'[c].hold = calls[c].hold /\ calls'[c].flow = calls[c].flow
                 /\ \A d \in Callers \ {c} : calls'[d] = calls[d]
BY CallTypes DEF CancelPending, Answer, CallType, ClearPendingIf, store

\* A hold is known to the store and its calls only after it was counted.
LEMMA CountedStep ==
  ASSUME StoreAssumption, TypeOK, Counted, [Next]_vars
  PROVE  Counted'
<1> USE DEF Counted, Confirmed, Working, ClearPendingIf, Owned, NewerActive, OwnedBy, Reset,
         Prepare, store, bindings, backend, Start, Answer, Return, Idle
<1>a. calls \in [Callers -> CallType]
  BY CallTypes
<1>b. /\ MaxHolds \in Nat /\ preview \in Nat /\ pending \in Nat /\ holdCounter \in Nat
      /\ \A c \in Callers : calls[c].hold \in Nat
      /\ status = "awaiting" => preview # 0
  BY HoldTypes DEF TypeOK
<1>1. ASSUME NEW c \in Callers, BackendPrepares(c) PROVE Counted'
  BY <1>1, <1>b, Prepares
<1>2. ASSUME NEW c \in Callers, ConfirmPublish(c) PROVE Counted'
  BY <1>2, <1>b, Confirms
<1>3. ASSUME NEW c \in Callers, PublishRefused(c) PROVE Counted'
  BY <1>3, <1>a, <1>b DEF PublishRefused, CallType
<1>4. ASSUME NEW c \in Callers, PublishFails(c) PROVE Counted'
  BY <1>4, <1>a, <1>b DEF PublishFails, CallType
<1>5. ASSUME NEW c \in Callers, Publishes(c) PROVE Counted'
  BY <1>5, <1>a, <1>b DEF Publishes, CallType
<1>6. ASSUME NEW c \in Callers, SendAfterRelease(c) PROVE Counted'
  BY <1>6, <1>a, <1>b DEF SendAfterRelease
<1>7. ASSUME NEW c \in Callers, Prepared(c) PROVE Counted'
  BY <1>7, <1>a, <1>b DEF Prepared
<1>8. ASSUME NEW c \in Callers, PrepareFailed(c) PROVE Counted'
  BY <1>8, <1>a, <1>b DEF PrepareFailed
<1>9. ASSUME NEW c \in Callers, AwaitConfirm(c) PROVE Counted'
  BY <1>9, <1>a, <1>b DEF AwaitConfirm
<1>10. ASSUME NEW c \in Callers, PanelFailed(c) PROVE Counted'
  BY <1>10, <1>a, <1>b DEF PanelFailed
<1>11. ASSUME NEW c \in Callers, Published(c) PROVE Counted'
  BY <1>11, <1>a, <1>b DEF Published
<1>12. ASSUME NEW c \in Callers, ConfirmFailed(c) PROVE Counted'
  BY <1>12, <1>a, <1>b DEF ConfirmFailed
<1>13. ASSUME NEW c \in Callers, Send(c) PROVE Counted'
  BY <1>13, <1>a, <1>b DEF Send
<1>14. ASSUME NEW c \in Callers, Panel(c) PROVE Counted'
  BY <1>14, <1>a, <1>b DEF Panel
<1>15. ASSUME NEW c \in Callers, Confirm(c) PROVE Counted'
  BY <1>15, <1>a, <1>b DEF Confirm
<1>16. ASSUME NEW h \in Holds, CancelPending(h) PROVE Counted'
  BY <1>16, <1>b, Cancels
<1>17. CASE SessionChange
  BY <1>17, <1>a, <1>b DEF SessionChange
<1>18. CASE Discard
  BY <1>18, <1>a, <1>b DEF Discard
<1>19. CASE CloseResult
  BY <1>19, <1>a, <1>b DEF CloseResult
<1>20. CASE Navigate
  BY <1>20, <1>a, <1>b DEF Navigate
<1>21. CASE UNCHANGED <<calls, preview, pending, holdCounter>>
  BY <1>21
<1> QED
  BY <1>1, <1>2, <1>3, <1>4, <1>5, <1>6, <1>7, <1>8, <1>9, <1>10, <1>11, <1>12, <1>13,
     <1>14, <1>15, <1>16, <1>17, <1>18, <1>19, <1>20, <1>21
     DEF Next, Runs, Answers, User, vars, store, backend, bindings

\* A hold moves from its prepare to the dialog to its confirmation, never to
\* two.
LEMMA OnceStep ==
  ASSUME StoreAssumption, TypeOK, Counted, Once, [Next]_vars
  PROVE  Once'
<1> USE DEF Counted, Once, Confirmed, Working, ClearPendingIf, Owned, NewerActive, OwnedBy,
         Reset, Prepare, store, bindings, backend, Start, Answer, Return, Idle
<1>a. calls \in [Callers -> CallType]
  BY CallTypes
<1>b. /\ MaxHolds \in Nat /\ preview \in Nat /\ pending \in Nat /\ holdCounter \in Nat
      /\ \A c \in Callers : calls[c].hold \in Nat
      /\ status = "awaiting" => preview # 0
  BY HoldTypes DEF TypeOK
<1>1. ASSUME NEW c \in Callers, BackendPrepares(c) PROVE Once'
  BY <1>1, <1>b, Prepares
<1>2. ASSUME NEW c \in Callers, ConfirmPublish(c) PROVE Once'
  BY <1>2, <1>b, Confirms
<1>3. ASSUME NEW c \in Callers, PublishRefused(c) PROVE Once'
  BY <1>3, <1>a, <1>b DEF PublishRefused, CallType
<1>4. ASSUME NEW c \in Callers, PublishFails(c) PROVE Once'
  BY <1>4, <1>a, <1>b DEF PublishFails, CallType
<1>5. ASSUME NEW c \in Callers, Publishes(c) PROVE Once'
  BY <1>5, <1>a, <1>b DEF Publishes, CallType
<1>6. ASSUME NEW c \in Callers, SendAfterRelease(c) PROVE Once'
  BY <1>6, <1>a, <1>b DEF SendAfterRelease
<1>7. ASSUME NEW c \in Callers, Prepared(c) PROVE Once'
  BY <1>7, <1>a, <1>b DEF Prepared
<1>8. ASSUME NEW c \in Callers, PrepareFailed(c) PROVE Once'
  BY <1>8, <1>a, <1>b DEF PrepareFailed
<1>9. ASSUME NEW c \in Callers, AwaitConfirm(c) PROVE Once'
  BY <1>9, <1>a, <1>b DEF AwaitConfirm
<1>10. ASSUME NEW c \in Callers, PanelFailed(c) PROVE Once'
  BY <1>10, <1>a, <1>b DEF PanelFailed
<1>11. ASSUME NEW c \in Callers, Published(c) PROVE Once'
  BY <1>11, <1>a, <1>b DEF Published
<1>12. ASSUME NEW c \in Callers, ConfirmFailed(c) PROVE Once'
  BY <1>12, <1>a, <1>b DEF ConfirmFailed
<1>13. ASSUME NEW c \in Callers, Send(c) PROVE Once'
  BY <1>13, <1>a, <1>b DEF Send
<1>14. ASSUME NEW c \in Callers, Panel(c) PROVE Once'
  BY <1>14, <1>a, <1>b DEF Panel
<1>15. ASSUME NEW c \in Callers, Confirm(c) PROVE Once'
  BY <1>15, <1>a, <1>b DEF Confirm
<1>16. ASSUME NEW h \in Holds, CancelPending(h) PROVE Once'
  BY <1>16, <1>b, Cancels
<1>17. CASE Discard
  BY <1>17, <1>a, <1>b DEF Discard
<1>18. CASE CloseResult
  BY <1>18, <1>a, <1>b DEF CloseResult
<1>19. CASE Navigate
  BY <1>19, <1>a, <1>b DEF Navigate
<1>20. CASE UNCHANGED <<calls, status, preview>>
  BY <1>20
<1> QED
  BY <1>1, <1>2, <1>3, <1>4, <1>5, <1>6, <1>7, <1>8, <1>9, <1>10, <1>11, <1>12, <1>13,
     <1>14, <1>15, <1>16, <1>17, <1>18, <1>19, <1>20
     DEF Next, Runs, Answers, User, vars, store, backend, bindings, SessionChange

\* The answer of a published block takes the dialog, or leaves it to another
\* one.
LEMMA SurfacesStep ==
  ASSUME StoreAssumption, TypeOK, Counted, Once, [Next]_vars
  PROVE  PublishedSurfacesStep
<1> USE DEF PublishedSurfacesStep, Counted, Once, Confirmed, Working, ClearPendingIf,
         NewerActive, OwnedBy, Reset, Prepare, Start, Answer, Return
<1>a. calls \in [Callers -> CallType]
  BY CallTypes
<1>b. /\ MaxHolds \in Nat /\ preview \in Nat /\ pending \in Nat /\ holdCounter \in Nat
      /\ \A c \in Callers : calls[c].hold \in Nat
      /\ status = "awaiting" => preview # 0
  BY HoldTypes DEF TypeOK
<1>c. Idle.pc = "idle"
  BY DEF Idle
<1>1. ASSUME NEW c \in Callers, BackendPrepares(c) PROVE PublishedSurfacesStep
  BY <1>1, <1>a, <1>b, <1>c DEF BackendPrepares, CallType
<1>2. ASSUME NEW c \in Callers, ConfirmPublish(c) PROVE PublishedSurfacesStep
  BY <1>2, <1>a, <1>b, <1>c DEF ConfirmPublish, CallType
<1>3. ASSUME NEW c \in Callers, PublishRefused(c) PROVE PublishedSurfacesStep
  BY <1>3, <1>a, <1>b, <1>c DEF PublishRefused, CallType
<1>4. ASSUME NEW c \in Callers, PublishFails(c) PROVE PublishedSurfacesStep
  BY <1>4, <1>a, <1>b, <1>c DEF PublishFails, CallType
<1>5. ASSUME NEW c \in Callers, Publishes(c) PROVE PublishedSurfacesStep
  BY <1>5, <1>a, <1>b, <1>c DEF Publishes, CallType
<1>6. ASSUME NEW c \in Callers, SendAfterRelease(c) PROVE PublishedSurfacesStep
  BY <1>6, <1>a, <1>b, <1>c DEF SendAfterRelease
<1>7. ASSUME NEW c \in Callers, Prepared(c) PROVE PublishedSurfacesStep
  BY <1>7, <1>a, <1>b, <1>c DEF Prepared
<1>8. ASSUME NEW c \in Callers, PrepareFailed(c) PROVE PublishedSurfacesStep
  BY <1>8, <1>a, <1>b, <1>c DEF PrepareFailed
<1>9. ASSUME NEW c \in Callers, AwaitConfirm(c) PROVE PublishedSurfacesStep
  BY <1>9, <1>a, <1>b, <1>c DEF AwaitConfirm
<1>10. ASSUME NEW c \in Callers, PanelFailed(c) PROVE PublishedSurfacesStep
  BY <1>10, <1>a, <1>b, <1>c DEF PanelFailed, store
<1>11. ASSUME NEW c \in Callers, Published(c) PROVE PublishedSurfacesStep
  BY <1>11, <1>a, <1>b, <1>c DEF Published, store
<1>12. ASSUME NEW c \in Callers, ConfirmFailed(c) PROVE PublishedSurfacesStep
  BY <1>12, <1>a, <1>b, <1>c DEF ConfirmFailed
<1>13. ASSUME NEW c \in Callers, Send(c) PROVE PublishedSurfacesStep
  BY <1>13, <1>a, <1>b, <1>c DEF Send
<1>14. ASSUME NEW c \in Callers, Panel(c) PROVE PublishedSurfacesStep
  BY <1>14, <1>a, <1>b, <1>c DEF Panel
<1>15. ASSUME NEW c \in Callers, Confirm(c) PROVE PublishedSurfacesStep
  BY <1>15, <1>a, <1>b, <1>c DEF Confirm
<1>16. ASSUME NEW h \in Holds, CancelPending(h) PROVE PublishedSurfacesStep
  BY <1>16, <1>a, <1>b, <1>c DEF CancelPending, CallType
<1>17. CASE UNCHANGED calls
  BY <1>17, <1>c
<1> QED
  BY <1>1, <1>2, <1>3, <1>4, <1>5, <1>6, <1>7, <1>8, <1>9, <1>10, <1>11, <1>12, <1>13,
     <1>14, <1>15, <1>16, <1>17
     DEF Next, Runs, Answers, User, vars, store, backend, bindings, SessionChange, Discard,
         CloseResult, Navigate

-----------------------------------------------------------------------------
(* The Transfer page.                                                      *)

\* Only the answer to a confirmation ends its dialog.
LEMMA ConfirmingStep ==
  ASSUME StoreAssumption, OneDialog, TypeOK, Counted, Once, Confirming, Releasing, Owning,
         [Next]_vars
  PROVE  Confirming'
<1> USE DEF Counted, Once, OneDialog, Confirming, Releasing, Owning, Confirmed, Working,
         ClearPendingIf, Owned, NewerActive, OwnedBy, Reset, Prepare, store, bindings,
         backend, Start, Answer, Return, Idle
<1>a. calls \in [Callers -> CallType]
  BY CallTypes
<1>b. /\ MaxHolds \in Nat /\ preview \in Nat /\ pending \in Nat /\ holdCounter \in Nat
      /\ \A c \in Callers : calls[c].hold \in Nat
      /\ status = "awaiting" => preview # 0
  BY HoldTypes DEF TypeOK
<1>1. ASSUME NEW c \in Callers, BackendPrepares(c) PROVE Confirming'
  BY <1>1, <1>b, Prepares
<1>2. ASSUME NEW c \in Callers, ConfirmPublish(c) PROVE Confirming'
  BY <1>2, <1>b, Confirms
<1>3. ASSUME NEW c \in Callers, PublishRefused(c) PROVE Confirming'
  BY <1>3, <1>a, <1>b DEF PublishRefused, CallType
<1>4. ASSUME NEW c \in Callers, PublishFails(c) PROVE Confirming'
  BY <1>4, <1>a, <1>b DEF PublishFails, CallType
<1>5. ASSUME NEW c \in Callers, Publishes(c) PROVE Confirming'
  BY <1>5, <1>a, <1>b DEF Publishes, CallType
<1>6. ASSUME NEW c \in Callers, SendAfterRelease(c) PROVE Confirming'
  BY <1>6, <1>a, <1>b DEF SendAfterRelease
<1>7. ASSUME NEW c \in Callers, Prepared(c) PROVE Confirming'
  BY <1>7, <1>a, <1>b DEF Prepared
<1>8. ASSUME NEW c \in Callers, PrepareFailed(c) PROVE Confirming'
  BY <1>8, <1>a, <1>b DEF PrepareFailed
<1>9. ASSUME NEW c \in Callers, AwaitConfirm(c) PROVE Confirming'
  BY <1>9, <1>a, <1>b DEF AwaitConfirm
<1>10. ASSUME NEW c \in Callers, PanelFailed(c) PROVE Confirming'
  BY <1>10, <1>a, <1>b DEF PanelFailed
<1>11. ASSUME NEW c \in Callers, Published(c) PROVE Confirming'
  BY <1>11, <1>a, <1>b DEF Published
<1>12. ASSUME NEW c \in Callers, ConfirmFailed(c) PROVE Confirming'
  BY <1>12, <1>a, <1>b DEF ConfirmFailed
<1>13. ASSUME NEW c \in Callers, Send(c) PROVE Confirming'
  BY <1>13, <1>a, <1>b DEF Send
<1>14. ASSUME NEW c \in Callers, Panel(c) PROVE Confirming'
  BY <1>14, <1>a, <1>b DEF Panel
<1>15. ASSUME NEW c \in Callers, Confirm(c) PROVE Confirming'
  BY <1>15, <1>a, <1>b DEF Confirm
<1>16. ASSUME NEW h \in Holds, CancelPending(h) PROVE Confirming'
  BY <1>16, <1>b, Cancels
<1>17. CASE Discard
  BY <1>17, <1>a, <1>b DEF Discard
<1>18. CASE CloseResult
  BY <1>18, <1>a, <1>b DEF CloseResult
<1>19. CASE Navigate
  BY <1>19, <1>a, <1>b DEF Navigate
<1>20. CASE UNCHANGED <<calls, status, preview>>
  BY <1>20
<1> QED
  BY <1>1, <1>2, <1>3, <1>4, <1>5, <1>6, <1>7, <1>8, <1>9, <1>10, <1>11, <1>12, <1>13,
     <1>14, <1>15, <1>16, <1>17, <1>18, <1>19, <1>20
     DEF Next, Runs, Answers, User, vars, store, backend, bindings, SessionChange

\* A press that releases a hold is waited for.
LEMMA ReleasingStep ==
  ASSUME StoreAssumption, OneDialog, TypeOK, Counted, Once, Confirming, Owning, Releasing,
         [Next]_vars
  PROVE  Releasing'
<1> USE DEF OneDialog, Confirming, Owning, Releasing, Confirmed, Working, ClearPendingIf,
         Owned, NewerActive, OwnedBy, Reset, Prepare, store, bindings, backend, Start,
         Answer, Return, Idle
<1>a. calls \in [Callers -> CallType]
  BY CallTypes
<1>b. /\ MaxHolds \in Nat /\ preview \in Nat /\ pending \in Nat /\ holdCounter \in Nat
      /\ \A c \in Callers : calls[c].hold \in Nat
      /\ status = "awaiting" => preview # 0
  BY HoldTypes DEF TypeOK
<1>1. ASSUME NEW c \in Callers, BackendPrepares(c) PROVE Releasing'
  BY <1>1, <1>b, Prepares
<1>2. ASSUME NEW c \in Callers, ConfirmPublish(c) PROVE Releasing'
  BY <1>2, <1>b, Confirms
<1>3. ASSUME NEW c \in Callers, PublishRefused(c) PROVE Releasing'
  BY <1>3, <1>a, <1>b DEF PublishRefused, CallType
<1>4. ASSUME NEW c \in Callers, PublishFails(c) PROVE Releasing'
  BY <1>4, <1>a, <1>b DEF PublishFails, CallType
<1>5. ASSUME NEW c \in Callers, Publishes(c) PROVE Releasing'
  BY <1>5, <1>a, <1>b DEF Publishes, CallType
<1>6. ASSUME NEW c \in Callers, SendAfterRelease(c) PROVE Releasing'
  BY <1>6, <1>a, <1>b DEF SendAfterRelease
<1>7. ASSUME NEW c \in Callers, Prepared(c) PROVE Releasing'
  BY <1>7, <1>a, <1>b DEF Prepared
<1>8. ASSUME NEW c \in Callers, PrepareFailed(c) PROVE Releasing'
  BY <1>8, <1>a, <1>b DEF PrepareFailed
<1>9. ASSUME NEW c \in Callers, AwaitConfirm(c) PROVE Releasing'
  BY <1>9, <1>a, <1>b DEF AwaitConfirm
<1>10. ASSUME NEW c \in Callers, PanelFailed(c) PROVE Releasing'
  BY <1>10, <1>a, <1>b DEF PanelFailed
<1>11. ASSUME NEW c \in Callers, Published(c) PROVE Releasing'
  BY <1>11, <1>a, <1>b DEF Published
<1>12. ASSUME NEW c \in Callers, ConfirmFailed(c) PROVE Releasing'
  BY <1>12, <1>a, <1>b DEF ConfirmFailed
<1>13. ASSUME NEW c \in Callers, Send(c) PROVE Releasing'
  BY <1>13, <1>a, <1>b DEF Send
<1>14. ASSUME NEW c \in Callers, Panel(c) PROVE Releasing'
  BY <1>14, <1>a, <1>b DEF Panel
<1>15. ASSUME NEW c \in Callers, Confirm(c) PROVE Releasing'
  BY <1>15, <1>a, <1>b DEF Confirm
<1>16. ASSUME NEW h \in Holds, CancelPending(h) PROVE Releasing'
  BY <1>16, <1>b, Cancels
<1>17. CASE Discard
  BY <1>17, <1>a, <1>b DEF Discard
<1>18. CASE CloseResult
  BY <1>18, <1>a, <1>b DEF CloseResult
<1>19. CASE Navigate
  BY <1>19, <1>a, <1>b DEF Navigate
<1>20. CASE UNCHANGED <<calls, status, preview>>
  BY <1>20
<1> QED
  BY <1>1, <1>2, <1>3, <1>4, <1>5, <1>6, <1>7, <1>8, <1>9, <1>10, <1>11, <1>12, <1>13,
     <1>14, <1>15, <1>16, <1>17, <1>18, <1>19, <1>20
     DEF Next, Runs, Answers, User, vars, store, backend, bindings, SessionChange

\* A prepare owns the dialog until it answers, another begins or the user
\* leaves.
LEMMA OwningStep ==
  ASSUME StoreAssumption, OneDialog, TypeOK, Counted, Once, Confirming, Owning, [Next]_vars
  PROVE  Owning'
<1> USE DEF OneDialog, Confirming, Owning, Confirmed, Working, ClearPendingIf, Owned,
         NewerActive, OwnedBy, Reset, Prepare, store, bindings, backend, Start, Answer,
         Return, Idle
<1>a. calls \in [Callers -> CallType]
  BY CallTypes
<1>b. /\ MaxHolds \in Nat /\ preview \in Nat /\ pending \in Nat /\ holdCounter \in Nat
      /\ \A c \in Callers : calls[c].hold \in Nat
      /\ status = "awaiting" => preview # 0
  BY HoldTypes DEF TypeOK
<1>c. Nobody \notin Callers
  BY HoldTypes
<1>1. ASSUME NEW c \in Callers, BackendPrepares(c) PROVE Owning'
  BY <1>1, <1>b, <1>c, Prepares
<1>2. ASSUME NEW c \in Callers, ConfirmPublish(c) PROVE Owning'
  BY <1>2, <1>b, <1>c, Confirms
<1>3. ASSUME NEW c \in Callers, PublishRefused(c) PROVE Owning'
  BY <1>3, <1>a, <1>b, <1>c DEF PublishRefused, CallType
<1>4. ASSUME NEW c \in Callers, PublishFails(c) PROVE Owning'
  BY <1>4, <1>a, <1>b, <1>c DEF PublishFails, CallType
<1>5. ASSUME NEW c \in Callers, Publishes(c) PROVE Owning'
  BY <1>5, <1>a, <1>b, <1>c DEF Publishes, CallType
<1>6. ASSUME NEW c \in Callers, SendAfterRelease(c) PROVE Owning'
  BY <1>6, <1>a, <1>b, <1>c DEF SendAfterRelease
<1>7. ASSUME NEW c \in Callers, Prepared(c) PROVE Owning'
  BY <1>7, <1>a, <1>b, <1>c DEF Prepared
<1>8. ASSUME NEW c \in Callers, PrepareFailed(c) PROVE Owning'
  BY <1>8, <1>a, <1>b, <1>c DEF PrepareFailed
<1>9. ASSUME NEW c \in Callers, AwaitConfirm(c) PROVE Owning'
  BY <1>9, <1>a, <1>b, <1>c DEF AwaitConfirm
<1>10. ASSUME NEW c \in Callers, PanelFailed(c) PROVE Owning'
  BY <1>10, <1>a, <1>b, <1>c DEF PanelFailed
<1>11. ASSUME NEW c \in Callers, Published(c) PROVE Owning'
  BY <1>11, <1>a, <1>b, <1>c DEF Published
<1>12. ASSUME NEW c \in Callers, ConfirmFailed(c) PROVE Owning'
  BY <1>12, <1>a, <1>b, <1>c DEF ConfirmFailed
<1>13. ASSUME NEW c \in Callers, Send(c) PROVE Owning'
  BY <1>13, <1>a, <1>b, <1>c DEF Send
<1>14. ASSUME NEW c \in Callers, Panel(c) PROVE Owning'
  BY <1>14, <1>a, <1>b, <1>c DEF Panel
<1>15. ASSUME NEW c \in Callers, Confirm(c) PROVE Owning'
  BY <1>15, <1>a, <1>b, <1>c DEF Confirm
<1>16. ASSUME NEW h \in Holds, CancelPending(h) PROVE Owning'
  BY <1>16, <1>b, <1>c, Cancels
<1>17. CASE Discard
  BY <1>17, <1>a, <1>b, <1>c DEF Discard
<1>18. CASE CloseResult
  BY <1>18, <1>a, <1>b, <1>c DEF CloseResult
<1>19. CASE Navigate
  BY <1>19, <1>a, <1>b, <1>c DEF Navigate
<1>20. CASE UNCHANGED <<calls, status, latest>>
  BY <1>20
<1> QED
  BY <1>1, <1>2, <1>3, <1>4, <1>5, <1>6, <1>7, <1>8, <1>9, <1>10, <1>11, <1>12, <1>13,
     <1>14, <1>15, <1>16, <1>17, <1>18, <1>19, <1>20
     DEF Next, Runs, Answers, User, vars, store, backend, bindings, SessionChange

\* A publication takes the latch and gives it back.
LEMMA LatchedStep ==
  ASSUME StoreAssumption, OneDialog, TypeOK, Counted, Once, Latched, [Next]_vars
  PROVE  Latched'
<1> USE DEF Counted, Latched, Confirmed, Working, ClearPendingIf, Owned, NewerActive,
         OwnedBy, Reset, Prepare, store, bindings, backend, Start, Answer, Return, Idle
<1>a. calls \in [Callers -> CallType]
  BY CallTypes
<1>b. /\ MaxHolds \in Nat /\ preview \in Nat /\ pending \in Nat /\ holdCounter \in Nat
      /\ \A c \in Callers : calls[c].hold \in Nat
      /\ status = "awaiting" => preview # 0
  BY HoldTypes DEF TypeOK
<1>1. ASSUME NEW c \in Callers, BackendPrepares(c) PROVE Latched'
  BY <1>1, <1>b, Prepares
<1>2. ASSUME NEW c \in Callers, ConfirmPublish(c) PROVE Latched'
  BY <1>2, <1>b, Confirms
<1>3. ASSUME NEW c \in Callers, PublishRefused(c) PROVE Latched'
  BY <1>3, <1>a, <1>b DEF PublishRefused, CallType
<1>4. ASSUME NEW c \in Callers, PublishFails(c) PROVE Latched'
  BY <1>4, <1>a, <1>b DEF PublishFails, CallType
<1>5. ASSUME NEW c \in Callers, Publishes(c) PROVE Latched'
  BY <1>5, <1>a, <1>b DEF Publishes, CallType
<1>6. ASSUME NEW c \in Callers, SendAfterRelease(c) PROVE Latched'
  BY <1>6, <1>a, <1>b DEF SendAfterRelease
<1>7. ASSUME NEW c \in Callers, Prepared(c) PROVE Latched'
  BY <1>7, <1>a, <1>b DEF Prepared
<1>8. ASSUME NEW c \in Callers, PrepareFailed(c) PROVE Latched'
  BY <1>8, <1>a, <1>b DEF PrepareFailed
<1>9. ASSUME NEW c \in Callers, AwaitConfirm(c) PROVE Latched'
  BY <1>9, <1>a, <1>b DEF AwaitConfirm
<1>10. ASSUME NEW c \in Callers, PanelFailed(c) PROVE Latched'
  BY <1>10, <1>a, <1>b DEF PanelFailed
<1>11. ASSUME NEW c \in Callers, Published(c) PROVE Latched'
  BY <1>11, <1>a, <1>b DEF Published
<1>12. ASSUME NEW c \in Callers, ConfirmFailed(c) PROVE Latched'
  BY <1>12, <1>a, <1>b DEF ConfirmFailed
<1>13. ASSUME NEW c \in Callers, Send(c) PROVE Latched'
  BY <1>13, <1>a, <1>b DEF Send
<1>14. ASSUME NEW c \in Callers, Panel(c) PROVE Latched'
  BY <1>14, <1>a, <1>b DEF Panel
<1>15. ASSUME NEW c \in Callers, Confirm(c) PROVE Latched'
  BY <1>15, <1>a, <1>b DEF Confirm
<1>16. ASSUME NEW h \in Holds, CancelPending(h) PROVE Latched'
  BY <1>16, <1>b, Cancels
<1>17. CASE SessionChange
  BY <1>17, <1>a, <1>b DEF SessionChange
<1>18. CASE UNCHANGED <<calls, pending, publishingHold>>
  BY <1>18
<1> QED
  BY <1>1, <1>2, <1>3, <1>4, <1>5, <1>6, <1>7, <1>8, <1>9, <1>10, <1>11, <1>12, <1>13,
     <1>14, <1>15, <1>16, <1>17, <1>18
     DEF Next, Runs, Answers, User, vars, store, backend, bindings, Discard, CloseResult,
         Navigate

\* Whoever lets go of the hold in the slot hands it on or releases it.
LEMMA AccountedStep ==
  ASSUME StoreAssumption, OneDialog, TypeOK, Counted, Once, Confirming, Releasing, Owning,
         Latched, Accounted, [Next]_vars
  PROVE  Accounted'
<1> USE DEF Counted, OneDialog, Confirming, Releasing, Owning, Latched, Accounted, Release,
         Confirmed, Working, ClearPendingIf, Owned, NewerActive, OwnedBy, Reset, Prepare,
         store, bindings, backend, Start, Answer, Return, Idle
<1>a. calls \in [Callers -> CallType]
  BY CallTypes
<1>b. /\ MaxHolds \in Nat /\ preview \in Nat /\ pending \in Nat /\ holdCounter \in Nat
      /\ \A c \in Callers : calls[c].hold \in Nat
      /\ status = "awaiting" => preview # 0
  BY HoldTypes DEF TypeOK
<1>1. ASSUME NEW c \in Callers, BackendPrepares(c) PROVE Accounted'
  BY <1>1, <1>b, Prepares
<1>2. ASSUME NEW c \in Callers, ConfirmPublish(c) PROVE Accounted'
  BY <1>2, <1>b, Confirms
<1>3. ASSUME NEW c \in Callers, PublishRefused(c) PROVE Accounted'
  BY <1>3, <1>a, <1>b DEF PublishRefused, CallType
<1>4. ASSUME NEW c \in Callers, PublishFails(c) PROVE Accounted'
  BY <1>4, <1>a, <1>b DEF PublishFails, CallType
<1>5. ASSUME NEW c \in Callers, Publishes(c) PROVE Accounted'
  BY <1>5, <1>a, <1>b DEF Publishes, CallType
<1>6. ASSUME NEW c \in Callers, SendAfterRelease(c) PROVE Accounted'
  BY <1>6, <1>a, <1>b DEF SendAfterRelease
<1>7. ASSUME NEW c \in Callers, Prepared(c) PROVE Accounted'
  BY <1>7, <1>a, <1>b DEF Prepared
<1>8. ASSUME NEW c \in Callers, PrepareFailed(c) PROVE Accounted'
  BY <1>8, <1>a, <1>b DEF PrepareFailed
<1>9. ASSUME NEW c \in Callers, AwaitConfirm(c) PROVE Accounted'
  BY <1>9, <1>a, <1>b DEF AwaitConfirm
<1>10. ASSUME NEW c \in Callers, PanelFailed(c) PROVE Accounted'
  BY <1>10, <1>a, <1>b DEF PanelFailed
<1>11. ASSUME NEW c \in Callers, Published(c) PROVE Accounted'
  BY <1>11, <1>a, <1>b DEF Published
<1>12. ASSUME NEW c \in Callers, ConfirmFailed(c) PROVE Accounted'
  BY <1>12, <1>a, <1>b DEF ConfirmFailed
<1>13. ASSUME NEW c \in Callers, Send(c) PROVE Accounted'
  BY <1>13, <1>a, <1>b DEF Send
<1>14. ASSUME NEW c \in Callers, Panel(c) PROVE Accounted'
  BY <1>14, <1>a, <1>b DEF Panel
<1>15. ASSUME NEW c \in Callers, Confirm(c) PROVE Accounted'
  BY <1>15, <1>a, <1>b DEF Confirm
<1>16. ASSUME NEW h \in Holds, CancelPending(h) PROVE Accounted'
  BY <1>16, <1>b, Cancels
<1>17. CASE SessionChange
  BY <1>17, <1>a, <1>b DEF SessionChange
<1>18. CASE Discard
  BY <1>18, <1>a, <1>b DEF Discard
<1>19. CASE CloseResult
  BY <1>19, <1>a, <1>b DEF CloseResult
<1>20. CASE Navigate
  BY <1>20, <1>a, <1>b DEF Navigate
<1>21. CASE UNCHANGED <<calls, pending, cancels, preview, status>>
  BY <1>21
<1> QED
  BY <1>1, <1>2, <1>3, <1>4, <1>5, <1>6, <1>7, <1>8, <1>9, <1>10, <1>11, <1>12, <1>13,
     <1>14, <1>15, <1>16, <1>17, <1>18, <1>19, <1>20, <1>21
     DEF Next, Runs, Answers, User, vars, store, backend, bindings

-----------------------------------------------------------------------------
(* The invariants.                                                         *)

\* Nothing is held and nothing is called at first.
LEMMA InvInit ==
  ASSUME StoreAssumption, Init
  PROVE  DialogInv
<1> USE DEF Init, Idle, StoreAssumption
<1>1. /\ MaxHolds \in Nat /\ MaxSessions \in Nat /\ 0 \in 0..MaxHolds /\ 0 \in 0..MaxSessions
      /\ Nobody \notin Callers
  BY DEF BoundsAssumption, NobodyAssumption
<1>2. answered \in Seq(Callers)
  BY EmptySeq
<1>3. TypeOK
  BY <1>1, <1>2 DEF TypeOK, Pcs
<1>4. Counted /\ Once
  BY DEF Counted, Once, Working, Confirmed
<1>5. Confirming /\ Releasing /\ Owning /\ Latched /\ Accounted
  BY <1>1 DEF Confirming, Releasing, Owning, Latched, Accounted, Confirmed
<1> QED
  BY <1>3, <1>4, <1>5 DEF DialogInv, Inv

\* Whoever prepares, presses, leaves or answers.
LEMMA InvNext ==
  ASSUME StoreAssumption, Inv, [Next]_vars
  PROVE  Inv'
<1>1. TypeOK /\ Counted /\ Once
  BY DEF Inv
<1>2. answered' \in Seq(Callers) /\ calls' \in [Callers -> CallType] /\ HoldType' /\ ShownType'
  BY <1>1, QueueStep, CallTypeStep, HoldTypeStep, ShownTypeStep
<1>3. TypeOK'
  BY <1>2 DEF TypeOK, CallType, HoldType, ShownType
<1>4. Counted' /\ Once'
  BY <1>1, CountedStep, OnceStep
<1> QED
  BY <1>3, <1>4 DEF Inv

\* On the Transfer page, whose user waits.
LEMMA DialogNext ==
  ASSUME StoreAssumption, OneDialog, DialogInv, [Next]_vars
  PROVE  DialogInv'
<1>1. /\ Inv /\ TypeOK /\ Counted /\ Once
      /\ Confirming /\ Releasing /\ Owning /\ Latched /\ Accounted
  BY DEF DialogInv, Inv
<1>2. Inv' /\ Confirming' /\ Releasing'
  BY <1>1, InvNext, ConfirmingStep, ReleasingStep
<1>3. Owning' /\ Latched' /\ Accounted'
  BY <1>1, OwningStep, LatchedStep, AccountedStep
<1> QED
  BY <1>2, <1>3 DEF DialogInv

\* The invariants hold in every reachable state.
LEMMA Invariant ==
  ASSUME StoreAssumption
  PROVE  Spec => []Inv
<1>1. Init => Inv
  BY InvInit DEF DialogInv
<1>2. Inv /\ [Next]_vars => Inv'
  BY InvNext
<1> QED
  BY <1>1, <1>2, PTL DEF Spec

\* On the Transfer page the whole invariant holds.
LEMMA DialogInvariant ==
  ASSUME StoreAssumption, OneDialog
  PROVE  Spec => []DialogInv
<1>1. Init => DialogInv
  BY InvInit
<1>2. DialogInv /\ [Next]_vars => DialogInv'
  BY DialogNext
<1> QED
  BY <1>1, <1>2, PTL DEF Spec

-----------------------------------------------------------------------------
(* The theorems.                                                           *)

\* Every field keeps its type, and a dialog that asks has something to ask
\* (tx.ts).
THEOREM StoreTypes ==
  ASSUME StoreAssumption
  PROVE  Spec => []TypeOK
<1>1. Inv => TypeOK
  BY DEF Inv
<1> QED
  BY <1>1, Invariant, PTL

\* The answer of a published block is shown, or another transaction is being
\* shown, whichever flows overlap and whenever the user leaves (confirm).
THEOREM PublishedIsShown ==
  ASSUME StoreAssumption
  PROVE  Spec => PublishedSurfaces
<1>1. Inv /\ [Next]_vars => [PublishedSurfacesStep]_vars
  BY SurfacesStep DEF Inv
<1> QED
  BY <1>1, Invariant, PTL DEF Spec, PublishedSurfaces

\* On the Transfer page, when no call is under way and no dialog is up, no hold
\* is left in the slot, as long as the user waits for a press and for a
\* publication to end (holdPending; router's afterEach).
THEOREM HoldsAreReleased ==
  ASSUME StoreAssumption, OneDialog
  PROVE  Spec => []NoStrandedHold
<1>1. DialogInv => NoStrandedHold
  BY DEF DialogInv, Accounted, NoStrandedHold, Quiet, Idle
<1> QED
  BY <1>1, DialogInvariant, PTL

\* On that page, a dialog that asks for a confirmation shows the slot's block or
\* one that a session change dropped; another block in the slot is on its way
\* to be released (prepare).
THEOREM AsksAboutTheSlot ==
  ASSUME StoreAssumption, OneDialog
  PROVE  Spec => []DialogIsSlot
<1>1. ASSUME DialogInv, status = "awaiting" PROVE pending \in {preview, 0} \cup Orphans
  <2>1. CASE pending = 0 \/ pending \in cancels \/ preview = pending
    BY <2>1 DEF Orphans
  <2>2. ASSUME NEW c \in Callers, calls[c].pc = "held", calls[c].hold = pending
        PROVE  pending \in Orphans
    <3>1. latest # c
      BY <1>1, <2>2 DEF DialogInv, Owning
    <3> QED
      BY <2>2, <3>1 DEF Orphans
  <2> QED
    BY <1>1, <2>1, <2>2 DEF DialogInv, Accounted
<1>2. DialogInv => DialogIsSlot
  BY <1>1 DEF DialogIsSlot
<1> QED
  BY <1>2, DialogInvariant, PTL

-----------------------------------------------------------------------------
(***************************************************************************)
(* UnreceivedStore: its constants and variables, and the instance.         *)
(***************************************************************************)
CONSTANTS
  Accounts, Blocks, Recipient, Refreshers, MaxSwitches, MaxRefusals

VARIABLES
  ledger, active, items, busy, rest, busyAll, loads, queued, switches, refusals

Unreceived == INSTANCE UnreceivedStore

\* The shell is one of those who refresh the list (AppShell's refresh).
UnreceivedAssumption ==
  Unreceived!RecipientAssumption /\ Unreceived!BoundsAssumption /\ "shell" \in Refreshers

-----------------------------------------------------------------------------
(* The inductive invariant.                                                *)

\* The active account's blocks.
Own(blocks) == \A b \in blocks : Recipient[b] = active

\* A load that is still current read the active account's blocks, and rows of an
\* account that was left have the shell's refresh, under way or due once more,
\* to replace them.
RowsInv ==
  /\ \A c \in Unreceived!Callers : loads[c].current /\ loads[c].phase = "read" => Own(loads[c].of)
  /\ Own(items) \/ loads["shell"].current \/ queued
  /\ queued => loads["shell"] # Unreceived!NoLoad

\* TypeOK, and one record of a caller that does not load.
RowTypes ==
  /\ Unreceived!TypeOK
  /\ \A c \in Unreceived!Callers : loads[c].phase = "idle" => loads[c] = Unreceived!NoLoad

UnreceivedInv == RowTypes /\ RowsInv

\* A load in flight is a record, and beginning one makes it current and unanswered
\* (load captures the epoch with its call).
LEMMA LoadTypes ==
  ASSUME Unreceived!TypeOK, NEW c \in Unreceived!Callers
  PROVE  /\ loads[c] \in [phase : {"idle", "asked", "read"}, current : BOOLEAN, of : SUBSET Blocks]
         /\ Unreceived!Begin(c) = [loads EXCEPT ![c] = [phase |-> "asked", current |-> TRUE, of |-> {}]]
BY DEF Unreceived!TypeOK, Unreceived!Begin

\* A refused receive stays within the bound on refusals (the failed Receive of
\* receive and receiveAll).
LEMMA RefusalTypes ==
  ASSUME UnreceivedAssumption, Unreceived!TypeOK, NEW b \in Blocks, Unreceived!Refused(b)
  PROVE  refusals' \in 0..MaxRefusals
BY DEF UnreceivedAssumption, Unreceived!BoundsAssumption, Unreceived!TypeOK, Unreceived!Refused

\* After a switch no load is current but the shell's new one, and the shell's
\* refresh runs or is due again.
LEMMA SwitchLoads ==
  ASSUME UnreceivedAssumption, RowTypes, NEW a \in Accounts, Unreceived!Switch(a)
  PROVE  /\ loads' \in [Unreceived!Callers ->
                        [phase : {"idle", "asked", "read"}, current : BOOLEAN, of : SUBSET Blocks]]
         /\ queued' \in BOOLEAN
         /\ \A c \in Unreceived!Callers : loads'[c].current => loads'[c].phase = "asked"
         /\ loads'["shell"].current \/ queued'
         /\ loads'["shell"] # Unreceived!NoLoad
         /\ \A c \in Unreceived!Callers : loads'[c].phase = "idle" => loads'[c] = Unreceived!NoLoad
<1> DEFINE stale == [c \in Unreceived!Callers |-> [loads[c] EXCEPT !.current = FALSE]]
<1>0. "shell" \in Unreceived!Callers /\ Unreceived!TypeOK
  BY DEF UnreceivedAssumption, Unreceived!Callers, RowTypes
<1>1. /\ stale \in [Unreceived!Callers -> [phase : {"idle", "asked", "read"}, current : BOOLEAN, of : SUBSET Blocks]]
      /\ \A c \in Unreceived!Callers : stale[c] = [loads[c] EXCEPT !.current = FALSE]
  BY <1>0, LoadTypes
<1>2. CASE loads["shell"] = Unreceived!NoLoad
  <2>1. loads' = [stale EXCEPT !["shell"] = [phase |-> "asked", current |-> TRUE, of |-> {}]] /\ queued' = queued
    <3>1. Unreceived!Begin("shell")["shell"] = [phase |-> "asked", current |-> TRUE, of |-> {}]
      BY <1>0 DEF Unreceived!Begin, Unreceived!TypeOK
    <3> QED
      BY <1>2, <3>1 DEF Unreceived!Switch
  <2> HIDE DEF stale
  <2>2. ASSUME NEW c \in Unreceived!Callers
        PROVE  loads'[c] = IF c = "shell" THEN [phase |-> "asked", current |-> TRUE, of |-> {}]
                           ELSE [loads[c] EXCEPT !.current = FALSE]
    BY <1>0, <1>1, <2>1
  <2>3. /\ loads' \in [Unreceived!Callers ->
                       [phase : {"idle", "asked", "read"}, current : BOOLEAN, of : SUBSET Blocks]]
        /\ queued' \in BOOLEAN
    BY <1>0, <1>1, <2>1 DEF Unreceived!TypeOK
  <2> QED
    BY <1>0, <2>2, <2>3, LoadTypes DEF Unreceived!NoLoad, RowTypes
<1>3. CASE loads["shell"] # Unreceived!NoLoad
  <2>1. loads' = stale /\ queued' = TRUE
    BY <1>3 DEF Unreceived!Switch
  <2>2. loads["shell"].phase # "idle"
    BY <1>0, <1>3 DEF RowTypes
  <2> HIDE DEF stale
  <2> QED
    BY <1>0, <1>1, <2>1, <2>2, LoadTypes DEF Unreceived!NoLoad, Unreceived!TypeOK, RowTypes
<1> QED
  BY <1>2, <1>3

\* Every action keeps the types of the list, the flags and the loads.
LEMMA UnreceivedTypeStep ==
  ASSUME UnreceivedAssumption, RowTypes, Unreceived!Next
  PROVE  RowTypes'
<1> USE DEF RowTypes, Unreceived!NoLoad, Unreceived!TypeOK, Unreceived!Callers, Unreceived!node, Unreceived!calls, Unreceived!bounds,
            UnreceivedAssumption
<1>1. ASSUME NEW c \in Unreceived!Callers, Unreceived!GetUnreceived(c) PROVE RowTypes'
  BY <1>1 DEF Unreceived!GetUnreceived
<1>2. ASSUME NEW c \in Unreceived!Callers, Unreceived!Answered(c) PROVE RowTypes'
  BY <1>2 DEF Unreceived!Answered, Unreceived!End, Unreceived!Begin
<1>3. ASSUME NEW c \in Unreceived!Callers, Unreceived!LoadFailed(c) PROVE RowTypes'
  BY <1>3 DEF Unreceived!LoadFailed, Unreceived!End, Unreceived!Begin
<1>4. ASSUME NEW b \in Blocks, Unreceived!ReceiveEnds(b) PROVE RowTypes'
  <2>1. CASE Unreceived!Takes(b) /\ Unreceived!Received(b) /\ loads' = Unreceived!Begin(b) /\ UNCHANGED <<busy, refusals>>
    BY <1>4, <2>1 DEF Unreceived!ReceiveEnds, Unreceived!Received, Unreceived!Begin
  <2>2. CASE Unreceived!Refused(b) /\ busy' = busy \ {b} /\ UNCHANGED loads
    BY <1>4, <2>2, RefusalTypes DEF Unreceived!ReceiveEnds, Unreceived!Refused
  <2> QED
    BY <1>4, <2>1, <2>2 DEF Unreceived!ReceiveEnds
<1>5. ASSUME NEW b \in Blocks, Unreceived!AllTakes(b) PROVE RowTypes'
  BY <1>5 DEF Unreceived!AllTakes, Unreceived!Takes, Unreceived!Received, Unreceived!Begin
<1>6. ASSUME NEW b \in Blocks, Unreceived!AllRefused(b) PROVE RowTypes'
  BY <1>6, RefusalTypes DEF Unreceived!AllRefused, Unreceived!Refused
<1>7. ASSUME NEW c \in Refreshers, Unreceived!Refresh(c) PROVE RowTypes'
  BY <1>7 DEF Unreceived!Refresh, Unreceived!Begin
<1>8. ASSUME NEW b \in Blocks, Unreceived!Receive(b) \/ Unreceived!Sent(b) PROVE RowTypes'
  BY <1>8 DEF Unreceived!Receive, Unreceived!Sent
<1>9. CASE Unreceived!ReceiveAll
  BY <1>9 DEF Unreceived!ReceiveAll
<1>10. ASSUME NEW a \in Accounts, Unreceived!Switch(a) PROVE RowTypes'
  <2>1. switches' \in 0..MaxSwitches
    BY <1>10 DEF Unreceived!Switch, Unreceived!BoundsAssumption
  <2>2. /\ loads' \in [Unreceived!Callers ->
                       [phase : {"idle", "asked", "read"}, current : BOOLEAN, of : SUBSET Blocks]]
        /\ queued' \in BOOLEAN
        /\ \A c \in Unreceived!Callers : loads'[c].phase = "idle" => loads'[c] = Unreceived!NoLoad
    BY <1>10, SwitchLoads
  <2> QED
    BY <1>10, <2>1, <2>2 DEF Unreceived!Switch
<1> QED
  BY <1>1, <1>2, <1>3, <1>4, <1>5, <1>6, <1>7, <1>8, <1>9, <1>10
     DEF Unreceived!Next, Unreceived!LoadStep, Unreceived!ReceiveStep

\* Every action keeps it that rows of an account that was left have a refresh to
\* come: an answer of before a switch is dropped (load compares the epoch).
LEMMA RowsStep ==
  ASSUME UnreceivedAssumption, UnreceivedInv, Unreceived!Next
  PROVE  RowsInv'
<1> USE DEF Unreceived!node, Unreceived!calls, Unreceived!bounds, RowsInv, Own
<1>0. Unreceived!TypeOK /\ RowTypes /\ RowsInv /\ "shell" \in Unreceived!Callers
  BY DEF UnreceivedInv, RowTypes, UnreceivedAssumption, Unreceived!Callers
<1>1. ASSUME NEW c \in Unreceived!Callers, Unreceived!GetUnreceived(c) PROVE RowsInv'
  BY <1>0, <1>1, LoadTypes DEF Unreceived!GetUnreceived, Unreceived!NoLoad, Unreceived!TypeOK
<1>2. ASSUME NEW c \in Unreceived!Callers, Unreceived!Answered(c) PROVE RowsInv'
  BY <1>0, <1>2, LoadTypes DEF Unreceived!Answered, Unreceived!End, Unreceived!Begin, Unreceived!NoLoad, Unreceived!TypeOK
<1>3. ASSUME NEW c \in Unreceived!Callers, Unreceived!LoadFailed(c) PROVE RowsInv'
  BY <1>0, <1>3, LoadTypes DEF Unreceived!LoadFailed, Unreceived!End, Unreceived!Begin, Unreceived!NoLoad, Unreceived!TypeOK
<1>4. ASSUME NEW b \in Blocks, Unreceived!ReceiveEnds(b) PROVE RowsInv'
  BY <1>0, <1>4, LoadTypes DEF Unreceived!ReceiveEnds, Unreceived!Begin, Unreceived!NoLoad, Unreceived!TypeOK
<1>5. ASSUME NEW b \in Blocks, Unreceived!AllTakes(b) PROVE RowsInv'
  BY <1>0, <1>5, LoadTypes DEF Unreceived!AllTakes, Unreceived!Begin, Unreceived!NoLoad, Unreceived!TypeOK
<1>6. ASSUME NEW b \in Blocks, Unreceived!AllRefused(b) PROVE RowsInv'
  BY <1>0, <1>6 DEF Unreceived!AllRefused
<1>7. ASSUME NEW c \in Refreshers, Unreceived!Refresh(c) PROVE RowsInv'
  BY <1>0, <1>7, LoadTypes DEF Unreceived!Refresh, Unreceived!Begin, Unreceived!NoLoad, Unreceived!Callers, Unreceived!TypeOK
<1>8. ASSUME NEW b \in Blocks, Unreceived!Receive(b) \/ Unreceived!Sent(b) PROVE RowsInv'
  BY <1>0, <1>8 DEF Unreceived!Receive, Unreceived!Sent
<1>9. CASE Unreceived!ReceiveAll
  BY <1>0, <1>9 DEF Unreceived!ReceiveAll
<1>10. ASSUME NEW a \in Accounts, Unreceived!Switch(a) PROVE RowsInv'
  BY <1>0, <1>10, SwitchLoads DEF UnreceivedInv, Unreceived!Switch
<1> QED
  BY <1>1, <1>2, <1>3, <1>4, <1>5, <1>6, <1>7, <1>8, <1>9, <1>10
     DEF Unreceived!Next, Unreceived!LoadStep, Unreceived!ReceiveStep

\* The invariant of the list holds in every reachable state.
LEMMA UnreceivedInvariant ==
  ASSUME UnreceivedAssumption
  PROVE  Unreceived!Spec => []UnreceivedInv
<1>1. Unreceived!Init => UnreceivedInv
  <2>1. "shell" \in Unreceived!Callers
    BY DEF UnreceivedAssumption, Unreceived!Callers
  <2>2. ASSUME Unreceived!Init PROVE Unreceived!TypeOK
    <3>1. ledger \in [Blocks -> {"unsent", "pending", "received"}] /\ active \in Accounts
      BY <2>2 DEF Unreceived!Init
    <3>2. loads \in [Unreceived!Callers -> [phase : {"idle", "asked", "read"}, current : BOOLEAN, of : SUBSET Blocks]]
      BY <2>2 DEF Unreceived!Init, Unreceived!NoLoad
    <3>3. switches \in 0..MaxSwitches /\ refusals \in 0..MaxRefusals
      BY <2>2 DEF Unreceived!Init, UnreceivedAssumption, Unreceived!BoundsAssumption
    <3>4. items \subseteq Blocks /\ busy \subseteq Blocks /\ rest \subseteq Blocks /\ {busyAll, queued} \subseteq BOOLEAN
      BY <2>2 DEF Unreceived!Init
    <3> QED
      BY <3>1, <3>2, <3>3, <3>4 DEF Unreceived!TypeOK
  <2>3. ASSUME Unreceived!Init, NEW c \in Unreceived!Callers PROVE loads[c] = Unreceived!NoLoad
    BY <2>3 DEF Unreceived!Init
  <2>4. ASSUME Unreceived!Init PROVE items = {} /\ queued = FALSE
    BY <2>4 DEF Unreceived!Init
  <2> QED
    BY <2>1, <2>2, <2>3, <2>4 DEF UnreceivedInv, RowTypes, RowsInv, Own, Unreceived!NoLoad
<1>2. UnreceivedInv /\ [Unreceived!Next]_(Unreceived!vars) => UnreceivedInv'
  <2>1. ASSUME UnreceivedInv, UNCHANGED Unreceived!vars PROVE UnreceivedInv'
    BY <2>1 DEF UnreceivedInv, RowTypes, Unreceived!vars, Unreceived!node, Unreceived!calls, Unreceived!bounds,
       Unreceived!TypeOK, RowsInv, Own
  <2> QED
    BY <2>1, UnreceivedTypeStep, RowsStep DEF UnreceivedInv
<1> QED
  BY <1>1, <1>2, PTL DEF Unreceived!Spec

\* The list, the busy rows, the flags and every load keep their types, whatever
\* refreshes, receives and switches overlap (unreceived.ts).
THEOREM UnreceivedTypes ==
  ASSUME UnreceivedAssumption
  PROVE  Unreceived!Spec => []Unreceived!TypeOK
<1>1. UnreceivedInv => Unreceived!TypeOK
  BY DEF UnreceivedInv, RowTypes
<1> QED
  BY <1>1, UnreceivedInvariant, PTL

\* Once the loads have ended, in whatever order, the rows shown are the active
\* account's, for any number of accounts, blocks, callers and switches (load's epoch
\* check, and the refresh of the shell that runs again after a switch).
THEOREM ReceivesItsOwnRows ==
  ASSUME UnreceivedAssumption
  PROVE  Unreceived!Spec => []Unreceived!RowsAreOwn
<1>1. UnreceivedInv => Unreceived!RowsAreOwn
  BY DEF UnreceivedInv, RowsInv, Own, Unreceived!RowsAreOwn, Unreceived!NoLoad, UnreceivedAssumption, Unreceived!Callers
<1> QED
  BY <1>1, UnreceivedInvariant, PTL

-----------------------------------------------------------------------------
(***************************************************************************)
(* TxHistory: the rest of its constants, its variables, and the instance.  *)
(***************************************************************************)
CONSTANTS
  NoAccount, Turns, Chunks, MaxChunks, MaxRows, MaxPage, FetchFails, NodeLies

VARIABLES
  account, rows, buffer, chunkIndex, hasMoreBlocks, page, ensures, loading, reload, failed, mixed

History == INSTANCE TxHistory

HistoryAssumption ==
  History!ChunksAssumption /\ History!BoundsAssumption /\ History!AccountAssumption /\ History!FlagsAssumption

-----------------------------------------------------------------------------
(* The inductive invariants.                                               *)

Pages == Seq(Accounts \X (0..MaxChunks - 1))
Fetches == [account : Accounts \cup {NoAccount}, index : 0..MaxChunks - 1, current : BOOLEAN]

\* TypeOK with the fetches; what load collects stays under the cap.
HistoryTyped ==
  /\ account \in Accounts /\ page \in 0..MaxPage /\ hasMoreBlocks \in BOOLEAN
  /\ buffer \in Pages /\ chunkIndex \in Nat /\ Len(buffer) = chunkIndex
  /\ mixed \in BOOLEAN /\ (mixed \/ chunkIndex <= MaxChunks)
  /\ ensures \in [Turns -> Fetches]
  /\ \A t \in Turns : ensures[t] # History!Done => ensures[t].account \in Accounts
  /\ loading \in [account : Accounts \cup {NoAccount}, current : BOOLEAN, fresh : Pages]
  /\ loading # History!NotLoading => loading.account \in Accounts
  /\ Len(loading.fresh) < MaxChunks /\ reload \in BOOLEAN

\* A current fetch is of the active account; one that did not overlap another is
\* for the chunk that is next, and is alone; what load collected is in order.
InOrder(chunks, a) == \A i \in 1..Len(chunks) : chunks[i] = <<a, i - 1>>
FetchesInv ==
  /\ \A t \in Turns : ensures[t].current =>
       /\ ensures[t].account = account
       /\ mixed \/ (ensures[t].index = chunkIndex /\ ~loading.current)
       /\ \A u \in Turns : ensures[u].current => mixed \/ t = u
  /\ loading.current => loading.account = account
  /\ InOrder(loading.fresh, loading.account)

\* The buffer is the active account's, or a load is due or under way that will
\* replace it.
BufferInv == mixed \/ InOrder(buffer, account) \/ reload \/ loading.current

HistoryInv == HistoryTyped /\ FetchesInv /\ BufferInv

\* A store that stopped asking, under way or not, is at the end or at the cap, or
\* a fetch failed.
MoreInv ==
  mixed \/ hasMoreBlocks \/ failed # {} \/ chunkIndex >= Chunks \/ chunkIndex >= MaxChunks

-----------------------------------------------------------------------------
(* What the operators do.                                                  *)

\* An ensure that goes on asks for the chunk it was given, below the cap and for
\* the account active by then; otherwise it is over (fetchChunk's guard).
LEMMA Continues ==
  ASSUME HistoryAssumption, NEW t \in Turns, NEW buf, NEW p, NEW more, NEW i \in Nat,
         account \in Accounts, ensures \in [Turns -> Fetches], History!Continue(t, buf, p, more, i)
  PROVE  /\ ensures' \in [Turns -> Fetches]
         /\ \A u \in Turns : u # t => ensures'[u] = ensures[u]
         /\ ensures'[t] = History!Done
              \/ (i < MaxChunks /\ ensures'[t] = [account |-> account, index |-> i, current |-> TRUE])
<1>1. (History!Fetch(t, i) /\ i < MaxChunks) \/ History!End(t)
  BY DEF History!Continue
<1>2. CASE History!Fetch(t, i) /\ i < MaxChunks
  BY <1>2 DEF History!Fetch, Fetches, HistoryAssumption, History!ChunksAssumption
<1>3. CASE History!End(t)
  BY <1>3 DEF History!End, History!Done, Fetches, HistoryAssumption, History!ChunksAssumption
<1> QED
  BY <1>1, <1>2, <1>3

\* An ensure that ends leaves the others alone.
LEMMA Ends ==
  ASSUME HistoryAssumption, NEW t \in Turns, ensures \in [Turns -> Fetches], History!End(t)
  PROVE  /\ ensures' \in [Turns -> Fetches]
         /\ \A u \in Turns : u # t => ensures'[u] = ensures[u]
         /\ ensures'[t] = History!Done
BY DEF History!End, History!Done, Fetches, HistoryAssumption, History!ChunksAssumption

\* Appending the next chunk keeps what was collected in order (ensure, load).
LEMMA OneMoreChunk ==
  ASSUME HistoryAssumption, NEW chunks \in Pages, NEW a \in Accounts, NEW i \in 0..MaxChunks - 1
  PROVE  /\ Append(chunks, History!Chunk(a, i)) \in Pages
         /\ Len(Append(chunks, History!Chunk(a, i))) = Len(chunks) + 1
         /\ InOrder(chunks, a) /\ i = Len(chunks) => InOrder(Append(chunks, History!Chunk(a, i)), a)
BY DEF Pages, InOrder, History!Chunk

(* The steps.                                                              *)

\* Every action keeps the invariant: a fetch that overlaps another is marked, and
\* the mark stays until a load lands alone (ensure, load, goto).
LEMMA HistoryStep ==
  ASSUME HistoryAssumption, HistoryInv, History!Next
  PROVE  HistoryInv'
<1>0. HistoryTyped /\ FetchesInv /\ BufferInv /\ MaxChunks \in Nat \ {0}
  BY DEF HistoryInv, HistoryAssumption, History!ChunksAssumption
<1> USE <1>0
<1>1. ASSUME NEW t \in Turns, NEW p \in 0..MaxPage, History!Goto(t, p) PROVE HistoryInv'
  <2>1. /\ ensures' \in [Turns -> Fetches]
        /\ \A u \in Turns : u # t => ensures'[u] = ensures[u]
        /\ ensures'[t] = History!Done
             \/ (chunkIndex < MaxChunks /\ ensures'[t] = [account |-> account, index |-> chunkIndex, current |-> TRUE])
    BY <1>1, Continues DEF History!Goto, HistoryTyped
  <2>2. /\ mixed' = (mixed \/ (History!Current /\ ensures'[t] # History!Done))
        /\ UNCHANGED <<account, buffer, chunkIndex, hasMoreBlocks, loading, reload>> /\ page' = p
    BY <1>1 DEF History!Goto
  <2>3. \/ mixed' \/ ensures'[t] = History!Done
        \/ ~loading.current /\ \A u \in Turns : ~ensures[u].current
    BY <2>2 DEF History!Current
  <2>4. HistoryTyped'
    BY <2>1, <2>2 DEF HistoryTyped, Fetches, History!Done, History!NotLoading, History!Current
  <2>5. FetchesInv'
    BY <2>1, <2>2, <2>3 DEF FetchesInv, History!Done, InOrder, HistoryTyped
  <2> QED
    BY <2>2, <2>4, <2>5 DEF HistoryInv, BufferInv, InOrder, HistoryTyped
<1>2. ASSUME NEW t \in Turns, History!Fetched(t) PROVE HistoryInv'
  <2>1. /\ ensures[t].current /\ ensures[t].account = account /\ ensures[t].index \in 0..MaxChunks - 1
        /\ mixed \/ (ensures[t].index = chunkIndex /\ ~loading.current)
        /\ chunkIndex' = chunkIndex + 1 /\ hasMoreBlocks' \in BOOLEAN
        /\ UNCHANGED <<account, page, loading, reload, mixed>>
    BY <1>2 DEF History!Fetched, FetchesInv, HistoryTyped, Fetches
  <2>2. /\ ensures' \in [Turns -> Fetches]
        /\ \A u \in Turns : u # t => ensures'[u] = ensures[u]
        /\ ensures'[t] = History!Done
             \/ (chunkIndex' < MaxChunks /\ ensures'[t] = [account |-> account, index |-> chunkIndex', current |-> TRUE])
    <3>1. chunkIndex' \in Nat /\ History!Continue(t, buffer', page, hasMoreBlocks', chunkIndex')
      BY <1>2, <2>1 DEF History!Fetched, HistoryTyped
    <3> QED
      BY <3>1, Continues DEF HistoryTyped
  <2>3. /\ buffer' \in Pages /\ Len(buffer') = chunkIndex + 1
        /\ ~mixed /\ InOrder(buffer, account) => InOrder(buffer', account)
    <3>1. buffer' = Append(buffer, History!Chunk(account, ensures[t].index))
      BY <1>2, <2>1 DEF History!Fetched
    <3> QED
      BY <2>1, <3>1, OneMoreChunk DEF HistoryTyped
  <2>4. HistoryTyped'
    <3>1. mixed \/ chunkIndex' <= MaxChunks
      BY <2>1 DEF HistoryTyped
    <3>2. \A u \in Turns : ensures'[u] # History!Done => ensures'[u].account \in Accounts
      BY <2>2 DEF HistoryTyped
    <3> QED
      BY <2>1, <2>2, <2>3, <3>1, <3>2 DEF HistoryTyped
  <2>5. FetchesInv'
    BY <2>1, <2>2 DEF FetchesInv, History!Done, InOrder
  <2> QED
    BY <2>1, <2>3, <2>4, <2>5 DEF HistoryInv, BufferInv, HistoryTyped
<1>3. ASSUME NEW t \in Turns, History!FetchedStale(t) \/ History!FetchFailed(t) PROVE HistoryInv'
  <2>1. /\ ensures' \in [Turns -> Fetches]
        /\ \A u \in Turns : u # t => ensures'[u] = ensures[u]
        /\ ensures'[t] = History!Done
    BY <1>3, Ends DEF History!FetchedStale, History!FetchFailed, HistoryTyped
  <2>2. UNCHANGED <<account, rows, buffer, chunkIndex, page, loading, reload, mixed>> /\ hasMoreBlocks' \in BOOLEAN
    BY <1>3 DEF History!FetchedStale, History!FetchFailed, History!store, HistoryTyped
  <2>3. HistoryTyped'
    BY <2>1, <2>2 DEF HistoryTyped, Fetches, History!Done, History!NotLoading
  <2> QED
    BY <2>1, <2>2, <2>3 DEF HistoryInv, BufferInv, FetchesInv, History!Done, InOrder
<1>4. CASE History!StartLoad
  <2>1. /\ mixed' = (mixed \/ History!Current) /\ reload' = FALSE
        /\ loading' = [account |-> account, current |-> TRUE, fresh |-> <<>>]
        /\ UNCHANGED <<account, rows, buffer, chunkIndex, hasMoreBlocks, page, ensures, failed>>
    BY <1>4 DEF History!StartLoad, History!store
  <2>2. HistoryTyped'
    <3>1. <<>> \in Pages /\ Len(<<>>) = 0
      BY DEF Pages
    <3>2. loading' \in [account : Accounts \cup {NoAccount}, current : BOOLEAN, fresh : Pages]
          /\ loading'.account \in Accounts /\ Len(loading'.fresh) < MaxChunks
      BY <2>1, <3>1 DEF HistoryTyped
    <3> QED
      BY <2>1, <3>2 DEF HistoryTyped, History!Current
  <2>3. mixed' \/ \A u \in Turns : ~ensures[u].current
    BY <2>1 DEF History!Current, HistoryTyped
  <2> QED
    BY <2>1, <2>2, <2>3 DEF HistoryInv, BufferInv, FetchesInv, InOrder, HistoryTyped
<1>5. ASSUME NEW fresh \in Pages, NEW more \in BOOLEAN, History!Swap(fresh, more), Len(fresh) <= MaxChunks,
             InOrder(fresh, loading.account), UNCHANGED <<account, page, ensures, reload>>
      PROVE  HistoryInv'
  <2>1. loading' = History!NotLoading
    BY <1>5 DEF History!Swap
  <2>2. CASE loading.current
    <3>1. /\ buffer' = fresh /\ chunkIndex' = Len(fresh) /\ hasMoreBlocks' \in BOOLEAN
          /\ mixed' = \E t \in Turns : ensures[t].current
      BY <1>5, <2>2 DEF History!Swap
    <3>2. HistoryTyped'
      BY <1>5, <2>1, <3>1 DEF HistoryTyped, Pages, History!NotLoading
    <3>3. FetchesInv'
      BY <1>5, <2>1, <3>1 DEF FetchesInv, InOrder, History!NotLoading
    <3> QED
      BY <1>5, <2>2, <3>1, <3>2, <3>3 DEF HistoryInv, BufferInv, FetchesInv
  <2>3. CASE ~loading.current
    <3>1. UNCHANGED <<buffer, chunkIndex, hasMoreBlocks, mixed>>
      BY <1>5, <2>3 DEF History!Swap
    <3>2. HistoryTyped'
      BY <1>5, <2>1, <3>1 DEF HistoryTyped, Pages, History!NotLoading
    <3> QED
      BY <1>5, <2>1, <2>3, <3>1, <3>2 DEF HistoryInv, BufferInv, FetchesInv, InOrder, History!NotLoading
  <2> QED
    BY <2>2, <2>3 DEF HistoryTyped
<1>6. CASE History!LoadFetched
  <2> DEFINE i == Len(loading.fresh)
             fresh == Append(loading.fresh, History!Chunk(loading.account, i))
  <2>1. /\ loading # History!NotLoading /\ loading.account \in Accounts /\ i \in 0..MaxChunks - 1
        /\ fresh \in Pages /\ Len(fresh) = i + 1 /\ InOrder(fresh, loading.account)
    <3>1. loading.account \in Accounts /\ loading.fresh \in Pages /\ i \in 0..MaxChunks - 1
      BY <1>6 DEF History!LoadFetched, HistoryTyped, Pages
    <3> QED
      BY <1>6, <3>1, OneMoreChunk DEF History!LoadFetched, FetchesInv
  <2>2. CASE i + 1 < MaxChunks /\ loading' = [loading EXCEPT !.fresh = fresh] /\ UNCHANGED <<buffer, chunkIndex, hasMoreBlocks, mixed>>
    <3> HIDE DEF fresh
    <3>1. loading'.fresh = fresh /\ loading'.account = loading.account /\ loading'.current = loading.current
          /\ loading' \in [account : Accounts \cup {NoAccount}, current : BOOLEAN, fresh : Pages]
      BY <2>1, <2>2 DEF HistoryTyped
    <3>2. UNCHANGED <<account, page, ensures, reload>>
      BY <1>6 DEF History!LoadFetched
    <3>3. HistoryTyped'
      BY <2>1, <2>2, <3>1, <3>2 DEF HistoryTyped
    <3> QED
      BY <2>1, <2>2, <3>1, <3>2, <3>3 DEF HistoryInv, BufferInv, FetchesInv, InOrder
  <2>3. CASE History!Swap(fresh, History!HasMore(i))
    <3>1. History!HasMore(i) \in BOOLEAN /\ UNCHANGED <<account, page, ensures, reload>>
      BY <1>6, <2>1 DEF History!LoadFetched, History!HasMore, HistoryAssumption, History!FlagsAssumption
    <3> HIDE DEF fresh
    <3> QED
      BY <1>5, <2>1, <2>3, <3>1
  <2> QED
    BY <1>6, <2>2, <2>3 DEF History!LoadFetched
<1>7. CASE History!LoadFailed
  <2>1. loading.fresh \in Pages /\ Len(loading.fresh) <= MaxChunks /\ InOrder(loading.fresh, loading.account)
    BY DEF HistoryTyped, FetchesInv, Pages
  <2>2. History!Swap(loading.fresh, FALSE) /\ UNCHANGED <<account, page, ensures, reload>>
    BY <1>7 DEF History!LoadFailed
  <2> QED
    BY <1>5, <2>1, <2>2
<1>8. ASSUME NEW a \in Accounts, History!SwitchAccount(a) PROVE HistoryInv'
  <2>1. /\ ensures' \in [Turns -> Fetches]
        /\ \A u \in Turns : ~ensures'[u].current /\ ensures'[u].account = ensures[u].account
        /\ \A u \in Turns : ensures'[u] # History!Done => ensures[u] # History!Done
    BY <1>8 DEF History!SwitchAccount, HistoryTyped, Fetches, History!Done
  <2>2. /\ loading' \in [account : Accounts \cup {NoAccount}, current : BOOLEAN, fresh : Pages]
        /\ loading'.fresh = loading.fresh /\ loading'.account = loading.account /\ ~loading'.current
        /\ loading' # History!NotLoading => loading # History!NotLoading
    BY <1>8 DEF History!SwitchAccount, HistoryTyped, History!NotLoading, Pages
  <2>3. HistoryTyped'
    BY <1>8, <2>1, <2>2 DEF HistoryTyped, History!SwitchAccount, HistoryAssumption, History!BoundsAssumption
  <2> QED
    BY <1>8, <2>1, <2>2, <2>3 DEF HistoryInv, BufferInv, FetchesInv, InOrder, History!SwitchAccount
<1>9. CASE History!Tick
  BY <1>9 DEF History!Tick, History!store, HistoryInv, HistoryTyped, BufferInv, FetchesInv, InOrder
<1> QED
  BY <1>1, <1>2, <1>3, <1>4, <1>6, <1>7, <1>8, <1>9 DEF History!Next, History!Answers

\* A store that stopped asking has a reason, and keeps it until it asks again
\* (hasMoreBlocks; the catch of ensure and of load).
LEMMA MoreStep ==
  ASSUME HistoryAssumption, HistoryInv, MoreInv, History!Next
  PROVE  MoreInv'
<1>1. /\ account \in Accounts /\ chunkIndex \in Nat /\ Chunks \in Nat /\ MaxChunks \in Nat /\ hasMoreBlocks \in BOOLEAN
      /\ \A t \in Turns : ensures[t] # History!Done => ensures[t].account \in Accounts
      /\ \A t \in Turns : ensures[t].current => mixed \/ ensures[t].index = chunkIndex
      /\ mixed \in BOOLEAN
      /\ Len(loading.fresh) \in Nat
      /\ loading.current => loading.account = account
  BY DEF HistoryInv, HistoryTyped, HistoryAssumption, History!ChunksAssumption, FetchesInv, Pages
<1>2. ASSUME NEW t \in Turns, History!Fetched(t) PROVE MoreInv'
  <2>0. CASE mixed
    BY <1>2, <2>0 DEF History!Fetched, MoreInv
  <2> SUFFICES ASSUME ~mixed PROVE MoreInv'
    BY <2>0
  <2>1. /\ hasMoreBlocks' = (History!HasMore(chunkIndex) /\ chunkIndex + 1 < MaxChunks)
        /\ chunkIndex' = chunkIndex + 1 /\ failed' = failed
    BY <1>1, <1>2 DEF History!Fetched
  <2>2. CASE chunkIndex + 1 < Chunks /\ chunkIndex + 1 < MaxChunks
    <3>1. History!HasMore(chunkIndex)
      BY <2>2 DEF History!HasMore
    <3>2. hasMoreBlocks'
      BY <2>1, <2>2, <3>1
    <3> QED
      BY <2>1, <3>2 DEF MoreInv
  <2>3. CASE ~(chunkIndex + 1 < Chunks /\ chunkIndex + 1 < MaxChunks)
    <3>1. chunkIndex' >= Chunks \/ chunkIndex' >= MaxChunks
      BY <1>1, <2>1, <2>3
    <3> QED
      BY <2>1, <3>1 DEF MoreInv
  <2> QED
    BY <2>2, <2>3
<1>3. ASSUME NEW t \in Turns, History!FetchFailed(t) PROVE MoreInv'
  BY <1>3 DEF History!FetchFailed, MoreInv
<1>4. ASSUME NEW fresh, NEW more, History!Swap(fresh, more), Len(fresh) \in Nat,
             IF loading.current
             THEN more \/ failed' # {} \/ Len(fresh) >= Chunks \/ Len(fresh) >= MaxChunks
             ELSE failed' = failed
      PROVE  MoreInv'
  <2>1. CASE loading.current
    <3>1. /\ chunkIndex' = Len(fresh) /\ hasMoreBlocks' = (more /\ Len(fresh) < MaxChunks)
          /\ more \/ failed' # {} \/ Len(fresh) >= Chunks \/ Len(fresh) >= MaxChunks
      BY <1>4, <2>1 DEF History!Swap
    <3>2. CASE more /\ Len(fresh) < MaxChunks
      BY <3>1, <3>2 DEF MoreInv
    <3>3. CASE ~(Len(fresh) < MaxChunks)
      <4>1. chunkIndex' >= MaxChunks
        BY <1>1, <1>4, <3>1, <3>3
      <4> QED
        BY <4>1 DEF MoreInv
    <3>4. CASE ~more
      BY <3>1, <3>4 DEF MoreInv
    <3> QED
      BY <3>2, <3>3, <3>4
  <2>2. CASE ~loading.current
    BY <1>4, <2>2 DEF History!Swap, MoreInv
  <2> QED
    BY <2>1, <2>2
<1>5. CASE History!LoadFetched
  <2> DEFINE i == Len(loading.fresh)
             fresh == Append(loading.fresh, History!Chunk(loading.account, i))
  <2>1. Len(fresh) = i + 1
    BY <1>5 DEF HistoryInv, HistoryTyped, Pages
  <2>2. \/ UNCHANGED <<chunkIndex, hasMoreBlocks, failed, mixed>>
        \/ /\ ~(History!Wants(fresh, page, History!HasMore(i)) /\ i + 1 < MaxChunks)
           /\ History!Swap(fresh, History!HasMore(i)) /\ failed' = IF loading.current THEN {} ELSE failed
    BY <1>5 DEF History!LoadFetched
  <2>3. History!HasMore(i) \/ Len(fresh) >= Chunks
    BY <1>1, <2>1 DEF History!HasMore
  <2> HIDE DEF fresh
  <2> QED
    BY <1>1, <1>4, <2>1, <2>2, <2>3 DEF MoreInv
<1>6. CASE History!LoadFailed
  <2>1. /\ History!Swap(loading.fresh, FALSE)
        /\ failed' = IF loading.current THEN {loading.account} ELSE failed
    BY <1>6 DEF History!LoadFailed
  <2> QED
    BY <1>1, <1>4, <2>1
<1>7. CASE \/ History!StartLoad \/ History!Tick
           \/ \E t \in Turns : History!FetchedStale(t) \/ \E p \in 0..MaxPage : History!Goto(t, p)
  BY <1>7 DEF History!StartLoad, History!Tick, History!FetchedStale, History!Goto, History!store, MoreInv
<1>8. ASSUME NEW a \in Accounts, History!SwitchAccount(a) PROVE MoreInv'
  BY <1>8 DEF History!SwitchAccount, MoreInv
<1> QED
  BY <1>2, <1>3, <1>5, <1>6, <1>7, <1>8 DEF History!Next, History!Answers

\* The invariant of the pages holds in every reachable state.
LEMMA HistoryInvariant ==
  ASSUME HistoryAssumption
  PROVE  History!Spec => []HistoryInv
<1>1. ASSUME History!Init PROVE HistoryInv
  <2>1. /\ account \in Accounts /\ buffer = <<>> /\ chunkIndex = 0 /\ hasMoreBlocks = TRUE /\ page = 0
        /\ ensures = [t \in Turns |-> History!Done] /\ loading = History!NotLoading
        /\ reload = TRUE /\ mixed = FALSE
    BY <1>1 DEF History!Init
  <2>2. <<>> \in Pages /\ Len(<<>>) = 0
    BY DEF Pages
  <2>3. MaxChunks \in Nat \ {0} /\ MaxPage \in Nat
    BY DEF HistoryAssumption, History!ChunksAssumption, History!BoundsAssumption
  <2>4. ensures \in [Turns -> Fetches] /\ \A t \in Turns : ensures[t] = History!Done
    BY <2>1, <2>3 DEF Fetches, History!Done
  <2>5. loading \in [account : Accounts \cup {NoAccount}, current : BOOLEAN, fresh : Pages]
        /\ Len(loading.fresh) = 0
    BY <2>1, <2>2 DEF History!NotLoading
  <2>6. page \in 0..MaxPage /\ chunkIndex \in Nat /\ chunkIndex <= MaxChunks /\ Len(buffer) = chunkIndex
    BY <2>1, <2>2, <2>3
  <2>7. HistoryTyped
    <3>1. mixed \in BOOLEAN /\ hasMoreBlocks \in BOOLEAN /\ reload \in BOOLEAN
      BY <2>1
    <3>2. account \in Accounts /\ buffer \in Pages /\ (loading # History!NotLoading => loading.account \in Accounts)
      BY <2>1, <2>2
    <3>3. Len(loading.fresh) < MaxChunks
      BY <2>3, <2>5
    <3>4. \A t \in Turns : ensures[t] # History!Done => ensures[t].account \in Accounts
      BY <2>4
    <3> QED
      BY <2>4, <2>5, <2>6, <3>1, <3>2, <3>3, <3>4 DEF HistoryTyped
  <2> QED
    BY <2>1, <2>4, <2>7 DEF HistoryInv, FetchesInv, BufferInv, InOrder, History!Done, History!NotLoading
<1>2. HistoryInv /\ [History!Next]_(History!vars) => HistoryInv'
  <2>1. ASSUME HistoryInv, UNCHANGED History!vars PROVE HistoryInv'
    BY <2>1 DEF History!vars, History!store, HistoryInv, HistoryTyped, FetchesInv, BufferInv, InOrder
  <2> QED
    BY <2>1, HistoryStep
<1> QED
  BY <1>1, <1>2, PTL DEF History!Spec

\* Every field keeps its type, and the buffer stays under its cap unless fetches
\* overlapped, whatever the node claims and whichever fetches fail (MAX_CHUNKS).
THEOREM HistoryTypes ==
  ASSUME HistoryAssumption
  PROVE  History!Spec => []History!TypeOK
<1>1. HistoryInv => History!TypeOK
  BY DEF HistoryInv, HistoryTyped, Pages, History!TypeOK
<1> QED
  BY <1>1, HistoryInvariant, PTL

\* When no fetch is under way or due, the buffer is the first chunks of the active
\* account, each once and in order, until fetches of the account overlap, and again
\* from the next load that lands alone: for any history, cap and sequence of
\* switches, momentums, failures and pages turned to (ensure, load; the epoch check).
THEOREM PagesStayInOrder ==
  ASSUME HistoryAssumption
  PROVE  History!Spec => []History!OrderRestored
<1>1. ASSUME HistoryInv, ~mixed, History!Quiet
      PROVE  buffer = [i \in 1..chunkIndex |-> History!Chunk(account, i - 1)]
  <2>1. ~reload /\ ~loading.current
    BY <1>1 DEF History!Quiet, History!AnyFetch, History!NotLoading
  <2>2. InOrder(buffer, account) /\ buffer \in Pages /\ Len(buffer) = chunkIndex
    BY <1>1, <2>1 DEF HistoryInv, BufferInv, HistoryTyped
  <2> QED
    BY <2>2 DEF InOrder, Pages, History!Chunk
<1>2. HistoryInv => History!OrderRestored
  BY <1>1 DEF History!PagesInOrder, History!OrderRestored
<1> QED
  BY <1>2, HistoryInvariant, PTL

\* When no fetch is under way or due, the store stops asking for more only at the
\* end of the active account's history, at the cap, or while no load has landed
\* since fetches overlapped or one failed (hasMoreBlocks).
THEOREM AsksForMore ==
  ASSUME HistoryAssumption
  PROVE  History!Spec => []History!MoreRestored
<1>1. History!Init => MoreInv
  BY DEF History!Init, MoreInv
<1>2. HistoryInv /\ MoreInv /\ [History!Next]_(History!vars) => MoreInv'
  <2>1. ASSUME MoreInv, UNCHANGED History!vars PROVE MoreInv'
    BY <2>1 DEF History!vars, History!store, MoreInv
  <2> QED
    BY <2>1, MoreStep
<1>3. MoreInv => History!MoreRestored
  BY DEF MoreInv, History!MoreRestored
<1> QED
  BY <1>1, <1>2, <1>3, HistoryInvariant, PTL DEF History!Spec

-----------------------------------------------------------------------------
(***************************************************************************)
(* NodeStore: its constants and variables, and the instance.               *)
(***************************************************************************)
CONSTANTS Pulls, MaxVersion, MaxWire, MaxMounts

VARIABLES
  version, mode, connected, silent, pollers, wire, shown, storeMode, statusSeq, sync,
  listening, mounted, mounts, pulls, pushed

Node == INSTANCE NodeStore

-----------------------------------------------------------------------------
(* The inductive invariant.                                                *)

Modes == {"remote", "embedded"}
Messages ==
  [kind : {"status"}, version : Nat, mode : Modes] \cup [kind : {"answer"}, pull : Pulls]
  \cup [kind : {"sync"}, state : {"syncing", "synced"}]
PullTypes == [pc : {"none", "called", "read", "answered"}, seq : Nat, version : Nat, mode : Modes]

NodeTyped ==
  /\ Node!TypeOK
  /\ wire \in Seq(Messages) /\ pulls \in [Pulls -> PullTypes]
  /\ {version, shown, statusSeq, pushed} \subseteq Nat

\* The backend's status is on its way.
Told == \E k \in DOMAIN wire : wire[k] = Node!Status(version, mode)

\* Statuses are under way in the order they were sent, the last one of them
\* unless the backend is silent; each pull has one answer.
WireInv ==
  /\ \A j, k \in DOMAIN wire :
       /\ wire[j].kind = "answer" /\ wire[k].kind = "answer" /\ wire[j].pull = wire[k].pull => j = k
       /\ wire[j].kind = "status" /\ wire[k].kind = "status" /\ j < k => wire[j].version < wire[k].version
  /\ \A k \in DOMAIN wire :
       /\ wire[k].kind = "answer" => pulls[wire[k].pull].pc = "answered"
       /\ wire[k].kind = "status" =>
            /\ wire[k].version <= version /\ (silent => wire[k].version < version)
            /\ silent \/ Told

\* An answer that will be shown is no older than what was pushed, and is of
\* the backend's status unless a push will follow it.
PullInv ==
  \A p \in Pulls :
    /\ pulls[p].pc # "none" => listening
    /\ pulls[p].pc \in {"read", "answered"} /\ pulls[p].seq = statusSeq =>
         /\ pushed <= pulls[p].version
         /\ silent \/ Told \/ (pulls[p].version = version /\ pulls[p].mode = mode)

\* A store that listens shows the backend's status or will learn it.
LearnsInv ==
  listening /\ ~silent =>
    \/ Told \/ (shown = version /\ storeMode = mode)
    \/ \E p \in Pulls : pulls[p].pc # "none" /\ pulls[p].seq = statusSeq

NodeInv ==
  /\ NodeTyped /\ WireInv /\ PullInv /\ LearnsInv
  /\ Node!PushWins /\ Node!NoSyncOutsideEmbedded

-----------------------------------------------------------------------------
(* The wire.                                                               *)

\* A message is sent behind the others.
LEMMA NodeSends ==
  ASSUME wire \in Seq(Messages), NEW m \in Messages, Node!Send(m)
  PROVE  /\ wire' \in Seq(Messages) /\ DOMAIN wire \subseteq Nat
         /\ \E n \in DOMAIN wire' :
              /\ n \in Nat /\ wire'[n] = m
              /\ \A k \in DOMAIN wire' : k = n \/ k \in DOMAIN wire
              /\ \A k \in DOMAIN wire : k \in DOMAIN wire' /\ wire'[k] = wire[k] /\ k < n
<1>1. wire' = Append(wire, m) /\ Len(wire) \in Nat /\ DOMAIN wire = 1..Len(wire)
  BY DEF Node!Send
<1>2. /\ wire' \in Seq(Messages) /\ DOMAIN wire' = 1..(Len(wire) + 1) /\ wire'[Len(wire) + 1] = m
      /\ \A k \in 1..Len(wire) : wire'[k] = wire[k]
  BY <1>1
<1>3. Len(wire) + 1 \in DOMAIN wire' /\ Len(wire) + 1 \in Nat
  BY <1>1, <1>2
<1>4. \A k \in DOMAIN wire' : k = Len(wire) + 1 \/ k \in DOMAIN wire
  BY <1>1, <1>2
<1>5. \A k \in DOMAIN wire : k \in DOMAIN wire' /\ wire'[k] = wire[k] /\ k < Len(wire) + 1
  BY <1>1, <1>2
<1> QED
  BY <1>1, <1>2, <1>3, <1>4, <1>5

\* The first message arrives, and the others move up.
LEMMA NodeReceives ==
  ASSUME wire \in Seq(Messages), NEW kind, Node!Receive(kind)
  PROVE  /\ wire' \in Seq(Messages) /\ Head(wire) \in Messages /\ Head(wire).kind = kind
         /\ 1 \in DOMAIN wire /\ Head(wire) = wire[1]
         /\ \A k \in DOMAIN wire' : k \in Nat /\ 1 < k + 1 /\ k + 1 \in DOMAIN wire /\ wire'[k] = wire[k + 1]
         /\ \A k \in DOMAIN wire : k = 1 \/ \E j \in DOMAIN wire' : k = j + 1
<1>1. wire # <<>> /\ wire' = Tail(wire) /\ Head(wire).kind = kind /\ Len(wire) \in Nat
      /\ DOMAIN wire = 1..Len(wire)
  BY DEF Node!Receive
<1>2. /\ wire' \in Seq(Messages) /\ Len(wire') = Len(wire) - 1 /\ DOMAIN wire' = 1..(Len(wire) - 1)
      /\ Len(wire) >= 1 /\ Head(wire) = wire[1] /\ Head(wire) \in Messages
      /\ \A k \in 1..(Len(wire) - 1) : wire'[k] = wire[k + 1]
  BY <1>1
<1>3. ASSUME NEW k \in DOMAIN wire, k # 1 PROVE \E j \in DOMAIN wire' : k = j + 1
  <2>1. k - 1 \in DOMAIN wire' /\ k = (k - 1) + 1
    BY <1>1, <1>2, <1>3
  <2> QED
    BY <2>1
<1> QED
  BY <1>1, <1>2, <1>3

-----------------------------------------------------------------------------
(* The steps.                                                              *)

PullsUpTo(seq, v) == [pc : {"none", "called", "read", "answered"}, seq : 0..seq, version : 0..v, mode : Modes]

\* What is typed stays typed while versions and pushes only grow.
LEMMA NodeTypeStep ==
  ASSUME Node!BoundsAssumption, NodeInv, [Node!Next]_Node!vars PROVE NodeTyped'
<1>1. /\ MaxVersion \in Nat /\ version \in 1..MaxVersion /\ shown \in 0..version /\ pushed \in 0..version
      /\ {version, shown, statusSeq, pushed} \subseteq Nat
      /\ wire \in Seq(Messages) /\ pulls \in [Pulls -> PullTypes]
      /\ \A p \in Pulls : pulls[p] \in PullsUpTo(statusSeq, version)
      /\ mode \in Modes /\ storeMode \in Modes /\ sync \in {"none", "syncing", "synced"}
      /\ {connected, silent, listening, mounted} \subseteq BOOLEAN /\ pollers \subseteq {"own", "dying"}
  BY DEF NodeInv, NodeTyped, Node!TypeOK, Node!NoSync, Node!BoundsAssumption, PullsUpTo, Modes
<1>2. ASSUME version' \in 1..MaxVersion, version' \in Nat, statusSeq' \in Nat, wire' \in Seq(Messages),
             shown' \in 0..version', pushed' \in 0..version', DOMAIN pulls' = Pulls,
             \A p \in Pulls : pulls'[p] \in PullsUpTo(statusSeq', version'),
             pulls' = [p \in Pulls |-> pulls'[p]],
             mode' \in Modes, storeMode' \in Modes, sync' \in {"none", "syncing", "synced"},
             {connected', silent', listening', mounted'} \subseteq BOOLEAN, pollers' \subseteq {"own", "dying"}
      PROVE  NodeTyped'
  <2>1. pulls' \in [Pulls -> PullsUpTo(statusSeq', version')]
    BY <1>2
  <2>2. pulls' \in [Pulls -> PullTypes]
    <3>1. \A p \in Pulls : pulls'[p] \in PullTypes
      BY <1>2 DEF PullsUpTo, PullTypes
    <3> QED
      BY <1>2, <3>1
  <2>3. Node!TypeOK'
    BY <1>2, <2>1 DEF Node!TypeOK, Node!NoSync, PullsUpTo, Modes
  <2>4. {version', shown', statusSeq', pushed'} \subseteq Nat
    BY <1>2
  <2> QED
    BY <1>2, <2>2, <2>3, <2>4 DEF NodeTyped
<1>3. ASSUME UNCHANGED pulls, version' \in Nat, statusSeq' \in Nat, version <= version', statusSeq <= statusSeq'
      PROVE  /\ DOMAIN pulls' = Pulls /\ pulls' = [p \in Pulls |-> pulls'[p]]
             /\ \A p \in Pulls : pulls'[p] \in PullsUpTo(statusSeq', version')
  <2>1. \A p \in Pulls : pulls[p] \in PullsUpTo(statusSeq', version')
    BY <1>1, <1>3 DEF PullsUpTo
  <2> QED
    BY <1>1, <1>3, <2>1
<1>4. ASSUME UNCHANGED <<version, statusSeq>>, NEW q \in Pulls, NEW r \in PullsUpTo(statusSeq, version),
             pulls' = [pulls EXCEPT ![q] = r]
      PROVE  /\ DOMAIN pulls' = Pulls /\ pulls' = [p \in Pulls |-> pulls'[p]]
             /\ \A p \in Pulls : pulls'[p] \in PullsUpTo(statusSeq', version')
  BY <1>1, <1>4
<1>5. ASSUME NEW m \in Messages, Node!Send(m) PROVE wire' \in Seq(Messages)
  BY <1>1, <1>5, NodeSends
<1>6. \A v \in Nat, m \in Modes : Node!Status(v, m) \in Messages
  BY DEF Node!Status, Messages
<1>7. ASSUME NEW m \in Modes, Node!ChangeSilently(m) PROVE NodeTyped'
  <2>1. /\ version' = version + 1 /\ mode' = m /\ connected' = FALSE /\ silent' = TRUE /\ version < MaxVersion
        /\ pollers' \subseteq {"own", "dying"}
        /\ UNCHANGED <<wire, shown, storeMode, statusSeq, sync, listening, mounted, pulls, pushed>>
    BY <1>1, <1>7 DEF Node!ChangeSilently, Node!store
  <2>2. version' \in 1..MaxVersion /\ version' \in Nat /\ version <= version'
        /\ shown' \in 0..version' /\ pushed' \in 0..version'
    BY <1>1, <2>1
  <2>3. /\ DOMAIN pulls' = Pulls /\ pulls' = [p \in Pulls |-> pulls'[p]]
        /\ \A p \in Pulls : pulls'[p] \in PullsUpTo(statusSeq', version')
    BY <1>1, <1>3, <2>1, <2>2
  <2> QED
    BY <1>1, <1>2, <2>1, <2>2, <2>3
<1>8. ASSUME NEW m \in Modes, NEW c \in BOOLEAN, Node!Change(m, c) PROVE NodeTyped'
  <2>1. wire' \in Seq(Messages)
    <3>1. version' \in Nat
      BY <1>1, <1>8 DEF Node!Change
    <3> QED
      BY <1>8, <1>5, <1>6, <3>1 DEF Node!Change
  <2>2. /\ version' = version + 1 /\ mode' = m /\ connected' = c /\ silent' = FALSE /\ version < MaxVersion
        /\ pollers' \subseteq {"own", "dying"}
        /\ UNCHANGED <<shown, storeMode, statusSeq, sync, listening, mounted, pulls, pushed>>
    BY <1>1, <1>8 DEF Node!Change, Node!store
  <2>3. version' \in 1..MaxVersion /\ version' \in Nat /\ version <= version'
        /\ shown' \in 0..version' /\ pushed' \in 0..version'
    BY <1>1, <2>2
  <2>4. /\ DOMAIN pulls' = Pulls /\ pulls' = [p \in Pulls |-> pulls'[p]]
        /\ \A p \in Pulls : pulls'[p] \in PullsUpTo(statusSeq', version')
    BY <1>1, <1>3, <2>2, <2>3
  <2> QED
    BY <1>1, <1>2, <2>1, <2>2, <2>3, <2>4
<1>9. CASE Node!Push
  <2>1. wire' \in Seq(Messages)
    BY <1>1, <1>9, <1>5, <1>6 DEF Node!Push
  <2> QED
    BY <1>1, <1>2, <1>3, <1>9, <2>1 DEF Node!Push, Node!store
<1>10. CASE Node!StartPoller
  BY <1>1, <1>2, <1>3, <1>10 DEF Node!StartPoller, Node!store
<1>11. ASSUME NEW p \in {"own", "dying"}, NEW s \in {"syncing", "synced"}, Node!SyncFrame(p, s) PROVE NodeTyped'
  <2>1. [kind |-> "sync", state |-> s] \in Messages
    BY DEF Messages
  <2>2. wire' \in Seq(Messages)
    BY <1>11, <1>5, <2>1 DEF Node!SyncFrame
  <2> QED
    BY <1>1, <1>2, <1>3, <1>11, <2>2 DEF Node!SyncFrame, Node!store
<1>12. ASSUME NEW p \in Pulls, Node!ReadStatus(p) PROVE NodeTyped'
  <2>1. pulls' = [pulls EXCEPT ![p] = [pulls[p] EXCEPT !.pc = "read", !.version = version, !.mode = mode]]
    BY <1>1, <1>12 DEF Node!ReadStatus
  <2>2. [pulls[p] EXCEPT !.pc = "read", !.version = version, !.mode = mode] \in PullsUpTo(statusSeq, version)
    <3>1. pulls[p] \in PullsUpTo(statusSeq, version) /\ version \in 0..version /\ mode \in Modes
      BY <1>1
    <3> QED
      BY <3>1 DEF PullsUpTo
  <2>3. UNCHANGED <<version, mode, connected, silent, pollers, wire, shown, storeMode, statusSeq, sync, listening, mounted, pushed>>
    BY <1>12 DEF Node!ReadStatus, Node!backend, Node!store
  <2>4. /\ DOMAIN pulls' = Pulls /\ pulls' = [q \in Pulls |-> pulls'[q]]
        /\ \A q \in Pulls : pulls'[q] \in PullsUpTo(statusSeq', version')
    BY <1>4, <2>1, <2>2, <2>3
  <2> QED
    BY <1>1, <1>2, <2>3, <2>4
<1>13. ASSUME NEW p \in Pulls, Node!AnswerPull(p) PROVE NodeTyped'
  <2>1. pulls' = [pulls EXCEPT ![p] = [pulls[p] EXCEPT !.pc = "answered"]]
    BY <1>1, <1>13 DEF Node!AnswerPull
  <2>2. [pulls[p] EXCEPT !.pc = "answered"] \in PullsUpTo(statusSeq, version)
    BY <1>1 DEF PullsUpTo
  <2>3. UNCHANGED <<version, mode, connected, silent, pollers, shown, storeMode, statusSeq, sync, listening, mounted, pushed>>
    BY <1>13 DEF Node!AnswerPull, Node!backend, Node!store
  <2>4. /\ DOMAIN pulls' = Pulls /\ pulls' = [q \in Pulls |-> pulls'[q]]
        /\ \A q \in Pulls : pulls'[q] \in PullsUpTo(statusSeq', version')
    BY <1>4, <2>1, <2>2, <2>3
  <2>5. [kind |-> "answer", pull |-> p] \in Messages
    BY DEF Messages
  <2>6. wire' \in Seq(Messages)
    BY <1>13, <1>5, <2>5 DEF Node!AnswerPull
  <2> QED
    BY <1>1, <1>2, <2>3, <2>4, <2>6
<1>14. ASSUME NEW p \in Pulls, Node!Mount(p) PROVE NodeTyped'
  <2>1. pulls' = [pulls EXCEPT ![p] = [Node!NoPull EXCEPT !.pc = "called", !.seq = statusSeq]]
    BY <1>14 DEF Node!Mount
  <2>2. [Node!NoPull EXCEPT !.pc = "called", !.seq = statusSeq] \in PullsUpTo(statusSeq, version)
    <3>1. Node!NoPull \in PullsUpTo(statusSeq, version) /\ statusSeq \in 0..statusSeq
      BY <1>1 DEF PullsUpTo, Modes, Node!NoPull
    <3> QED
      BY <3>1 DEF PullsUpTo
  <2>3. /\ UNCHANGED <<version, mode, connected, silent, pollers, wire, shown, storeMode, statusSeq, sync, pushed>>
        /\ {listening', mounted'} \subseteq BOOLEAN
    BY <1>14 DEF Node!Mount, Node!backend
  <2>4. /\ DOMAIN pulls' = Pulls /\ pulls' = [q \in Pulls |-> pulls'[q]]
        /\ \A q \in Pulls : pulls'[q] \in PullsUpTo(statusSeq', version')
    BY <1>4, <2>1, <2>2, <2>3
  <2> QED
    BY <1>1, <1>2, <2>3, <2>4
<1>15. CASE Node!clearTick
  BY <1>1, <1>2, <1>3, <1>15 DEF Node!clearTick, Node!backend
<1>16. CASE Node!OnStatus
  <2>1. /\ wire' \in Seq(Messages) /\ Head(wire).mode \in Modes /\ Head(wire).version \in 0..version
    <3>1. /\ wire' \in Seq(Messages) /\ Head(wire) \in Messages /\ Head(wire).kind = "status"
          /\ 1 \in DOMAIN wire /\ Head(wire) = wire[1]
      BY <1>1, <1>16, NodeReceives DEF Node!OnStatus
    <3>2. Head(wire).mode \in Modes /\ Head(wire).version \in Nat
      BY <3>1 DEF Messages
    <3>3. Head(wire).version <= version
      BY <3>1 DEF NodeInv, WireInv
    <3> QED
      BY <1>1, <3>1, <3>2, <3>3
  <2>2. /\ shown' \in 0..version /\ pushed' \in 0..version /\ storeMode' \in Modes
        /\ sync' \in {"none", "syncing", "synced"} /\ statusSeq' \in Nat /\ statusSeq <= statusSeq'
    BY <1>1, <1>16, <2>1 DEF Node!OnStatus, Node!applyStatus, Node!SyncAfter, Node!NoSync
  <2>3. UNCHANGED <<version, mode, connected, silent, pollers, listening, mounted, pulls>>
    BY <1>16 DEF Node!OnStatus, Node!backend
  <2> QED
    BY <1>1, <1>2, <1>3, <2>1, <2>2, <2>3
<1>17. CASE Node!OnSync
  <2>1. wire' \in Seq(Messages) /\ sync' \in {"none", "syncing", "synced"}
    <3>1. wire' \in Seq(Messages) /\ Head(wire) \in Messages /\ Head(wire).kind = "sync"
      BY <1>1, <1>17, NodeReceives DEF Node!OnSync
    <3>2. Head(wire).state \in {"syncing", "synced"}
      BY <3>1 DEF Messages
    <3> QED
      BY <1>1, <1>17, <3>1, <3>2 DEF Node!OnSync
  <2>2. UNCHANGED <<version, mode, connected, silent, pollers, shown, storeMode, statusSeq, listening, mounted, pulls, pushed>>
    BY <1>17 DEF Node!OnSync, Node!backend
  <2> QED
    BY <1>1, <1>2, <1>3, <2>1, <2>2
<1>18. CASE Node!OnAnswer
  <2>1. wire' \in Seq(Messages) /\ Head(wire).pull \in Pulls
    <3>1. wire' \in Seq(Messages) /\ Head(wire) \in Messages /\ Head(wire).kind = "answer"
      BY <1>1, <1>18, NodeReceives DEF Node!OnAnswer
    <3> QED
      BY <3>1 DEF Messages
  <2> DEFINE q == Head(wire).pull
  <2>2. UNCHANGED <<version, mode, connected, silent, pollers, statusSeq, listening, mounted, pushed>>
    BY <1>18 DEF Node!OnAnswer, Node!backend
  <2>3. pulls' = [pulls EXCEPT ![q] = [pc |-> "none", seq |-> 0, version |-> 0, mode |-> "remote"]]
    BY <1>18 DEF Node!OnAnswer, Node!NoPull
  <2>4. [pc |-> "none", seq |-> 0, version |-> 0, mode |-> "remote"] \in PullsUpTo(statusSeq, version)
    BY <1>1 DEF PullsUpTo, Modes
  <2>5. /\ DOMAIN pulls' = Pulls /\ pulls' = [p \in Pulls |-> pulls'[p]]
        /\ \A p \in Pulls : pulls'[p] \in PullsUpTo(statusSeq', version')
    BY <1>4, <2>1, <2>2, <2>3, <2>4
  <2>6. pulls[q].version \in 0..version /\ pulls[q].mode \in Modes
    BY <1>1, <2>1 DEF PullsUpTo
  <2>7. shown' \in 0..version /\ storeMode' \in Modes /\ sync' \in {"none", "syncing", "synced"}
    BY <1>1, <1>18, <2>6 DEF Node!OnAnswer, Node!applyStatus, Node!SyncAfter, Node!NoSync
  <2> QED
    BY <1>1, <1>2, <2>1, <2>2, <2>5, <2>7
<1>19. CASE UNCHANGED Node!vars
  BY <1>1, <1>2, <1>3, <1>19 DEF Node!vars, Node!backend, Node!store
<1> QED
  BY <1>7, <1>8, <1>9, <1>10, <1>11, <1>12, <1>13, <1>14, <1>15, <1>16, <1>17, <1>18, <1>19 DEF Node!Next, Modes

\* A message that brings no status leaves what the store will learn.
LEMMA ToldStays ==
  ASSUME NodeInv, NEW m \in Messages, Node!Send(m), UNCHANGED <<version, mode>>
  PROVE  Told => Told'
<1>1. \A k \in DOMAIN wire : k \in DOMAIN wire' /\ wire'[k] = wire[k]
  BY NodeSends DEF NodeInv, NodeTyped
<1> QED
  BY <1>1 DEF Told, Node!Status

\* So does one that arrives, unless it is the status.
LEMMA ToldLeft ==
  ASSUME NodeInv, NEW kind, Node!Receive(kind), UNCHANGED <<version, mode>>
  PROVE  Told => Told' \/ Head(wire) = Node!Status(version, mode)
<1> SUFFICES ASSUME NEW k \in DOMAIN wire, wire[k] = Node!Status(version, mode), k # 1 PROVE Told'
  BY NodeReceives DEF Told, NodeInv, NodeTyped
<1>1. PICK j \in DOMAIN wire' : k = j + 1
  BY NodeReceives DEF NodeInv, NodeTyped
<1>2. wire'[j] = wire[k]
  BY <1>1, NodeReceives DEF NodeInv, NodeTyped
<1> QED
  BY <1>2 DEF Told, Node!Status

\* What is not the last change of the backend leaves the wire in order.
LEMMA WireLeft ==
  ASSUME NodeInv, NEW kind, Node!Receive(kind), UNCHANGED <<version, mode, silent>>,
         \A p \in Pulls : pulls'[p] = pulls[p] \/ (kind = "answer" /\ p = Head(wire).pull)
  PROVE  WireInv'
<1>1. /\ wire \in Seq(Messages) /\ Head(wire).kind = kind /\ 1 \in DOMAIN wire /\ Head(wire) = wire[1]
      /\ \A k \in DOMAIN wire' : k \in Nat /\ 1 < k + 1 /\ k + 1 \in DOMAIN wire /\ wire'[k] = wire[k + 1]
  BY NodeReceives DEF NodeInv, NodeTyped
<1>2. ASSUME NEW j \in DOMAIN wire', NEW k \in DOMAIN wire'
      PROVE  /\ wire'[j].kind = "answer" /\ wire'[k].kind = "answer" /\ wire'[j].pull = wire'[k].pull => j = k
             /\ wire'[j].kind = "status" /\ wire'[k].kind = "status" /\ j < k => wire'[j].version < wire'[k].version
  <2>1. j < k => j + 1 < k + 1
    BY <1>1
  <2>2. j + 1 = k + 1 => j = k
    BY <1>1
  <2> QED
    BY <1>1, <2>1, <2>2 DEF NodeInv, WireInv
<1>3. ASSUME NEW k \in DOMAIN wire', wire'[k].kind = "answer" PROVE pulls'[wire'[k].pull].pc = "answered"
  <2>1. wire[k + 1].kind = "answer" /\ wire[k + 1] \in Messages /\ k + 1 \in DOMAIN wire /\ 1 # k + 1
    BY <1>1, <1>3
  <2>2. wire[k + 1].pull \in Pulls
    BY <2>1 DEF Messages
  <2>3. kind = "answer" => wire[k + 1].pull # Head(wire).pull
    BY <1>1, <2>1 DEF NodeInv, WireInv
  <2> QED
    BY <1>1, <2>1, <2>2, <2>3 DEF NodeInv, WireInv
<1>4. ASSUME NEW k \in DOMAIN wire', wire'[k].kind = "status"
      PROVE  /\ wire'[k].version <= version' /\ (silent' => wire'[k].version < version')
             /\ silent' \/ Told'
  <2>1. /\ wire[k + 1].kind = "status" /\ k + 1 \in DOMAIN wire /\ wire'[k] = wire[k + 1] /\ 1 < k + 1
        /\ wire[k + 1] \in Messages
    BY <1>1, <1>4
  <2>2. /\ wire[k + 1].version <= version /\ (silent => wire[k + 1].version < version)
        /\ silent \/ Told
    BY <2>1 DEF NodeInv, WireInv
  <2>3. Head(wire) # Node!Status(version, mode)
    <3> SUFFICES ASSUME Head(wire) = Node!Status(version, mode) PROVE FALSE
      OBVIOUS
    <3>1. wire[1].kind = "status" /\ wire[1].version = version
      BY <1>1 DEF Node!Status
    <3>2. version < wire[k + 1].version
      BY <1>1, <2>1, <3>1 DEF NodeInv, WireInv
    <3>3. wire[k + 1].version \in Nat /\ version \in Nat
      BY <2>1 DEF Messages, NodeInv, NodeTyped
    <3> QED
      BY <2>2, <3>2, <3>3
  <2> QED
    BY <2>1, <2>2, <2>3, ToldLeft
<1> QED
  BY <1>2, <1>3, <1>4 DEF WireInv

\* So does an answer that is sent, or a frame.
LEMMA WireSent ==
  ASSUME NodeInv, NEW m \in Messages, Node!Send(m), UNCHANGED <<version, mode, silent>>, m.kind # "status",
         \A p \in Pulls : pulls[p].pc = "answered" => pulls'[p].pc = "answered",
         m.kind = "answer" => pulls[m.pull].pc # "answered" /\ pulls'[m.pull].pc = "answered"
  PROVE  WireInv'
<1>1. PICK n \in DOMAIN wire' :
        /\ n \in Nat /\ wire'[n] = m
        /\ \A k \in DOMAIN wire' : k = n \/ k \in DOMAIN wire
        /\ \A k \in DOMAIN wire : k \in DOMAIN wire' /\ wire'[k] = wire[k] /\ k < n
  BY NodeSends DEF NodeInv, NodeTyped
<1>2. Told => Told'
  BY ToldStays
<1>3. \A k \in DOMAIN wire : wire[k].kind = "answer" => wire[k].pull \in Pulls /\ pulls[wire[k].pull].pc = "answered"
  BY DEF NodeInv, NodeTyped, WireInv, Messages
<1>4. ASSUME NEW j \in DOMAIN wire', NEW k \in DOMAIN wire'
      PROVE  /\ wire'[j].kind = "answer" /\ wire'[k].kind = "answer" /\ wire'[j].pull = wire'[k].pull => j = k
             /\ wire'[j].kind = "status" /\ wire'[k].kind = "status" /\ j < k => wire'[j].version < wire'[k].version
  BY <1>1, <1>3 DEF NodeInv, WireInv
<1>5. ASSUME NEW k \in DOMAIN wire'
      PROVE  /\ wire'[k].kind = "answer" => pulls'[wire'[k].pull].pc = "answered"
             /\ wire'[k].kind = "status" =>
                  /\ wire'[k].version <= version' /\ (silent' => wire'[k].version < version')
                  /\ silent' \/ Told'
  BY <1>1, <1>2, <1>3 DEF NodeInv, WireInv
<1> QED
  BY <1>4, <1>5 DEF WireInv

\* A change that is pushed, at once or later, is the newest status on the wire.
LEMMA WirePushed ==
  ASSUME NodeInv, Node!Send(Node!Status(version', mode')), version' \in Nat, mode' \in Modes,
         version <= version', silent \/ version < version', silent' = FALSE, UNCHANGED pulls
  PROVE  WireInv' /\ Told'
<1> DEFINE m == Node!Status(version', mode')
<1>1. m \in Messages /\ m.kind = "status" /\ m.version = version' /\ m = Node!Status(version', mode') /\ Node!Send(m)
  BY DEF Messages, Node!Status
<1> HIDE DEF m
<1>2. PICK n \in DOMAIN wire' :
        /\ n \in Nat /\ wire'[n] = m
        /\ \A k \in DOMAIN wire' : k = n \/ k \in DOMAIN wire
        /\ \A k \in DOMAIN wire : k \in DOMAIN wire' /\ wire'[k] = wire[k] /\ k < n
  BY <1>1, NodeSends DEF NodeInv, NodeTyped
<1>3. Told'
  BY <1>1, <1>2 DEF Told, Node!Status
<1>4. ASSUME NEW k \in DOMAIN wire, wire[k].kind = "status" PROVE wire[k].version < version' /\ wire[k].version \in Nat
  <2>1. wire[k].version \in Nat /\ version \in Nat
    BY <1>4 DEF NodeInv, NodeTyped, Messages
  <2>2. wire[k].version <= version /\ (silent => wire[k].version < version)
    BY <1>4 DEF NodeInv, WireInv
  <2> QED
    BY <2>1, <2>2
<1>5. \A k \in DOMAIN wire : ~(n < k) /\ k # n
  BY <1>2 DEF NodeInv, NodeTyped
<1>6. ASSUME NEW j \in DOMAIN wire', NEW k \in DOMAIN wire'
      PROVE  /\ wire'[j].kind = "answer" /\ wire'[k].kind = "answer" /\ wire'[j].pull = wire'[k].pull => j = k
             /\ wire'[j].kind = "status" /\ wire'[k].kind = "status" /\ j < k => wire'[j].version < wire'[k].version
  BY <1>1, <1>2, <1>4, <1>5 DEF NodeInv, WireInv
<1>7. ASSUME NEW k \in DOMAIN wire'
      PROVE  /\ wire'[k].kind = "answer" => pulls'[wire'[k].pull].pc = "answered"
             /\ wire'[k].kind = "status" => wire'[k].version <= version'
  BY <1>1, <1>2, <1>4 DEF NodeInv, WireInv
<1> QED
  BY <1>3, <1>6, <1>7 DEF WireInv

\* The store sees every status, in order, or a pull brings it.
LEMMA NodeStep ==
  ASSUME Node!BoundsAssumption, NodeInv, [Node!Next]_Node!vars PROVE NodeInv'
<1>1. /\ version \in Nat /\ shown \in Nat /\ pushed \in 0..version /\ statusSeq \in Nat
      /\ wire \in Seq(Messages) /\ pulls \in [Pulls -> PullTypes] /\ mode \in Modes
      /\ \A p \in Pulls : pulls[p].seq \in 0..statusSeq /\ pulls[p].version \in Nat
  BY DEF NodeInv, NodeTyped, Node!TypeOK, Modes
<1>2. \A v \in Nat, m \in Modes : Node!Status(v, m) \in Messages
  BY DEF Node!Status, Messages
<1>3. ASSUME WireInv', PullInv', LearnsInv', Node!PushWins', Node!NoSyncOutsideEmbedded' PROVE NodeInv'
  BY <1>3, NodeTypeStep DEF NodeInv
<1>4. ASSUME NEW m \in Modes, Node!ChangeSilently(m) PROVE NodeInv'
  <2>1. /\ version' = version + 1 /\ silent' = TRUE
        /\ UNCHANGED <<wire, shown, storeMode, statusSeq, sync, listening, pulls, pushed>>
    BY <1>4 DEF Node!ChangeSilently, Node!store
  <2>2. WireInv'
    <3>1. ASSUME NEW k \in DOMAIN wire, wire[k].kind = "status" PROVE wire[k].version < version' /\ wire[k].version <= version'
      <4>1. wire[k].version \in Nat /\ wire[k].version <= version
        BY <1>1, <3>1 DEF NodeInv, WireInv, Messages
      <4> QED
        BY <1>1, <2>1, <4>1
    <3> QED
      BY <2>1, <3>1 DEF NodeInv, WireInv
  <2>3. PullInv'
    BY <2>1 DEF NodeInv, PullInv
  <2>4. LearnsInv' /\ Node!PushWins' /\ Node!NoSyncOutsideEmbedded'
    BY <2>1 DEF NodeInv, LearnsInv, Node!PushWins, Node!NoSyncOutsideEmbedded
  <2> QED
    BY <1>3, <2>2, <2>3, <2>4
<1>5. ASSUME NEW m \in Modes, NEW c \in BOOLEAN, Node!Change(m, c) PROVE NodeInv'
  <2>1. /\ version' = version + 1 /\ mode' = m /\ silent' = FALSE /\ Node!Send(Node!Status(version', mode'))
        /\ UNCHANGED <<shown, storeMode, statusSeq, sync, listening, pulls, pushed>>
    BY <1>5 DEF Node!Change, Node!store
  <2>2. WireInv' /\ Told'
    <3>1. version' \in Nat /\ mode' \in Modes /\ version <= version' /\ version < version'
      BY <1>1, <2>1
    <3> QED
      BY <2>1, <3>1, WirePushed
  <2>3. PullInv' /\ LearnsInv' /\ Node!PushWins' /\ Node!NoSyncOutsideEmbedded'
    BY <2>1, <2>2 DEF NodeInv, PullInv, LearnsInv, Node!PushWins, Node!NoSyncOutsideEmbedded
  <2> QED
    BY <1>3, <2>2, <2>3
<1>6. CASE Node!Push
  <2>1. /\ silent /\ silent' = FALSE /\ Node!Send(Node!Status(version', mode'))
        /\ UNCHANGED <<version, mode, shown, storeMode, statusSeq, sync, listening, pulls, pushed>>
    BY <1>6 DEF Node!Push, Node!store
  <2>2. WireInv' /\ Told'
    <3>1. version' \in Nat /\ mode' \in Modes /\ version <= version'
      BY <1>1, <2>1
    <3> QED
      BY <2>1, <3>1, WirePushed
  <2>3. PullInv' /\ LearnsInv' /\ Node!PushWins' /\ Node!NoSyncOutsideEmbedded'
    BY <2>1, <2>2 DEF NodeInv, PullInv, LearnsInv, Node!PushWins, Node!NoSyncOutsideEmbedded
  <2> QED
    BY <1>3, <2>2, <2>3
<1>7. CASE UNCHANGED <<version, mode, silent, wire, shown, storeMode, statusSeq, sync, listening, pulls, pushed>>
  <2>1. WireInv' /\ PullInv' /\ LearnsInv' /\ Node!PushWins' /\ Node!NoSyncOutsideEmbedded'
    BY <1>7 DEF NodeInv, WireInv, PullInv, LearnsInv, Told, Node!Status, Node!PushWins, Node!NoSyncOutsideEmbedded
  <2> QED
    BY <1>3, <2>1
<1>8. ASSUME NEW p \in {"own", "dying"}, NEW s \in {"syncing", "synced"}, Node!SyncFrame(p, s) PROVE NodeInv'
  <2> DEFINE m == [kind |-> "sync", state |-> s]
  <2>1. m \in Messages /\ m.kind = "sync"
    BY DEF Messages
  <2>2. /\ Node!Send(m)
        /\ UNCHANGED <<version, mode, silent, shown, storeMode, statusSeq, sync, listening, pulls, pushed>>
    BY <1>8 DEF Node!SyncFrame, Node!store
  <2> HIDE DEF m
  <2>3. WireInv' /\ (Told => Told')
    BY <2>1, <2>2, WireSent, ToldStays
  <2>4. PullInv' /\ LearnsInv' /\ Node!PushWins' /\ Node!NoSyncOutsideEmbedded'
    BY <2>2, <2>3 DEF NodeInv, PullInv, LearnsInv, Node!PushWins, Node!NoSyncOutsideEmbedded
  <2> QED
    BY <1>3, <2>3, <2>4
<1>9. ASSUME NEW p \in Pulls, Node!ReadStatus(p) PROVE NodeInv'
  <2>1. /\ pulls[p].pc = "called" /\ pulls'[p].pc = "read" /\ pulls'[p].seq = pulls[p].seq
        /\ pulls'[p].version = version /\ pulls'[p].mode = mode
        /\ \A q \in Pulls : q # p => pulls'[q] = pulls[q]
    BY <1>1, <1>9 DEF Node!ReadStatus, PullTypes
  <2>2. UNCHANGED <<version, mode, silent, wire, shown, storeMode, statusSeq, sync, listening, pushed>>
    BY <1>9 DEF Node!ReadStatus, Node!backend, Node!store
  <2>3. Told => Told'
    BY <2>2 DEF Told, Node!Status
  <2>4. WireInv'
    <3>1. \A k \in DOMAIN wire : wire[k].kind = "answer" => wire[k].pull \in Pulls /\ wire[k].pull # p
      BY <1>1, <2>1 DEF NodeInv, WireInv, Messages
    <3> QED
      BY <2>1, <2>2, <2>3, <3>1 DEF NodeInv, WireInv
  <2>5. PullInv'
    BY <1>1, <2>1, <2>2, <2>3 DEF NodeInv, PullInv
  <2>6. LearnsInv' /\ Node!PushWins' /\ Node!NoSyncOutsideEmbedded'
    BY <2>1, <2>2, <2>3 DEF NodeInv, LearnsInv, Node!PushWins, Node!NoSyncOutsideEmbedded
  <2> QED
    BY <1>3, <2>4, <2>5, <2>6
<1>10. ASSUME NEW p \in Pulls, Node!AnswerPull(p) PROVE NodeInv'
  <2>1. /\ pulls[p].pc = "read" /\ pulls'[p].pc = "answered" /\ pulls'[p].seq = pulls[p].seq
        /\ pulls'[p].version = pulls[p].version /\ pulls'[p].mode = pulls[p].mode
        /\ \A q \in Pulls : q # p => pulls'[q] = pulls[q]
    BY <1>1, <1>10 DEF Node!AnswerPull, PullTypes
  <2> DEFINE m == [kind |-> "answer", pull |-> p]
  <2>2. m \in Messages /\ m.kind = "answer" /\ m.pull = p
    BY DEF Messages
  <2>3. /\ Node!Send(m)
        /\ UNCHANGED <<version, mode, silent, shown, storeMode, statusSeq, sync, listening, pushed>>
    BY <1>10 DEF Node!AnswerPull, Node!backend, Node!store
  <2> HIDE DEF m
  <2>4. WireInv' /\ (Told => Told')
    BY <2>1, <2>2, <2>3, WireSent, ToldStays
  <2>5. PullInv'
    BY <2>1, <2>3, <2>4 DEF NodeInv, PullInv
  <2>6. LearnsInv' /\ Node!PushWins' /\ Node!NoSyncOutsideEmbedded'
    BY <2>1, <2>3, <2>4 DEF NodeInv, LearnsInv, Node!PushWins, Node!NoSyncOutsideEmbedded
  <2> QED
    BY <1>3, <2>4, <2>5, <2>6
<1>11. ASSUME NEW p \in Pulls, Node!Mount(p) PROVE NodeInv'
  <2>1. /\ pulls[p].pc = "none" /\ pulls'[p].pc = "called" /\ pulls'[p].seq = statusSeq
        /\ \A q \in Pulls : q # p => pulls'[q] = pulls[q]
    BY <1>1, <1>11 DEF Node!Mount, Node!NoPull
  <2>2. listening' /\ UNCHANGED <<version, mode, silent, wire, shown, storeMode, statusSeq, sync, pushed>>
    BY <1>11 DEF Node!Mount, Node!backend
  <2>3. Told => Told'
    BY <2>2 DEF Told, Node!Status
  <2>4. WireInv'
    <3>1. \A k \in DOMAIN wire : wire[k].kind = "answer" => wire[k].pull \in Pulls /\ wire[k].pull # p
      BY <1>1, <2>1 DEF NodeInv, WireInv, Messages
    <3> QED
      BY <2>1, <2>2, <2>3, <3>1 DEF NodeInv, WireInv
  <2>5. PullInv'
    BY <2>1, <2>2, <2>3 DEF NodeInv, PullInv
  <2>6. LearnsInv' /\ Node!PushWins' /\ Node!NoSyncOutsideEmbedded'
    BY <2>1, <2>2 DEF NodeInv, LearnsInv, Node!PushWins, Node!NoSyncOutsideEmbedded
  <2> QED
    BY <1>3, <2>4, <2>5, <2>6
<1>12. CASE Node!OnStatus
  <2>1. /\ wire[1].kind = "status" /\ wire[1] \in Messages /\ 1 \in DOMAIN wire /\ Head(wire) = wire[1]
        /\ Node!Receive("status")
    BY <1>1, <1>12, NodeReceives DEF Node!OnStatus
  <2>2. wire[1].version \in Nat /\ wire[1].version <= version /\ (silent \/ Told)
    BY <2>1 DEF Messages, NodeInv, WireInv
  <2>3. UNCHANGED <<version, mode, silent, listening, pulls>>
    BY <1>12 DEF Node!OnStatus, Node!backend
  <2>4. WireInv' /\ (Told => Told' \/ wire[1] = Node!Status(version, mode))
    BY <2>1, <2>3, WireLeft, ToldLeft
  <2>5. CASE listening
    <3>1. /\ statusSeq' = statusSeq + 1 /\ pushed' = wire[1].version /\ shown' = wire[1].version
          /\ storeMode' = wire[1].mode /\ sync' = IF storeMode = "embedded" /\ storeMode' # "embedded" THEN "none" ELSE sync
      BY <1>12, <2>1, <2>5 DEF Node!OnStatus, Node!applyStatus, Node!SyncAfter, Node!NoSync
    <3>2. \A p \in Pulls : pulls[p].seq # statusSeq'
      BY <1>1, <3>1
    <3>3. PullInv'
      BY <2>3, <2>5, <3>2 DEF PullInv
    <3>4. LearnsInv'
      BY <2>2, <2>3, <2>4, <3>1 DEF LearnsInv, Node!Status
    <3>5. Node!PushWins' /\ Node!NoSyncOutsideEmbedded'
      BY <2>2, <3>1 DEF NodeInv, Node!PushWins, Node!NoSyncOutsideEmbedded, Node!NoSync
    <3> QED
      BY <1>3, <2>4, <3>3, <3>4, <3>5
  <2>6. CASE ~listening
    <3>1. UNCHANGED <<statusSeq, pushed, shown, storeMode, sync>>
      BY <1>12, <2>6 DEF Node!OnStatus
    <3>2. PullInv' /\ LearnsInv'
      BY <2>3, <2>6 DEF NodeInv, PullInv, LearnsInv
    <3>3. Node!PushWins' /\ Node!NoSyncOutsideEmbedded'
      BY <3>1 DEF NodeInv, Node!PushWins, Node!NoSyncOutsideEmbedded
    <3> QED
      BY <1>3, <2>4, <3>2, <3>3
  <2> QED
    BY <2>5, <2>6 DEF NodeInv, NodeTyped, Node!TypeOK
<1>13. CASE Node!OnSync
  <2>1. Node!Receive("sync") /\ Head(wire).kind = "sync"
    BY <1>1, <1>13, NodeReceives DEF Node!OnSync
  <2>2. UNCHANGED <<version, mode, silent, shown, storeMode, statusSeq, listening, pulls, pushed>>
    BY <1>13 DEF Node!OnSync, Node!backend
  <2>3. WireInv' /\ (Told => Told')
    BY <2>1, <2>2, WireLeft, ToldLeft DEF Node!Status
  <2>4. PullInv' /\ LearnsInv' /\ Node!PushWins'
    BY <2>2, <2>3 DEF NodeInv, PullInv, LearnsInv, Node!PushWins
  <2>5. Node!NoSyncOutsideEmbedded'
    BY <1>13, <2>2 DEF NodeInv, Node!OnSync, Node!NoSyncOutsideEmbedded
  <2> QED
    BY <1>3, <2>3, <2>4, <2>5
<1>14. CASE Node!OnAnswer
  <2>1. /\ Node!Receive("answer") /\ wire[1].kind = "answer" /\ wire[1] \in Messages /\ 1 \in DOMAIN wire
        /\ Head(wire) = wire[1]
    BY <1>1, <1>14, NodeReceives DEF Node!OnAnswer
  <2> DEFINE q == wire[1].pull
  <2>2. q \in Pulls /\ pulls[q].pc = "answered"
    BY <2>1 DEF Messages, NodeInv, WireInv
  <2>3. UNCHANGED <<version, mode, silent, statusSeq, listening, pushed>>
    BY <1>14 DEF Node!OnAnswer, Node!backend
  <2>4. /\ pulls'[q].pc = "none" /\ \A p \in Pulls : p # q => pulls'[p] = pulls[p]
        /\ IF pulls[q].seq = statusSeq
           THEN /\ shown' = pulls[q].version /\ storeMode' = pulls[q].mode
                /\ sync' = IF storeMode = "embedded" /\ storeMode' # "embedded" THEN "none" ELSE sync
           ELSE UNCHANGED <<shown, storeMode, sync>>
    BY <1>1, <1>14, <2>1, <2>2 DEF Node!OnAnswer, Node!applyStatus, Node!SyncAfter, Node!NoSync, Node!NoPull
  <2> HIDE DEF q
  <2>5. WireInv' /\ (Told => Told')
    <3>1. \A p \in Pulls : pulls'[p] = pulls[p] \/ p = Head(wire).pull
      BY <2>1, <2>4 DEF q
    <3> QED
      BY <2>1, <2>3, <3>1, WireLeft, ToldLeft DEF Node!Status
  <2>6. pulls[q].seq = statusSeq =>
          pushed <= pulls[q].version /\ (silent \/ Told \/ (pulls[q].version = version /\ pulls[q].mode = mode))
    BY <2>2 DEF NodeInv, PullInv
  <2>7. PullInv'
    BY <2>3, <2>4, <2>5 DEF NodeInv, PullInv
  <2>8. LearnsInv'
    BY <2>3, <2>4, <2>5, <2>6 DEF NodeInv, LearnsInv
  <2>9. Node!PushWins' /\ Node!NoSyncOutsideEmbedded'
    BY <1>1, <2>2, <2>3, <2>4, <2>6 DEF NodeInv, Node!PushWins, Node!NoSyncOutsideEmbedded, Node!NoSync
  <2> QED
    BY <1>3, <2>5, <2>7, <2>8, <2>9
<1>15. CASE Node!StartPoller \/ Node!clearTick \/ UNCHANGED Node!vars
  BY <1>7, <1>15 DEF Node!StartPoller, Node!clearTick, Node!vars, Node!backend, Node!store
<1> QED
  BY <1>4, <1>5, <1>6, <1>8, <1>9, <1>10, <1>11, <1>12, <1>13, <1>14, <1>15 DEF Node!Next, Modes

\* The invariant of the node store holds in every reachable state.
LEMMA NodeInvariant == ASSUME Node!BoundsAssumption PROVE Node!Spec => []NodeInv
<1>1. Node!Init => NodeInv
  <2> SUFFICES ASSUME Node!Init PROVE NodeInv
    OBVIOUS
  <2>1. /\ pulls \in [Pulls -> PullTypes] /\ \A p \in Pulls : pulls[p].pc = "none"
        /\ pulls \in [Pulls -> [pc : {"none", "called", "read", "answered"}, seq : 0..statusSeq,
                                version : 0..version, mode : {"remote", "embedded"}]]
    BY DEF Node!Init, Node!NoPull, PullTypes, Modes
  <2>2. Node!TypeOK
    <3>1. version \in 1..MaxVersion /\ shown \in 0..version /\ pushed \in 0..version
      BY DEF Node!Init, Node!BoundsAssumption
    <3> QED
      BY <2>1, <3>1 DEF Node!Init, Node!TypeOK, Node!NoSync
  <2>3. wire \in Seq(Messages) /\ DOMAIN wire = {}
    BY DEF Node!Init
  <2>4. NodeTyped
    BY <2>1, <2>2, <2>3 DEF Node!Init, NodeTyped
  <2>5. WireInv /\ PullInv
    BY <2>1, <2>3 DEF WireInv, PullInv
  <2>6. LearnsInv /\ Node!PushWins /\ Node!NoSyncOutsideEmbedded
    BY DEF Node!Init, LearnsInv, Node!PushWins, Node!NoSyncOutsideEmbedded, Node!NoSync
  <2> QED
    BY <2>4, <2>5, <2>6 DEF NodeInv
<1>2. NodeInv /\ [Node!Next]_Node!vars => NodeInv'
  BY NodeStep
<1> QED
  BY <1>1, <1>2, PTL DEF Node!Spec

\* Every field of the node store keeps its type: no status is shown that was
\* never the backend's (node.ts applyStatus).
THEOREM NodeStoreTypes == ASSUME Node!BoundsAssumption PROVE Node!Spec => []Node!TypeOK
<1>1. NodeInv => Node!TypeOK
  BY DEF NodeInv, NodeTyped
<1> QED
  BY <1>1, NodeInvariant, PTL

\* No answer to a pull brings back a status older than one that was pushed
\* (node.ts refreshStatus).
THEOREM PushAlwaysWins == ASSUME Node!BoundsAssumption PROVE Node!Spec => []Node!PushWins
<1>1. NodeInv => Node!PushWins
  BY DEF NodeInv
<1> QED
  BY <1>1, NodeInvariant, PTL

\* Nothing under way, a store that listens shows the backend's status, whatever
\* was lost before it listened (node.ts initEvents).
THEOREM LearnsTheStatus == ASSUME Node!BoundsAssumption PROVE Node!Spec => []Node!ShowsTheNode
<1>1. NodeInv => Node!ShowsTheNode
  <2> SUFFICES ASSUME NodeInv, listening, wire = <<>>, ~silent, \A p \in Pulls : pulls[p] = Node!NoPull
               PROVE  shown = version /\ storeMode = mode
    BY DEF Node!ShowsTheNode
  <2>1. ~Told
    BY DEF Told
  <2>2. \A p \in Pulls : pulls[p].pc = "none"
    BY DEF Node!NoPull
  <2> QED
    BY <2>1, <2>2 DEF NodeInv, LearnsInv
<1> QED
  BY <1>1, NodeInvariant, PTL

\* No sync progress is on show outside embedded mode (node.ts applyStatus).
THEOREM NoSyncElsewhere == ASSUME Node!BoundsAssumption PROVE Node!Spec => []Node!NoSyncOutsideEmbedded
<1>1. NodeInv => Node!NoSyncOutsideEmbedded
  BY DEF NodeInv
<1> QED
  BY <1>1, NodeInvariant, PTL
=============================================================================
