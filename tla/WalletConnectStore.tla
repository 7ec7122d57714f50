-------------------------- MODULE WalletConnectStore --------------------------
(***************************************************************************)
(* The store behind the WalletConnect dialog                               *)
(* (frontend/src/stores/walletconnect.ts): znn_send requests from their    *)
(* arrival to their one answer, the dialog and preparation slots they      *)
(* compete for, the queue of replays behind those slots, and the session,  *)
(* expiry, lock and account events that cut in at every await.             *)
(*                                                                         *)
(* The backend (app/walletconnect.go) is its journal, taken from           *)
(* WCJournal, and its hold; the relay answers or fails every respond().    *)
(* A request's handler is the process proc[r]: between two of its awaits   *)
(* nothing else runs, so its steps are the backend's run of a call and the *)
(* continuation after the answer.                                          *)
(***************************************************************************)
EXTENDS Naturals, Sequences, FiniteSets

CONSTANTS
  Requests,        \* records [topic, id, from, effect]
  Nobody,
  Earlier,         \* requests a previous run of the application may have journaled
  LookupsFail,     \* whether the journal may be unreadable for a while
  MaxChecks,       \* how often "Check outcome" is pressed during one check
  MaxRestarts

RequestsAssumption ==
  /\ Nobody \notin Requests
  /\ \A r \in Requests : {"topic", "id", "from", "effect"} \subseteq DOMAIN r
  /\ Earlier \subseteq Requests
BoundsAssumption == {MaxChecks, MaxRestarts} \subseteq Nat /\ LookupsFail \in BOOLEAN

J == INSTANCE WCJournal WITH MaxRecords <- Cardinality(Requests)

VARIABLES
  wc,              \* the store: slot, preparing, queue, and the handlers proc
  notify,          \* deliverPublishedResult calls on their way, per request
  hold,            \* the request TxService holds a block for
  journal,
  onChain,         \* requests whose own block the network has
  answers,         \* what the relay took as answers to each request
  dead,            \* ended sessions
  passed,          \* requests past their deadline
  told,            \* requests whose end this run of the store has been told
  restarts

relay == <<answers, dead, passed>>
backend == <<hold, journal, onChain>>
vars == <<wc, notify, backend, relay, told, restarts>>

Key(r) == J!KeyOf(r)
Topics == {r.topic : r \in Requests}

NoSlot == [req |-> Nobody, key |-> Nobody, status |-> "none", ended |-> FALSE,
           local |-> FALSE, checks |-> 0]
Preparation(r, marker) ==
  [req |-> r, marker |-> marker, ended |-> FALSE, cancelled |-> FALSE]
NoPreparation == Preparation(Nobody, FALSE)
At(pc, key, then) ==
  [pc |-> pc, out |-> "none", key |-> key, ended |-> FALSE, then |-> then]
Settled == At("done", Nobody, "stop")
NotArrived == At("new", Nobody, "stop")
Store0 == [slot |-> NoSlot, preparing |-> NoPreparation, queue |-> <<>>,
           proc |-> [r \in Requests |-> NotArrived]]

RecordOf(r, state) == [intent |-> J!IntentOf(r), state |-> state]

Init ==
  /\ wc = Store0 /\ notify = [r \in Requests |-> 0]
  /\ hold = Nobody
  /\ \E S \in SUBSET Earlier : \E state \in [S -> J!States] :
       /\ \A q, r \in S : Key(q) = Key(r) => q = r
       /\ journal = [k \in {Key(r) : r \in S} |->
                       LET r == CHOOSE q \in S : Key(q) = k IN RecordOf(r, state[r])]
       /\ \E C \in SUBSET S : onChain = C \cup {r \in S : state[r] = "published"}
  /\ answers = [r \in Requests |-> <<>>]
  /\ dead = {} /\ passed = {} /\ told = {} /\ restarts = 0

-----------------------------------------------------------------------------
(* The slots and the queue.                                                *)

SetSlot(w, s) == [w EXCEPT !.slot = s]
SetStatus(w, status) == [w EXCEPT !.slot.status = status]
SetPreparing(w, p) == [w EXCEPT !.preparing = p]
SetProc(w, r, p) == [w EXCEPT !.proc[r] = p]

Busy(w) == w.slot # NoSlot \/ w.preparing # NoPreparation

\* topic#id of the entry; a retained record is queued under its own.
EntryAt(e) == IF e.local THEN e.key ELSE Key(e.req)
Queued(q) == {q[i] : i \in DOMAIN q}

\* The entries of q that are not in gone, in order.
Without(q, gone) ==
  LET kept == {i \in DOMAIN q : q[i] \notin gone}
      before(i) == Cardinality({j \in kept : j < i})
  IN  [n \in 1..Cardinality(kept) |-> q[CHOOSE i \in kept : before(i) = n - 1]]

Enqueue(w, e) ==
  LET same == {x \in Queued(w.queue) : EntryAt(x) = EntryAt(e)}
  IN  [w EXCEPT !.queue = Append(Without(w.queue, same), e)]

Show(w, e, status, ended) ==
  SetSlot(w, [req |-> e.req, key |-> e.key, status |-> status, ended |-> ended,
              local |-> e.local, checks |-> 0])

Goto(w, r, pc) == SetProc(w, r, [w.proc[r] EXCEPT !.pc = pc])
Finish(w, r) == SetProc(w, r, Settled)

\* deliverReplayPublished up to its await; it claims the preparation slot only
\* when both slots are free.
BeginDelivery(w, r, key, then) ==
  LET d == SetProc(w, r, At("deliver", key, then))
  IN  IF Busy(w) THEN d ELSE SetPreparing(d, Preparation(r, TRUE))

\* drainPendingReplays up to its await.
Drain(w) ==
  IF Busy(w) \/ w.queue = <<>> THEN w
  ELSE LET e == Head(w.queue)
           rest == [w EXCEPT !.queue = Tail(@)]
       IN  IF e.out = "published" THEN BeginDelivery(rest, e.req, e.key, "drain")
           ELSE Show(rest, e, "unknown", FALSE)

\* The finally of resolveZnnSend.
Release(w, r) ==
  IF w.preparing.req = r THEN Drain(SetPreparing(w, NoPreparation)) ELSE w

\* What follows when the handler of r is over.
Leave(w, r) == IF w.proc[r].then = "release" THEN Release(Finish(w, r), r) ELSE Finish(w, r)

\* The displayed request leaves its slot and its hold is cancelled.
Close(w, then) == SetProc(SetSlot(w, NoSlot), w.slot.req, At("cancel", Nobody, then))

Answers(r, what) == r.topic \notin dead /\ answers' = [answers EXCEPT ![r] = Append(@, what)]

-----------------------------------------------------------------------------
(* A znn_send arrives and is looked up.                                    *)

HandleRequest(r) ==
  /\ wc.proc[r].pc = "new" /\ answers[r] = <<>>
  /\ r.topic \notin dead /\ r \notin passed
  /\ \A q \in Requests : Key(q) = Key(r) => wc.proc[q].pc = "new"
  /\ wc' = Goto(wc, r, "lookup")
  /\ UNCHANGED <<notify, backend, relay, told, restarts>>

Answer(r, pc, out, key) ==
  LET p == wc.proc[r]
  IN  wc' = SetProc(wc, r, [pc |-> pc, out |-> out, key |-> key, ended |-> p.ended,
                            then |-> p.then])

LookupRuns(r) ==
  /\ wc.proc[r].pc = "lookup"
  /\ \/ \E o \in J!Lookup(journal, r) : Answer(r, "looked", o.outcome, o.key)
     \/ LookupsFail /\ Answer(r, "looked", "failed", Nobody)
  /\ UNCHANGED <<notify, backend, relay, told, restarts>>

\* A fresh request is refused when the dialog is taken, and may be by a busy
\* wallet or as a known scam; a replay skips those gates.
Resolve(r, p) ==
  LET e == [req |-> r, key |-> p.key, out |-> p.out, local |-> FALSE]
  IN  CASE p.out = "failed" -> {IF r \in passed THEN Finish(wc, r) ELSE Goto(wc, r, "waiting")}
        [] p.out = "conflict" -> {Goto(wc, r, "fail")}
        [] p.out = "duplicate" -> {Goto(wc, r, "refuse")}
        [] p.out = "published" -> {BeginDelivery(wc, r, p.key, "stop")}
        [] p.out = "unknown" ->
             {IF Busy(wc) THEN Enqueue(Finish(wc, r), e)
              ELSE Show(Finish(wc, r), e, "unknown", FALSE)}
        [] p.out = "none" ->
             {Goto(wc, r, "fail")} \cup
             (IF Busy(wc) THEN {}
              ELSE {SetProc(SetPreparing(wc, Preparation(r, FALSE)), r,
                            At("prepare", Nobody, "release"))})

\* An end that fell into the lookup stops everything.
AfterLookup(r, p) == IF p.ended THEN {Finish(wc, r)} ELSE Resolve(r, p)

LookupAnswered(r) ==
  /\ wc.proc[r].pc = "looked"
  /\ wc' \in AfterLookup(r, wc.proc[r])
  /\ UNCHANGED <<notify, backend, relay, told, restarts>>

RetryFailedLookup(r) ==
  /\ wc.proc[r].pc = "waiting"
  /\ wc' = IF r \in passed THEN Finish(wc, r) ELSE Goto(wc, r, "lookup")
  /\ UNCHANGED <<notify, backend, relay, told, restarts>>

\* failRequest; whether or not the relay takes the answer, the handler ends.
FailAnswered(r) ==
  /\ wc.proc[r].pc = "fail"
  /\ Answers(r, "error") \/ UNCHANGED answers
  /\ wc' = Leave(wc, r)
  /\ UNCHANGED <<notify, backend, dead, passed, told, restarts>>

\* refuseDuplicateAndRecover: the record of the other session is shown.
Refused(r) ==
  /\ wc.proc[r].pc = "refuse"
  /\ LET e == [req |-> Nobody, key |-> wc.proc[r].key, out |-> "unknown", local |-> TRUE]
         w == IF Busy(wc) THEN Enqueue(wc, e) ELSE Show(wc, e, "unknown", FALSE)
     IN  \/ Answers(r, "error") /\ wc' = Leave(w, r)
         \/ /\ UNCHANGED answers
            /\ wc' = IF wc.proc[r].then = "release" /\ ~wc.preparing.ended
                     THEN Goto(wc, r, "fail") ELSE Leave(wc, r)
  /\ UNCHANGED <<notify, backend, dead, passed, told, restarts>>

-----------------------------------------------------------------------------
(* PrepareWalletConnectSend.                                               *)

\* The journal is looked at again; a held block of another flow, a guard or the
\* node refuses.
PrepareRuns(r) ==
  /\ wc.proc[r].pc = "prepare"
  /\ \/ /\ J!Fresh(journal, r) /\ hold = Nobody
        /\ hold' = r /\ Answer(r, "prepared", "prepare", Key(r))
     \/ /\ \E o \in J!Lookup(journal, r) :
             o.outcome \notin {"none", "conflict"} /\ Answer(r, "prepared", o.outcome, o.key)
        /\ UNCHANGED hold
     \/ Answer(r, "prepared", "error", Nobody) /\ UNCHANGED hold
  /\ UNCHANGED <<notify, journal, onChain, relay, told, restarts>>

\* The preparation was cut by an end, a lock or a switch: its hold goes first.
Cut(r) == Goto(wc, r, "cancelPrepared")

AfterPrepare(r, p) ==
  LET e == [req |-> r, key |-> p.key, out |-> p.out, local |-> FALSE]
      cut == wc.preparing.ended \/ wc.preparing.cancelled
  IN  CASE p.out = "duplicate" -> Goto(wc, r, "refuse")
        [] p.out = "published" -> BeginDelivery(wc, r, p.key, "release")
        [] p.out = "unknown" -> Leave(IF cut THEN wc ELSE Show(wc, e, "unknown", FALSE), r)
        [] p.out = "prepare" ->
             IF cut THEN Cut(r) ELSE Leave(Show(wc, e, "awaiting", FALSE), r)
        [] p.out = "error" -> IF wc.preparing.ended THEN Leave(wc, r) ELSE Goto(wc, r, "fail")

PrepareAnswered(r) ==
  /\ wc.proc[r].pc = "prepared"
  /\ wc' = AfterPrepare(r, wc.proc[r])
  /\ UNCHANGED <<notify, backend, relay, told, restarts>>

CancelHold(r) == hold' = IF hold = r THEN Nobody ELSE hold

\* The hold of a preparation that was cut is released, then answered for.
CancelPrepared(r) ==
  /\ wc.proc[r].pc = "cancelPrepared"
  /\ CancelHold(r)
  /\ wc' = IF wc.preparing.ended THEN Leave(wc, r) ELSE Goto(wc, r, "fail")
  /\ UNCHANGED <<notify, journal, onChain, relay, told, restarts>>

-----------------------------------------------------------------------------
(* deliverReplayPublished after its await.                                 *)

\* What the caller does next: the direct one nothing, drainPendingReplays the
\* next entry, resolveZnnSend its finally.
AfterDelivery(w, r, then) ==
  CASE then = "drain" -> Drain(Finish(w, r))
    [] then = "release" -> Release(Finish(w, r), r)
    [] OTHER -> Finish(w, r)

ReplayDelivered(r) ==
  LET p == wc.proc[r]
      mine == wc.preparing.marker /\ wc.preparing.req = r
      w == IF mine THEN SetPreparing(wc, NoPreparation) ELSE wc
  IN  /\ p.pc = "deliver"
      /\ Answers(r, "result")
      /\ journal' = J!DeletePublished(journal, p.key) \/ UNCHANGED journal
      /\ wc' = AfterDelivery(w, r, p.then)
      /\ UNCHANGED <<notify, hold, onChain, dead, passed, told, restarts>>

ReplayFails(r) ==
  LET p == wc.proc[r]
      mine == wc.preparing.marker /\ wc.preparing.req = r
      w == IF mine THEN SetPreparing(wc, NoPreparation) ELSE wc
      e == [req |-> r, key |-> p.key, out |-> "published", local |-> FALSE]
      kept == IF Busy(w) THEN Enqueue(w, e)
              ELSE Show(w, e, "delivery-error", mine /\ wc.preparing.ended)
  IN  /\ p.pc = "deliver"
      /\ wc' = AfterDelivery(kept, r, p.then)
      /\ UNCHANGED <<notify, backend, relay, told, restarts>>

-----------------------------------------------------------------------------
(* The dialog.                                                             *)

ApproveRequest ==
  LET r == wc.slot.req
  IN  /\ wc.slot.status = "awaiting"
      /\ wc' = IF r \in passed THEN Close(wc, "silent")
               ELSE SetProc(SetStatus(wc, "publishing"), r, At("confirm", Nobody, "stop"))
      /\ UNCHANGED <<notify, backend, relay, told, restarts>>

\* ConfirmWalletConnectPublish: refused with the hold kept, failed for good, of
\* unknown outcome with the signed block journaled, or published.
ConfirmRuns(r) ==
  /\ wc.proc[r].pc = "confirm"
  /\ \/ /\ Answer(r, "confirmed", "error", Nobody)
        /\ hold' \in {hold, Nobody} /\ UNCHANGED <<journal, onChain>>
     \/ /\ hold = r /\ hold' = Nobody
        /\ Answer(r, "confirmed", "unknown", Key(r))
        /\ journal' = J!Put(journal, Key(r), RecordOf(r, "signed"))
        /\ onChain' \in {onChain, onChain \cup {r}}
     \/ /\ hold = r /\ hold' = Nobody
        /\ Answer(r, "confirmed", "published", Key(r))
        /\ journal' = J!Put(journal, Key(r), RecordOf(r, "published"))
        /\ onChain' = onChain \cup {r}
  /\ UNCHANGED <<notify, relay, told, restarts>>

\* deliverPublishedResult up to its await, for the displayed request.
DeliverPublished(w) ==
  IF w.slot.ended
  THEN wc' = SetStatus(w, "delivery-error") /\ UNCHANGED notify
  ELSE /\ wc' = SetStatus(w, "notifying")
       /\ notify' = [notify EXCEPT ![w.slot.req] = @ + 1]

\* A mutant for the model checker: an unknown outcome is an ordinary error.
ConfirmAnsweredPlainly(r) ==
  LET w == Finish(wc, r)
  IN  /\ wc.proc[r].pc = "confirmed"
      /\ IF wc.proc[r].out = "published" THEN DeliverPublished(w)
         ELSE wc' = SetStatus(w, "error") /\ UNCHANGED notify
      /\ UNCHANGED <<backend, relay, told, restarts>>

ConfirmAnswered(r) ==
  LET out == wc.proc[r].out
      w == Finish(wc, r)
  IN  /\ wc.proc[r].pc = "confirmed"
      /\ \/ out = "published" /\ DeliverPublished(w)
         \/ out = "unknown" /\ wc' = SetStatus(w, "unknown") /\ UNCHANGED notify
         \/ /\ out = "error" /\ UNCHANGED notify
            /\ wc' = IF wc.slot.ended
                     THEN SetProc(w, r, At("cancel", Nobody, "silent"))
                     ELSE SetStatus(w, "error")
      /\ UNCHANGED <<backend, relay, told, restarts>>

\* The dapp has the result; its record may fail to be deleted.
Notified(r) ==
  /\ notify[r] > 0 /\ notify' = [notify EXCEPT ![r] = @ - 1]
  /\ Answers(r, "result")
  /\ journal' = J!DeletePublished(journal, IF wc.slot.req = r THEN wc.slot.key ELSE Key(r))
     \/ UNCHANGED journal
  /\ wc' = Drain(IF wc.slot.req = r THEN SetSlot(wc, NoSlot) ELSE wc)
  /\ UNCHANGED <<hold, onChain, dead, passed, told, restarts>>

NotifyFails(r) ==
  /\ notify[r] > 0 /\ notify' = [notify EXCEPT ![r] = @ - 1]
  /\ wc' = IF wc.slot.req = r THEN SetStatus(wc, "delivery-error") ELSE wc
  /\ UNCHANGED <<backend, relay, told, restarts>>

RetryPublishedResponse ==
  /\ wc.slot.status = "delivery-error" /\ ~wc.slot.ended
  /\ DeliverPublished(wc)
  /\ UNCHANGED <<backend, relay, told, restarts>>

ReconcileRequest ==
  /\ wc.slot.status = "unknown" /\ wc.slot.checks < MaxChecks
  /\ wc' = [wc EXCEPT !.slot.checks = @ + 1]
  /\ UNCHANGED <<notify, backend, relay, told, restarts>>

\* The outcome is found, or made by broadcasting the journaled block.
Reconciled ==
  LET k == wc.slot.key
      w == [wc EXCEPT !.slot.checks = @ - 1]
  IN  /\ wc.slot.checks > 0 /\ k \in DOMAIN journal
      /\ journal' = J!MarkPublished(journal, k)
      /\ onChain' = onChain \cup {r \in Requests : Key(r) = k /\ J!IntentOf(r) = journal[k].intent}
      /\ IF wc.slot.local
         THEN wc' = SetStatus(w, "recovered") /\ UNCHANGED notify
         ELSE DeliverPublished(w)
      /\ UNCHANGED <<hold, relay, told, restarts>>

ReconcileFails ==
  /\ wc.slot.checks > 0
  /\ wc' = SetStatus([wc EXCEPT !.slot.checks = @ - 1], "unknown")
  /\ UNCHANGED <<notify, backend, relay, told, restarts>>

AcknowledgeRecovered ==
  /\ wc.slot.status = "recovered"
  /\ journal' = J!DeletePublished(journal, wc.slot.key)
  /\ wc' = Drain(SetSlot(wc, NoSlot))
  /\ UNCHANGED <<notify, hold, onChain, relay, told, restarts>>

ClearPublishedRequest ==
  /\ wc.slot.status \in {"delivery-error", "unknown", "recovered"}
  /\ wc' = Drain(SetSlot(wc, NoSlot))
  /\ UNCHANGED <<notify, backend, relay, told, restarts>>

\* The dialog is refused, or its error closed.
RejectRequest ==
  /\ wc.slot.status \in {"awaiting", "error"}
  /\ wc' = Close(wc, "tell")
  /\ UNCHANGED <<notify, backend, relay, told, restarts>>

\* A closed request's hold is released; then its dapp is told, or nobody is left
\* to tell.
CancelPending(r) ==
  LET w == IF wc.slot.req = r THEN SetSlot(wc, NoSlot) ELSE wc
  IN  /\ wc.proc[r].pc = "cancel"
      /\ CancelHold(r)
      /\ wc' = IF wc.proc[r].then = "silent" THEN Drain(Finish(w, r)) ELSE Goto(w, r, "tell")
      /\ UNCHANGED <<notify, journal, onChain, relay, told, restarts>>

\* Only the account switch goes on when the relay does not take the answer.
Told(r) ==
  /\ wc.proc[r].pc = "tell"
  /\ \/ Answers(r, "error") /\ wc' = Drain(Finish(wc, r))
     \/ /\ UNCHANGED answers
        /\ wc' = IF wc.proc[r].then = "tellAnyway" THEN Drain(Finish(wc, r)) ELSE Finish(wc, r)
  /\ UNCHANGED <<notify, backend, dead, passed, told, restarts>>

-----------------------------------------------------------------------------
(* What the wallet and the relay push in between.                          *)

CutPreparation(w) ==
  IF w.preparing = NoPreparation THEN w ELSE [w EXCEPT !.preparing.cancelled = TRUE]

WalletLocked ==
  /\ wc' = LET w == CutPreparation(wc)
           IN  IF wc.slot.status \in {"awaiting", "error"} THEN Close(w, "tell") ELSE w
  /\ UNCHANGED <<notify, backend, relay, told, restarts>>

UpdateAccount ==
  /\ wc' = LET w == CutPreparation(wc)
           IN  IF wc.slot.status \in {"awaiting", "error"} THEN Close(w, "tellAnyway") ELSE Drain(w)
  /\ UNCHANGED <<notify, backend, relay, told, restarts>>

\* handleSessionEnded and handleRequestExpired for the requests S that ended.
\* A request being published, or whose outcome is open, is only marked.
EndProc(p) ==
  IF p.pc \in {"lookup", "looked"} THEN [p EXCEPT !.ended = TRUE]
  ELSE IF p.pc = "waiting" THEN Settled ELSE p

Marked(S) ==
  [slot |-> wc.slot,
   preparing |-> [wc.preparing EXCEPT !.ended = @ \/ wc.preparing.req \in S],
   queue |-> Without(wc.queue, {e \in Queued(wc.queue) : ~e.local /\ e.req \in S}),
   proc |-> [r \in Requests |-> IF r \in S THEN EndProc(wc.proc[r]) ELSE wc.proc[r]]]

End(S) ==
  /\ wc' = IF wc.slot.req \notin S THEN Marked(S)
           ELSE IF wc.slot.status \in {"awaiting", "error"} THEN Close(Marked(S), "silent")
           ELSE [Marked(S) EXCEPT !.slot.ended = TRUE]
  /\ told' = told \cup {r \in S : wc.proc[r].pc # "new"}

SessionEnded(t) ==
  /\ t \notin dead /\ dead' = dead \cup {t}
  /\ End({r \in Requests : r.topic = t})
  /\ UNCHANGED <<notify, backend, answers, passed, restarts>>

DeadlinePasses(r) ==
  /\ wc.proc[r].pc # "new" /\ r \notin passed
  /\ passed' = passed \cup {r}
  /\ UNCHANGED <<wc, notify, backend, answers, dead, told, restarts>>

\* A mutant for the model checker: the event ends whatever bears the id.
ExpiredById(i) == {r \in Requests : r.id = i}

\* The event carries the bare id; only entries past their own deadline end.
Expired(i) == {r \in passed : r.id = i}

RequestExpired(i) ==
  /\ \E r \in passed : r.id = i /\ wc.proc[r].pc # "new"
  /\ End(Expired(i))
  /\ UNCHANGED <<notify, backend, relay, restarts>>

\* The application dies and is started again; the relay redelivers what it has
\* no answer to.
Restart ==
  /\ restarts < MaxRestarts /\ restarts' = restarts + 1
  /\ wc' = Store0 /\ notify' = [r \in Requests |-> 0] /\ hold' = Nobody /\ told' = {}
  /\ UNCHANGED <<journal, onChain, relay>>

-----------------------------------------------------------------------------
Handler(r) ==
  \/ LookupRuns(r) \/ LookupAnswered(r) \/ RetryFailedLookup(r) \/ FailAnswered(r) \/ Refused(r)
  \/ PrepareRuns(r) \/ PrepareAnswered(r) \/ CancelPrepared(r)
  \/ ReplayDelivered(r) \/ ReplayFails(r)
  \/ ConfirmRuns(r) \/ ConfirmAnswered(r) \/ CancelPending(r) \/ Told(r)

Notification(r) == Notified(r) \/ NotifyFails(r)

User ==
  \/ ApproveRequest \/ RejectRequest \/ RetryPublishedResponse \/ ReconcileRequest
  \/ AcknowledgeRecovered \/ ClearPublishedRequest \/ WalletLocked \/ UpdateAccount

Next ==
  \/ \E r \in Requests : HandleRequest(r) \/ Handler(r) \/ Notification(r) \/ DeadlinePasses(r)
  \/ User \/ Reconciled \/ ReconcileFails
  \/ \E t \in Topics : SessionEnded(t)
  \/ \E i \in {r.id : r \in Requests} : RequestExpired(i)
  \/ Restart

Spec == Init /\ [][Next]_vars

(* Every binding call and respond() is answered, timers fire and deadlines *)
(* pass.  The user owes nothing.                                           *)
Fairness ==
  \A r \in Requests :
    WF_vars(Handler(r)) /\ WF_vars(Notification(r)) /\ WF_vars(DeadlinePasses(r))

FairSpec == Spec /\ Fairness

-----------------------------------------------------------------------------
(* Properties.                                                             *)

\* The store's state, its module-level maps and the backend keep their types
\* (walletconnect.ts:246-256).
TypeOK ==
  /\ wc.slot.status \in {"none", "awaiting", "publishing", "notifying", "error",
                         "delivery-error", "unknown", "recovered"}
  /\ wc.slot.req \in Requests \cup {Nobody} /\ wc.preparing.req \in Requests \cup {Nobody}
  /\ wc.slot = NoSlot <=> wc.slot.status = "none"
  /\ wc.slot.local => wc.slot.status \in {"unknown", "recovered"}
  /\ \A r \in Requests : wc.proc[r].pc \in
       {"new", "lookup", "looked", "waiting", "fail", "refuse", "prepare", "prepared", "deliver",
        "cancelPrepared", "confirm", "confirmed", "cancel", "tell", "done"}
  /\ notify \in [Requests -> Nat]
  /\ hold \in Requests \cup {Nobody} /\ onChain \subseteq Requests
  /\ \A k \in DOMAIN journal : journal[k].state \in J!States

\* A request whose own block is, or may be, on chain is never answered with an
\* error, before or after: neither the session's end, a lock, an account switch
\* nor a failed delivery turns into a rejection (walletconnect.ts:877-878).
PublishedNeverRejected ==
  \A r \in Requests :
    "error" \in {answers[r][i] : i \in DOMAIN answers[r]} =>
      /\ r \notin onChain
      /\ ~(Key(r) \in DOMAIN journal /\ journal[Key(r)].intent = J!IntentOf(r))

\* No request is answered twice (walletconnect.ts:1077-1078: a second respond()
\* could race the first and produce two result responses).
OneAnswer == \A r \in Requests : Len(answers[r]) <= 1

\* Every hold is one the dialog shows, or one whose handler is about to show or
\* release it: no end, lock, switch or refusal in any order strands it.
NoStrandedHold ==
  \A r \in Requests : hold = r =>
    \/ wc.slot.req = r /\ wc.slot.status \in {"awaiting", "publishing", "error"}
    \/ wc.proc[r].pc \in {"prepared", "cancelPrepared", "confirm", "confirmed", "cancel"}

\* A request whose end the store was told is never up for approval, whatever
\* await the news fell into (walletconnect.ts:80-84).
EndedNeverApprovable == wc.slot.status = "awaiting" => wc.slot.req \notin told

\* A request is ended only by its own session or its own deadline, although
\* request ids collide between sessions (walletconnect.ts:135-145).
OnlyOwnEnd ==
  \A x \in {wc.slot, wc.preparing} : x.ended => x.req.topic \in dead \/ x.req \in passed

\* A published request that is still to be answered keeps its journal record, so
\* that it is replayed and never signed again (walletconnect.ts:990-991).
PublishedKeepsRecord ==
  \A r \in onChain \ passed :
    answers[r] = <<>> /\ r.topic \notin dead => Key(r) \in DOMAIN journal

\* Every request's handler ends, although the journal may stay unreadable:
\* lookups are retried until the deadline and no further.
HandlersEnd ==
  \A r \in Requests : []<>(wc.proc[r].pc \in {"new", "done"})

\* No replay waits in the queue behind free slots (walletconnect.ts:713-715:
\* clearing the preparation marker always drains any replay queued behind it).
QueueDrained ==
  \/ wc.queue = <<>> \/ Busy(wc)
  \/ \E r \in Requests : wc.proc[r].pc \notin {"new", "done"} \/ notify[r] > 0

\* A record is offered for local recovery only when its session is gone
\* (walletconnect.ts:54-57).
RecoveryOfEndedSession == wc.slot.local => wc.slot.key.topic \in dead

\* A request shown as unresolved has the journal record that reconciliation
\* needs (walletconnect.ts:88-91: the journal is the source of truth).
UnknownHasRecord == wc.slot.status = "unknown" => wc.slot.key \in DOMAIN journal

\* No block is held for a request whose own block is on chain
\* (app/walletconnect.go:126-128: a journaled request replays its outcome
\* instead of ever building a fresh block).
NeverHeldAgain == hold \notin onChain
=============================================================================
