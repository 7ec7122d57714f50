----------------------- MODULE WalletConnectStoreProofs -----------------------
(***************************************************************************)
(* Theorems about the store behind the WalletConnect dialog: for any       *)
(* requests, sessions, records of previous runs, failed answers and        *)
(* restarts, no hold is stranded, no ended request is up for approval, a   *)
(* request is ended only by its own session or deadline, and, while an     *)
(* outcome is checked once at a time, no request is answered twice. When   *)
(* no two requests ask for the same transfer, a request that was published *)
(* is moreover never rejected, an unknown outcome keeps its record, and no *)
(* transfer on the chain is held for approval again.                       *)
(***************************************************************************)
EXTENDS WalletConnectStore, FiniteSetTheorems, TLAPS

-----------------------------------------------------------------------------
(* The shapes of the store.                                                *)

Keys == {Key(r) : r \in Requests} \cup {Nobody}
Someone == Requests \cup {Nobody}

Statuses == {"none", "awaiting", "publishing", "notifying", "error", "delivery-error", "unknown",
             "recovered"}
Pcs == {"new", "lookup", "looked", "waiting", "fail", "refuse", "prepare", "prepared", "deliver",
        "cancelPrepared", "confirm", "confirmed", "cancel", "tell", "done"}
Outs == {"none", "failed", "conflict", "duplicate", "published", "unknown", "prepare", "error"}
Outcomes == {"conflict", "published", "unknown", "duplicate", "none"}
Thens == {"stop", "release", "drain", "silent", "tell", "tellAnyway"}

Slots == [req : Someone, key : Keys, status : Statuses, ended : BOOLEAN, local : BOOLEAN,
          checks : Nat]
Preparations == [req : Someone, marker : BOOLEAN, ended : BOOLEAN, cancelled : BOOLEAN]
Processes == [pc : Pcs, out : Outs, key : Keys, ended : BOOLEAN, then : Thens]
Waiting == [req : Someone, key : Keys, out : {"published", "unknown"}, local : BOOLEAN]
Entries == [req : Someone, key : Keys, out : Outs, local : BOOLEAN]
Shapes == [slot : Slots, preparing : Preparations, queue : Seq(Waiting),
           proc : [Requests -> Processes]]

-----------------------------------------------------------------------------
(* The inductive invariant, of a store w and the rest of the state.        *)

\* The records of the journal j are of requests.
JournalFits(j) ==
  \E D \in SUBSET {Key(r) : r \in Requests} :
    j \in [D -> [intent : {J!IntentOf(r) : r \in Requests}, state : J!States]]

\* The dialog and preparation slots exclude each other, and say what they hold.
SlotsInv(w) ==
  /\ w.slot.status = "none" <=> w.slot = NoSlot
  /\ w.slot.local => w.slot.status \in {"unknown", "recovered"}
  /\ w.slot.req = Nobody <=> w.slot.status = "none" \/ w.slot.local
  /\ w.slot.checks > 0 => w.slot.status \notin {"none", "awaiting", "publishing", "error"}
  /\ w.preparing.req = Nobody => w.preparing = NoPreparation
  /\ w.slot = NoSlot \/ w.preparing = NoPreparation

\* Whose the slots are: a preparing handler's, a publishing handler's, or that
\* of a request whose handler is over.
OwnersInv(w) ==
  /\ \A r \in Requests :
       /\ w.proc[r].then = "release" => w.preparing.req = r /\ ~w.preparing.marker
       /\ w.proc[r].pc \in {"prepare", "prepared", "cancelPrepared"} => w.proc[r].then = "release"
       /\ w.proc[r].pc \in {"confirm", "confirmed"} =>
            w.slot.req = r /\ w.slot.status = "publishing"
       /\ w.proc[r].pc = "looked" => w.proc[r].out \in Outcomes \cup {"failed"}
       /\ w.proc[r].pc = "prepared" =>
            w.proc[r].out \in (Outcomes \ {"none", "conflict"}) \cup {"prepare", "error"}
  /\ w.slot.req # Nobody =>
       IF w.slot.status = "publishing"
       THEN w.proc[w.slot.req].pc \in {"confirm", "confirmed", "cancel"}
       ELSE w.proc[w.slot.req].pc = "done"

\* What waits in the queue is a record, or a request that is nowhere else.
QueueInv(w, ns) ==
  /\ \A i \in 1..Len(w.queue) :
       IF w.queue[i].local THEN w.queue[i].req = Nobody /\ w.queue[i].out = "unknown"
       ELSE /\ w.queue[i].req \in Requests /\ w.queue[i].req # w.slot.req
            /\ w.proc[w.queue[i].req].pc = "done" /\ ns[w.queue[i].req] = 0
  /\ \A i, j \in 1..Len(w.queue) : i # j /\ w.queue[i].req = w.queue[j].req => w.queue[i].local

\* Only a finished request is being told its result, and not while its dialog
\* can still be approved, published or refused.
NotifyInv(w, ns) ==
  \A r \in Requests : ns[r] > 0 =>
    /\ w.proc[r].pc = "done"
    /\ w.slot.req = r => w.slot.status \notin {"awaiting", "publishing", "error"}

\* Every hold is in sight, and a call that left none is not believed to have.
HoldInv(w, h) ==
  \A r \in Requests : h = r =>
    /\ \/ w.slot.req = r /\ w.slot.status \in {"awaiting", "publishing", "error"}
       \/ w.proc[r].pc \in {"prepared", "cancelPrepared", "confirm", "confirmed", "cancel"}
    /\ w.proc[r].pc = "prepared" => w.proc[r].out = "prepare"
    /\ w.proc[r].pc = "confirmed" => w.proc[r].out = "error"

\* The news of an end is never lost on the way to the dialog.
ToldInv(w, T) ==
  /\ \A r \in T \cap Requests :
       /\ w.proc[r].pc \notin {"new", "waiting"}
       /\ w.proc[r].pc \in {"lookup", "looked"} => w.proc[r].ended
       /\ w.preparing.req = r /\ ~w.preparing.marker => w.preparing.ended
  /\ w.slot.status = "awaiting" => w.slot.req \notin T

\* Nothing ends but by its own session or deadline.
EndInv(w, ds, ps) ==
  /\ w.slot.ended => w.slot.req \in Requests /\ (w.slot.req.topic \in ds \/ w.slot.req \in ps)
  /\ w.preparing.ended =>
       w.preparing.req \in Requests /\ (w.preparing.req.topic \in ds \/ w.preparing.req \in ps)

\* An answered request is over, and shown nowhere.
Answered(as, r) == as[r] # <<>>
Queues(q, r) == \E i \in 1..Len(q) : q[i].req = r
AnsweredInv(w, as) ==
  \A r \in Requests : Answered(as, r) =>
    w.proc[r].pc \in {"new", "done"} /\ w.slot.req # r /\ ~Queues(w.queue, r)

\* With one check at a time there is one notification, of the displayed request.
OnceInv(w, ns, as) ==
  MaxChecks <= 1 =>
    /\ w.slot.checks > 0 => w.slot.checks = 1 /\ w.slot.status = "unknown"
    /\ \A r \in Requests :
         /\ ns[r] > 0 => ns[r] = 1 /\ w.slot.req = r /\ w.slot.status = "notifying"
         /\ Len(as[r]) <= 1

\* A store w that fits the rest of the state: the notifications ns, the ends T
\* it was told, the ended sessions ds and deadlines ps, and the answers as.
Good(w, ns, T, ds, ps, as) ==
  /\ w \in Shapes /\ ns \in [Requests -> Nat] /\ as \in [Requests -> Seq({"result", "error"})]
  /\ SlotsInv(w) /\ OwnersInv(w) /\ QueueInv(w, ns) /\ NotifyInv(w, ns) /\ ToldInv(w, T)
  /\ EndInv(w, ds, ps) /\ AnsweredInv(w, as) /\ OnceInv(w, ns, as)

StoreInv ==
  /\ hold \in Someone /\ onChain \subseteq Requests /\ JournalFits(journal)
  /\ HoldInv(wc, hold)
  /\ Good(wc, notify, told, dead, passed, answers)
-----------------------------------------------------------------------------
(* The setters of the store.                                               *)

LEMMA Constants ==
  ASSUME RequestsAssumption
  PROVE  /\ NoSlot \in Slots /\ NoPreparation \in Preparations /\ Settled \in Processes
         /\ NotArrived \in Processes /\ Nobody \in Keys /\ Nobody \notin Requests
         /\ \A r \in Requests : Key(r) \in Keys
         /\ \A r \in Requests, m \in BOOLEAN : Preparation(r, m) \in Preparations
         /\ \A pc \in Pcs, k \in Keys, t \in Thens : At(pc, k, t) \in Processes
  BY DEF RequestsAssumption, NoSlot, NoPreparation, Preparation, Settled, NotArrived, At, Keys,
         Slots, Preparations, Processes, Someone, Statuses, Pcs, Outs, Thens

LEMMA SlotSet ==
  ASSUME NEW w \in Shapes, NEW s \in Slots
  PROVE  LET u == SetSlot(w, s)
         IN  /\ u \in Shapes /\ u.slot = s
             /\ u.preparing = w.preparing /\ u.queue = w.queue /\ u.proc = w.proc
  BY DEF SetSlot, Shapes

LEMMA PreparingSet ==
  ASSUME NEW w \in Shapes, NEW p \in Preparations
  PROVE  LET u == SetPreparing(w, p)
         IN  /\ u \in Shapes /\ u.preparing = p
             /\ u.slot = w.slot /\ u.queue = w.queue /\ u.proc = w.proc
  BY DEF SetPreparing, Shapes

LEMMA ProcSet ==
  ASSUME NEW w \in Shapes, NEW r \in Requests, NEW k \in Processes
  PROVE  LET u == SetProc(w, r, k)
         IN  /\ u \in Shapes /\ u.proc[r] = k /\ \A x \in Requests \ {r} : u.proc[x] = w.proc[x]
             /\ u.slot = w.slot /\ u.preparing = w.preparing /\ u.queue = w.queue
  BY DEF SetProc, Shapes

LEMMA QueueSet ==
  ASSUME NEW w \in Shapes, NEW q \in Seq(Waiting)
  PROVE  LET u == [w EXCEPT !.queue = q]
         IN  /\ u \in Shapes /\ u.queue = q
             /\ u.slot = w.slot /\ u.preparing = w.preparing /\ u.proc = w.proc
  BY DEF Shapes

LEMMA StatusSet ==
  ASSUME NEW w \in Shapes, NEW t \in Statuses
  PROVE  /\ SetStatus(w, t) = SetSlot(w, [w.slot EXCEPT !.status = t])
         /\ [w.slot EXCEPT !.status = t] \in Slots
         /\ [w.slot EXCEPT !.status = t].status = t
         /\ [w.slot EXCEPT !.status = t].req = w.slot.req
         /\ [w.slot EXCEPT !.status = t].ended = w.slot.ended
         /\ [w.slot EXCEPT !.status = t].local = w.slot.local
         /\ [w.slot EXCEPT !.status = t].checks = w.slot.checks
         /\ [w.slot EXCEPT !.status = t].key = w.slot.key
  BY DEF SetStatus, SetSlot, Shapes, Slots

LEMMA PcSet ==
  ASSUME NEW k \in Processes, NEW pc \in Pcs
  PROVE  /\ [k EXCEPT !.pc = pc] \in Processes /\ [k EXCEPT !.pc = pc].pc = pc
         /\ [k EXCEPT !.pc = pc].out = k.out /\ [k EXCEPT !.pc = pc].key = k.key
         /\ [k EXCEPT !.pc = pc].ended = k.ended /\ [k EXCEPT !.pc = pc].then = k.then
  BY DEF Processes

-----------------------------------------------------------------------------
(* What may change in a good store.                                        *)

\* r is neither queued nor being told its result.
Free(w, ns, r) == ns[r] = 0 /\ ~Queues(w.queue, r)

\* With the slot s, the handler of r may stand at k.
ProcFits(w, s, r, k, ns, T, as) ==
  /\ k.then = "release" => w.preparing.req = r /\ ~w.preparing.marker
  /\ k.pc \in {"prepare", "prepared", "cancelPrepared"} => k.then = "release"
  /\ k.pc \in {"confirm", "confirmed"} => s.req = r /\ s.status = "publishing"
  /\ k.pc = "looked" => k.out \in Outcomes \cup {"failed"}
  /\ k.pc = "prepared" => k.out \in (Outcomes \ {"none", "conflict"}) \cup {"prepare", "error"}
  /\ s.req = r =>
       IF s.status = "publishing" THEN k.pc \in {"confirm", "confirmed", "cancel"}
       ELSE k.pc = "done"
  /\ k.pc # "done" => Free(w, ns, r)
  /\ r \in T => k.pc \notin {"new", "waiting"} /\ (k.pc \in {"lookup", "looked"} => k.ended)
  /\ Answered(as, r) => k.pc \in {"new", "done"}

\* The slot may be s.
SlotFits(w, s, ns, T, ds, ps, as) ==
  /\ s.status = "none" <=> s = NoSlot
  /\ s.local => s.status \in {"unknown", "recovered"}
  /\ s.req = Nobody <=> s.status = "none" \/ s.local
  /\ s.checks > 0 => s.status \notin {"none", "awaiting", "publishing", "error"}
  /\ s = NoSlot \/ w.preparing = NoPreparation
  /\ s.req # Nobody =>
       /\ ~Queues(w.queue, s.req)
       /\ ns[s.req] > 0 => s.status \notin {"awaiting", "publishing", "error"}
       /\ ~Answered(as, s.req)
  /\ s.status = "awaiting" => s.req \notin T
  /\ s.ended => s.req \in Requests /\ (s.req.topic \in ds \/ s.req \in ps)
  /\ MaxChecks <= 1 =>
       /\ s.checks > 0 => s.checks = 1 /\ s.status = "unknown"
       /\ \A r \in Requests : ns[r] > 0 => s.req = r /\ s.status = "notifying"

LEMMA ActiveIsFree ==
  ASSUME RequestsAssumption, NEW w, NEW ns, NEW T, NEW ds, NEW ps, NEW as,
         Good(w, ns, T, ds, ps, as),
         NEW r \in Requests, w.proc[r].pc # "done"
  PROVE  /\ Free(w, ns, r)
         /\ w.proc[r].pc # "new" => ~Answered(as, r)
         /\ w.slot.req = r =>
             w.slot.status = "publishing" /\ w.proc[r].pc \in {"confirm", "confirmed", "cancel"}
  <1>1. ns[r] = 0
    BY DEF Good, NotifyInv
  <1>2. ~Queues(w.queue, r)
    <2>1. QueueInv(w, ns) /\ Nobody # r
      BY DEF Good, RequestsAssumption
    <2> QED BY <2>1 DEF QueueInv, Queues
  <1>3. AnsweredInv(w, as) /\ OwnersInv(w)
    BY DEF Good
  <1>4. w.proc[r].pc # "new" => ~Answered(as, r)
    BY <1>3 DEF AnsweredInv
  <1>5. w.slot.req = r =>
          w.slot.status = "publishing" /\ w.proc[r].pc \in {"confirm", "confirmed", "cancel"}
    BY <1>3 DEF OwnersInv, RequestsAssumption
  <1> QED BY <1>1, <1>2, <1>4, <1>5 DEF Free

\* The handler of r goes to k.
LEMMA ProcMoves ==
  ASSUME RequestsAssumption, NEW w, NEW ns, NEW T, NEW ds, NEW ps, NEW as,
         Good(w, ns, T, ds, ps, as),
         NEW r \in Requests, NEW k \in Processes, ProcFits(w, w.slot, r, k, ns, T, as)
  PROVE  Good(SetProc(w, r, k), ns, T, ds, ps, as)
  <1> DEFINE u == SetProc(w, r, k)
  <1>1. /\ u \in Shapes /\ u.proc[r] = k /\ \A x \in Requests \ {r} : u.proc[x] = w.proc[x]
        /\ u.slot = w.slot /\ u.preparing = w.preparing /\ u.queue = w.queue
    BY ProcSet DEF Good
  <1>0. Nobody \notin Requests /\ w.slot.req \in Requests \cup {Nobody}
    BY DEF RequestsAssumption, Good, Shapes, Slots, Someone
  <1>p. /\ SlotsInv(w) /\ OwnersInv(w) /\ QueueInv(w, ns) /\ NotifyInv(w, ns) /\ ToldInv(w, T)
        /\ EndInv(w, ds, ps) /\ AnsweredInv(w, as) /\ OnceInv(w, ns, as)
    BY DEF Good
  <1> HIDE DEF u
  <1>2. SlotsInv(u)
    BY <1>1, <1>p DEF SlotsInv
  <1>3. OwnersInv(u)
    BY <1>0, <1>1, <1>p DEF OwnersInv, ProcFits
  <1>4. QueueInv(u, ns)
    BY <1>0, <1>1, <1>p DEF QueueInv, ProcFits, Free, Queues
  <1>5. NotifyInv(u, ns)
    BY <1>1, <1>p DEF NotifyInv, ProcFits, Free
  <1>6. ToldInv(u, T)
    BY <1>1, <1>p DEF ToldInv, ProcFits
  <1>7. EndInv(u, ds, ps)
    BY <1>1, <1>p DEF EndInv
  <1>8. AnsweredInv(u, as)
    <2>1. Answered(as, r) => k.pc \in {"new", "done"}
      BY DEF ProcFits
    <2> QED BY <1>1, <1>p, <2>1 DEF AnsweredInv
  <1>9. OnceInv(u, ns, as)
    BY <1>1, <1>p DEF OnceInv
  <1> QED BY <1>1, <1>2, <1>3, <1>4, <1>5, <1>6, <1>7, <1>8, <1>9 DEF Good, u

\* The slot becomes s, whose request's handler is over, and no handler publishes.
LEMMA SlotMoves ==
  ASSUME RequestsAssumption, NEW w, NEW ns, NEW T, NEW ds, NEW ps, NEW as,
         Good(w, ns, T, ds, ps, as),
         NEW s \in Slots, SlotFits(w, s, ns, T, ds, ps, as),
         s.status = "publishing" => w.slot.status = "publishing" /\ w.slot.req = s.req,
         s.status # "publishing" =>
           /\ s.req # Nobody => w.proc[s.req].pc = "done"
           /\ w.slot.status = "publishing" => w.proc[w.slot.req].pc = "cancel"
  PROVE  Good(SetSlot(w, s), ns, T, ds, ps, as)
  <1> DEFINE u == SetSlot(w, s)
  <1>1. /\ u \in Shapes /\ u.slot = s
        /\ u.preparing = w.preparing /\ u.queue = w.queue /\ u.proc = w.proc
    BY SlotSet DEF Good
  <1>0. Nobody \notin Requests /\ s.req \in Requests \cup {Nobody}
    BY DEF RequestsAssumption, Slots, Someone
  <1>p. /\ SlotsInv(w) /\ OwnersInv(w) /\ QueueInv(w, ns) /\ NotifyInv(w, ns) /\ ToldInv(w, T)
        /\ EndInv(w, ds, ps) /\ AnsweredInv(w, as) /\ OnceInv(w, ns, as)
    BY DEF Good
  <1> HIDE DEF u
  <1>2. SlotsInv(u)
    BY <1>1, <1>p DEF SlotsInv, SlotFits
  <1>3. OwnersInv(u)
    BY <1>0, <1>1, <1>p DEF OwnersInv, SlotFits
  <1>4. QueueInv(u, ns)
    <2>1. s.req # Nobody => ~Queues(w.queue, s.req)
      BY DEF SlotFits
    <2> QED BY <1>0, <1>1, <1>p, <2>1 DEF QueueInv, Queues
  <1>5. NotifyInv(u, ns)
    BY <1>0, <1>1, <1>p DEF NotifyInv, SlotFits
  <1>6. ToldInv(u, T)
    BY <1>1, <1>p DEF ToldInv, SlotFits
  <1>7. EndInv(u, ds, ps)
    BY <1>1, <1>p DEF EndInv, SlotFits
  <1>8. AnsweredInv(u, as)
    <2>1. s.req # Nobody => ~Answered(as, s.req)
      BY DEF SlotFits
    <2> QED BY <1>0, <1>1, <1>p, <2>1 DEF AnsweredInv
  <1>9. OnceInv(u, ns, as)
    BY <1>1, <1>p DEF OnceInv, SlotFits
  <1> QED BY <1>1, <1>2, <1>3, <1>4, <1>5, <1>6, <1>7, <1>8, <1>9 DEF Good, u

\* The preparation slot becomes p, and no other handler counts on it.
LEMMA PreparingMoves ==
  ASSUME RequestsAssumption, NEW w, NEW ns, NEW T, NEW ds, NEW ps, NEW as,
         Good(w, ns, T, ds, ps, as),
         NEW p \in Preparations, p.req = Nobody => p = NoPreparation,
         w.slot = NoSlot \/ p = NoPreparation,
         \A r \in Requests : w.proc[r].then = "release" => p.req = r /\ ~p.marker,
         p.req \in T /\ p.req \in Requests /\ ~p.marker => p.ended,
         p.ended => p.req \in Requests /\ (p.req.topic \in ds \/ p.req \in ps)
  PROVE  Good(SetPreparing(w, p), ns, T, ds, ps, as)
  <1> DEFINE u == SetPreparing(w, p)
  <1>1. /\ u \in Shapes /\ u.preparing = p
        /\ u.slot = w.slot /\ u.queue = w.queue /\ u.proc = w.proc
    BY PreparingSet DEF Good
  <1>p. /\ SlotsInv(w) /\ OwnersInv(w) /\ QueueInv(w, ns) /\ NotifyInv(w, ns) /\ ToldInv(w, T)
        /\ EndInv(w, ds, ps) /\ AnsweredInv(w, as) /\ OnceInv(w, ns, as)
    BY DEF Good
  <1> HIDE DEF u
  <1>2. SlotsInv(u)
    BY <1>1, <1>p DEF SlotsInv
  <1>3. OwnersInv(u)
    BY <1>1, <1>p DEF OwnersInv
  <1>4. QueueInv(u, ns) /\ NotifyInv(u, ns)
    BY <1>1, <1>p DEF QueueInv, NotifyInv
  <1>6. ToldInv(u, T)
    BY <1>1, <1>p DEF ToldInv
  <1>7. EndInv(u, ds, ps)
    BY <1>1, <1>p DEF EndInv
  <1>8. AnsweredInv(u, as)
    BY <1>1, <1>p DEF AnsweredInv
  <1>9. OnceInv(u, ns, as)
    BY <1>1, <1>p DEF OnceInv
  <1> QED BY <1>1, <1>2, <1>3, <1>4, <1>6, <1>7, <1>8, <1>9 DEF Good, u

\* The displayed request's handler goes to k and its slot becomes s.
LEMMA BothMove ==
  ASSUME RequestsAssumption, NEW w, NEW ns, NEW T, NEW ds, NEW ps, NEW as,
         Good(w, ns, T, ds, ps, as),
         NEW r \in Requests, w.slot.req = r, NEW s \in Slots, s.req \in {r, Nobody},
         NEW k \in Processes,
         SlotFits(w, s, ns, T, ds, ps, as), ProcFits(w, s, r, k, ns, T, as)
  PROVE  Good(SetProc(SetSlot(w, s), r, k), ns, T, ds, ps, as)
  <1> DEFINE v == SetSlot(w, s)
             u == SetProc(v, r, k)
  <1>v. /\ v \in Shapes /\ v.slot = s
        /\ v.preparing = w.preparing /\ v.queue = w.queue /\ v.proc = w.proc
    BY SlotSet DEF Good
  <1> HIDE DEF v
  <1>1. /\ u \in Shapes /\ u.proc[r] = k /\ \A x \in Requests \ {r} : u.proc[x] = w.proc[x]
        /\ u.slot = s /\ u.preparing = w.preparing /\ u.queue = w.queue
    BY <1>v, ProcSet
  <1>0. Nobody \notin Requests
    BY DEF RequestsAssumption
  <1>p. /\ SlotsInv(w) /\ OwnersInv(w) /\ QueueInv(w, ns) /\ NotifyInv(w, ns) /\ ToldInv(w, T)
        /\ EndInv(w, ds, ps) /\ AnsweredInv(w, as) /\ OnceInv(w, ns, as)
    BY DEF Good
  <1> HIDE DEF u
  <1>2. SlotsInv(u)
    BY <1>1, <1>p DEF SlotsInv, SlotFits
  <1>3. OwnersInv(u)
    BY <1>0, <1>1, <1>p DEF OwnersInv, ProcFits
  <1>4. QueueInv(u, ns)
    <2>1. s.req # Nobody => ~Queues(w.queue, s.req)
      BY DEF SlotFits
    <2>2. k.pc # "done" => ~Queues(w.queue, r)
      BY DEF ProcFits, Free
    <2> QED BY <1>0, <1>1, <1>p, <2>1, <2>2 DEF QueueInv, Queues
  <1>5. NotifyInv(u, ns)
    <2>1. s.req # Nobody /\ ns[s.req] > 0 => s.status \notin {"awaiting", "publishing", "error"}
      BY DEF SlotFits
    <2>2. k.pc # "done" => ns[r] = 0
      BY DEF ProcFits, Free
    <2> QED BY <1>0, <1>1, <1>p, <2>1, <2>2 DEF NotifyInv
  <1>6. ToldInv(u, T)
    BY <1>1, <1>p DEF ToldInv, SlotFits, ProcFits
  <1>7. EndInv(u, ds, ps)
    BY <1>1, <1>p DEF EndInv, SlotFits
  <1>8. AnsweredInv(u, as)
    <2>1. s.req # Nobody => ~Answered(as, s.req)
      BY DEF SlotFits
    <2>2. Answered(as, r) => k.pc \in {"new", "done"}
      BY DEF ProcFits
    <2> QED BY <1>0, <1>1, <1>p, <2>1, <2>2 DEF AnsweredInv
  <1>9. OnceInv(u, ns, as)
    BY <1>1, <1>p DEF OnceInv, SlotFits
  <1> QED BY <1>1, <1>2, <1>3, <1>4, <1>5, <1>6, <1>7, <1>8, <1>9 DEF Good, u, v

\* What may wait in the queue of w.
QueueFits(w, q, ns, as) ==
  /\ \A i \in 1..Len(q) :
       IF q[i].local THEN q[i].req = Nobody /\ q[i].out = "unknown"
       ELSE /\ q[i].req \in Requests /\ q[i].req # w.slot.req
            /\ w.proc[q[i].req].pc = "done" /\ ns[q[i].req] = 0
  /\ \A i, j \in 1..Len(q) : i # j /\ q[i].req = q[j].req => q[i].local
  /\ \A r \in Requests : Queues(q, r) => ~Answered(as, r)

LEMMA QueueMoves ==
  ASSUME RequestsAssumption, NEW w, NEW ns, NEW T, NEW ds, NEW ps, NEW as,
         Good(w, ns, T, ds, ps, as),
         NEW q \in Seq(Waiting), QueueFits(w, q, ns, as)
  PROVE  Good([w EXCEPT !.queue = q], ns, T, ds, ps, as)
  <1> DEFINE u == [w EXCEPT !.queue = q]
  <1>1. /\ u \in Shapes /\ u.queue = q
        /\ u.slot = w.slot /\ u.preparing = w.preparing /\ u.proc = w.proc
    BY QueueSet DEF Good
  <1>p. /\ SlotsInv(w) /\ OwnersInv(w) /\ QueueInv(w, ns) /\ NotifyInv(w, ns) /\ ToldInv(w, T)
        /\ EndInv(w, ds, ps) /\ AnsweredInv(w, as) /\ OnceInv(w, ns, as)
    BY DEF Good
  <1> HIDE DEF u
  <1>2. SlotsInv(u)
    BY <1>1, <1>p DEF SlotsInv
  <1>3. OwnersInv(u)
    BY <1>1, <1>p DEF OwnersInv
  <1>4. QueueInv(u, ns)
    BY <1>1 DEF QueueInv, QueueFits
  <1>5. NotifyInv(u, ns)
    BY <1>1, <1>p DEF NotifyInv
  <1>6. ToldInv(u, T)
    BY <1>1, <1>p DEF ToldInv
  <1>7. EndInv(u, ds, ps)
    BY <1>1, <1>p DEF EndInv
  <1>8. AnsweredInv(u, as)
    <2>1. \A r \in Requests : Queues(q, r) => ~Answered(as, r)
      BY DEF QueueFits
    <2> QED BY <1>1, <1>p, <2>1 DEF AnsweredInv
  <1>9. OnceInv(u, ns, as)
    BY <1>1, <1>p DEF OnceInv
  <1> QED BY <1>1, <1>2, <1>3, <1>4, <1>5, <1>6, <1>7, <1>8, <1>9 DEF Good, u

\* The queue of a good store fits it.
LEMMA QueueIsFit ==
  ASSUME NEW w, NEW ns, NEW T, NEW ds, NEW ps, NEW as, Good(w, ns, T, ds, ps, as)
  PROVE  QueueFits(w, w.queue, ns, as) /\ w.queue \in Seq(Waiting)
  <1>1. QueueInv(w, ns) /\ AnsweredInv(w, as) /\ w \in Shapes
    BY DEF Good
  <1>2. \A r \in Requests : Queues(w.queue, r) => ~Answered(as, r)
    BY <1>1 DEF AnsweredInv
  <1> QED BY <1>1, <1>2 DEF QueueFits, QueueInv, Shapes

\* A queue whose entries are some of q's, at different places, fits as q does.
LEMMA PartFits ==
  ASSUME NEW w, NEW ns, NEW as, NEW q \in Seq(Waiting), QueueFits(w, q, ns, as),
         NEW p \in Seq(Waiting), NEW at \in [1..Len(p) -> 1..Len(q)],
         \A i \in 1..Len(p) : p[i] = q[at[i]],
         \A i, j \in 1..Len(p) : i # j => at[i] # at[j]
  PROVE  QueueFits(w, p, ns, as)
  <1>1. \A i \in 1..Len(p) : at[i] \in 1..Len(q)
    OBVIOUS
  <1>2. \A r \in Requests : Queues(p, r) => Queues(q, r)
    BY <1>1 DEF Queues
  <1>3. \A i \in 1..Len(p) :
          IF p[i].local THEN p[i].req = Nobody /\ p[i].out = "unknown"
          ELSE /\ p[i].req \in Requests /\ p[i].req # w.slot.req
               /\ w.proc[p[i].req].pc = "done" /\ ns[p[i].req] = 0
    BY <1>1 DEF QueueFits
  <1>4. \A i, j \in 1..Len(p) : i # j /\ p[i].req = p[j].req => p[i].local
    BY <1>1 DEF QueueFits
  <1>5. \A r \in Requests : Queues(p, r) => ~Answered(as, r)
    BY <1>2 DEF QueueFits
  <1> QED BY <1>3, <1>4, <1>5 DEF QueueFits

-----------------------------------------------------------------------------
(* The queue.                                                              *)

\* The entries of p are entries of q that are not gone, each from its own place.
PartOf(p, q, gone) ==
  \E at \in [1..Len(p) -> 1..Len(q)] :
    /\ \A i \in 1..Len(p) : p[i] = q[at[i]] /\ q[at[i]] \notin gone
    /\ \A i, j \in 1..Len(p) : i # j => at[i] # at[j]

LEMMA WithoutParts ==
  ASSUME NEW T, NEW q \in Seq(T), NEW gone
  PROVE  Without(q, gone) \in Seq(T) /\ PartOf(Without(q, gone), q, gone)
  <1> DEFINE kept == {i \in DOMAIN q : q[i] \notin gone}
             before(i) == Cardinality({j \in kept : j < i})
             n == Cardinality(kept)
             at == [a \in 1..n |-> CHOOSE i \in kept : before(i) = a - 1]
  <1>1. IsFiniteSet(kept) /\ kept \subseteq 1..Len(q) /\ n \in Nat
    <2>1. kept \subseteq 1..Len(q)
      OBVIOUS
    <2>2. IsFiniteSet(1..Len(q))
      BY FS_Interval
    <2>3. IsFiniteSet(kept)
      BY <2>1, <2>2, FS_Subset
    <2> QED BY <2>1, <2>3, FS_CardinalityType
  <1>2. \A i \in kept : before(i) \in 0..n-1
    <2> SUFFICES ASSUME NEW i \in kept PROVE before(i) \in 0..n-1
      OBVIOUS
    <2> DEFINE B == {j \in kept : j < i}
    <2>1. B \subseteq kept /\ B # kept
      BY <1>1
    <2>2. Cardinality(B) <= n /\ Cardinality(B) # n /\ IsFiniteSet(B)
      BY <1>1, <2>1, FS_Subset
    <2>3. Cardinality(B) \in Nat
      BY <2>2, FS_CardinalityType
    <2> QED BY <1>1, <2>2, <2>3
  <1>3. \A i, k \in kept : i # k => before(i) # before(k)
    <2>1. ASSUME NEW i \in kept, NEW k \in kept, i < k PROVE before(i) # before(k)
      <3> DEFINE B == {j \in kept : j < i}
                 C == {j \in kept : j < k}
      <3>1. IsFiniteSet(C) /\ B \subseteq C /\ B # C
        <4>1. C \subseteq kept
          OBVIOUS
        <4>2. IsFiniteSet(C)
          BY <1>1, <4>1, FS_Subset
        <4>3. i \in C /\ i \notin B
          BY <1>1, <2>1
        <4>4. B \subseteq C
          BY <1>1, <2>1
        <4> QED BY <4>2, <4>3, <4>4
      <3>2. Cardinality(B) # Cardinality(C)
        BY <3>1, FS_Subset
      <3> QED BY <3>2
    <2>2. \A i, k \in kept : i # k => i < k \/ k < i
      BY <1>1
    <2> QED BY <2>1, <2>2
  <1>4. \A a \in 1..n : \E i \in kept : before(i) = a - 1
    <2> SUFFICES ASSUME NEW a \in 1..n, \A i \in kept : before(i) # a - 1 PROVE FALSE
      OBVIOUS
    <2> DEFINE rest == (0..n-1) \ {a - 1}
               rank == [i \in kept |-> before(i)]
    <2>1. rank \in [kept -> rest]
      BY <1>2
    <2>2. IsFiniteSet(rest) /\ Cardinality(rest) = n - 1
      <3>1. IsFiniteSet(0..n-1) /\ Cardinality(0..n-1) = n
        <4> HIDE DEF n
        <4>1. n - 1 \in Int /\ (0 > n - 1 => n = 0)
          BY <1>1
        <4> QED BY <1>1, <4>1, FS_Interval
      <3>2. a - 1 \in 0..n-1
        BY <1>1
      <3> QED BY <3>1, <3>2, FS_RemoveElement
    <2>3. \E x, y \in kept : x # y /\ rank[x] = rank[y]
      <3>1. Cardinality(rest) < Cardinality(kept)
        BY <1>1, <2>2
      <3> HIDE DEF rank, rest, kept
      <3> QED BY <1>1, <2>1, <2>2, <3>1, FS_PigeonHole
    <2> QED BY <2>3, <1>3
  <1>5. \A a \in 1..n : at[a] \in kept /\ before(at[a]) = a - 1
    <2> HIDE DEF kept, before
    <2> QED BY <1>4
  <1>6. Without(q, gone) = [a \in 1..n |-> q[at[a]]]
    BY DEF Without
  <1>7. \A a \in 1..n : q[at[a]] \in T /\ q[at[a]] \notin gone /\ at[a] \in 1..Len(q)
    <2>1. \A i \in kept : q[i] \in T /\ q[i] \notin gone /\ i \in 1..Len(q)
      BY <1>1
    <2> HIDE DEF at, n, before, kept
    <2> QED BY <1>5, <2>1
  <1> HIDE DEF at, n, before, kept
  <1>8. Without(q, gone) \in Seq(T) /\ Len(Without(q, gone)) = n
    BY <1>1, <1>6, <1>7
  <1>9. \A i, j \in 1..n : i # j => at[i] # at[j]
    BY <1>5, <1>1
  <1>10. at \in [1..n -> 1..Len(q)]
    BY <1>7 DEF at
  <1>11. PartOf(Without(q, gone), q, gone)
    BY <1>6, <1>7, <1>8, <1>9, <1>10 DEF PartOf
  <1> QED BY <1>8, <1>11

\* An entry that may be queued or shown: a record, or an unanswered request
\* that is nowhere else and whose handler is over.
EntryFits(w, e, ns, as) ==
  IF e.local THEN e.req = Nobody /\ e.out = "unknown"
  ELSE /\ e.req \in Requests /\ e.req # w.slot.req /\ w.proc[e.req].pc = "done"
       /\ Free(w, ns, e.req) /\ ~Answered(as, e.req)

LEMMA EnqueueIsGood ==
  ASSUME RequestsAssumption, NEW w, NEW ns, NEW T, NEW ds, NEW ps, NEW as,
         Good(w, ns, T, ds, ps, as),
         NEW e \in Waiting, EntryFits(w, e, ns, as)
  PROVE  Good(Enqueue(w, e), ns, T, ds, ps, as)
  <1> DEFINE same == {x \in Queued(w.queue) : EntryAt(x) = EntryAt(e)}
             p == Without(w.queue, same)
             q == Append(p, e)
  <1>1. w.queue \in Seq(Waiting) /\ QueueFits(w, w.queue, ns, as)
    BY QueueIsFit
  <1>e. /\ e.local => e.req = Nobody /\ e.out = "unknown"
        /\ ~e.local => /\ e.req \in Requests /\ e.req # w.slot.req /\ w.proc[e.req].pc = "done"
                       /\ ns[e.req] = 0 /\ ~Queues(w.queue, e.req) /\ ~Answered(as, e.req)
        /\ Nobody \notin Requests
    BY DEF EntryFits, Free, RequestsAssumption
  <1>9. Enqueue(w, e) = [w EXCEPT !.queue = q]
    BY DEF Enqueue
  <1> HIDE DEF same
  <1>3. p \in Seq(Waiting) /\ PartOf(p, w.queue, same)
    BY <1>1, WithoutParts
  <1> HIDE DEF p
  <1>2. PICK at \in [1..Len(p) -> 1..Len(w.queue)] :
          /\ \A i \in 1..Len(p) : p[i] = w.queue[at[i]] /\ w.queue[at[i]] \notin same
          /\ \A i, j \in 1..Len(p) : i # j => at[i] # at[j]
    BY <1>3 DEF PartOf
  <1>4. QueueFits(w, p, ns, as)
    BY <1>1, <1>2, <1>3, PartFits
  <1>5. \A r \in Requests : Queues(p, r) => Queues(w.queue, r)
    BY <1>2 DEF Queues
  <1>6. q \in Seq(Waiting) /\ Len(q) = Len(p) + 1 /\ q[Len(p) + 1] = e
        /\ \A i \in 1..Len(p) : q[i] = p[i]
    BY <1>3
  <1>7. \A i \in 1..Len(q) : i \in 1..Len(p) \/ i = Len(p) + 1
    BY <1>3, <1>6
  <1> HIDE DEF q
  <1>8. QueueFits(w, q, ns, as)
    <2>1. \A i \in 1..Len(q) :
            IF q[i].local THEN q[i].req = Nobody /\ q[i].out = "unknown"
            ELSE /\ q[i].req \in Requests /\ q[i].req # w.slot.req
                 /\ w.proc[q[i].req].pc = "done" /\ ns[q[i].req] = 0
      <3> SUFFICES ASSUME NEW i \in 1..Len(q)
                   PROVE  IF q[i].local THEN q[i].req = Nobody /\ q[i].out = "unknown"
                          ELSE /\ q[i].req \in Requests /\ q[i].req # w.slot.req
                               /\ w.proc[q[i].req].pc = "done" /\ ns[q[i].req] = 0
        OBVIOUS
      <3>1. CASE i \in 1..Len(p)
        BY <3>1, <1>4, <1>6 DEF QueueFits
      <3>2. CASE i = Len(p) + 1
        BY <3>2, <1>6, <1>e
      <3> QED BY <1>7, <3>1, <3>2
    <2>2. \A i \in 1..Len(p) : ~e.local => p[i].req # e.req
      BY <1>5, <1>e DEF Queues
    <2>3. \A i \in 1..Len(p) : p[i].req = e.req => p[i].local
      <3> SUFFICES ASSUME NEW i \in 1..Len(p), p[i].req = e.req, ~p[i].local PROVE FALSE
        OBVIOUS
      <3>1. p[i].req \in Requests
        BY <1>4 DEF QueueFits
      <3> QED BY <3>1, <2>2, <1>e
    <2>4. \A i, j \in 1..Len(q) : i # j /\ q[i].req = q[j].req => q[i].local
      <3> SUFFICES ASSUME NEW i \in 1..Len(q), NEW j \in 1..Len(q), i # j, q[i].req = q[j].req
                   PROVE  q[i].local
        OBVIOUS
      <3>1. CASE i \in 1..Len(p) /\ j \in 1..Len(p)
        BY <3>1, <1>4, <1>6 DEF QueueFits
      <3>2. CASE i \in 1..Len(p) /\ j = Len(p) + 1
        BY <3>2, <1>6, <2>3
      <3>3. CASE i = Len(p) + 1 /\ j \in 1..Len(p)
        BY <3>3, <1>6, <2>2
      <3> QED BY <1>7, <3>1, <3>2, <3>3
    <2>5. \A r \in Requests : Queues(q, r) => Queues(p, r) \/ e.req = r
      BY <1>6, <1>7 DEF Queues
    <2>6. \A r \in Requests : Queues(q, r) => ~Answered(as, r)
      BY <1>4, <2>5, <1>e DEF QueueFits
    <2> QED BY <2>1, <2>4, <2>6 DEF QueueFits
  <1>10. Good([w EXCEPT !.queue = q], ns, T, ds, ps, as)
    BY <1>6, <1>8, QueueMoves
  <1> QED BY <1>9, <1>10

\* The first entry leaves the queue.
LEMMA TailIsGood ==
  ASSUME RequestsAssumption, NEW w, NEW ns, NEW T, NEW ds, NEW ps, NEW as,
         Good(w, ns, T, ds, ps, as),
         w.queue # <<>>
  PROVE  LET e == Head(w.queue)
             u == [w EXCEPT !.queue = Tail(@)]
         IN  /\ Good(u, ns, T, ds, ps, as) /\ e \in Waiting /\ EntryFits(u, e, ns, as)
             /\ u.slot = w.slot /\ u.preparing = w.preparing /\ u.proc = w.proc
  <1> DEFINE q == w.queue
             p == Tail(q)
             at == [i \in 1..Len(p) |-> i + 1]
             e == Head(q)
             u == [w EXCEPT !.queue = p]
  <1>1. q \in Seq(Waiting) /\ QueueFits(w, q, ns, as) /\ w \in Shapes
    BY QueueIsFit DEF Good
  <1>2. Len(q) \in Nat /\ Len(q) > 0 /\ p \in Seq(Waiting) /\ Len(p) = Len(q) - 1 /\ e = q[1]
        /\ e \in Waiting /\ \A i \in 1..Len(p) : p[i] = q[i + 1]
    BY <1>1
  <1> HIDE DEF p, e, q
  <1>3. /\ at \in [1..Len(p) -> 1..Len(q)]
        /\ \A i \in 1..Len(p) : p[i] = q[at[i]]
        /\ \A i, j \in 1..Len(p) : i # j => at[i] # at[j]
    BY <1>2
  <1> HIDE DEF at
  <1>4. QueueFits(w, p, ns, as)
    BY <1>1, <1>2, <1>3, PartFits
  <1>5. Good(u, ns, T, ds, ps, as)
    BY <1>2, <1>4, QueueMoves
  <1>6. u.queue = p /\ u.slot = w.slot /\ u.preparing = w.preparing /\ u.proc = w.proc
    BY <1>1, <1>2, QueueSet
  <1> HIDE DEF u
  <1>7. EntryFits(u, e, ns, as)
    <2>1. CASE e.local
      BY <2>1, <1>1, <1>2 DEF QueueFits, EntryFits
    <2>2. CASE ~e.local
      <3>1. /\ e.req \in Requests /\ e.req # w.slot.req
            /\ w.proc[e.req].pc = "done" /\ ns[e.req] = 0
        BY <1>1, <1>2, <2>2 DEF QueueFits
      <3>2. \A i \in 1..Len(p) : p[i].req # e.req
        <4> SUFFICES ASSUME NEW i \in 1..Len(p), p[i].req = e.req PROVE FALSE
          OBVIOUS
        <4>1. /\ i + 1 \in 1..Len(q) /\ 1 \in 1..Len(q) /\ 1 # i + 1
              /\ q[1].req = q[i + 1].req /\ ~q[1].local
          BY <1>2, <2>2
        <4> QED BY <4>1, <1>1 DEF QueueFits
      <3>3. Queues(q, e.req)
        BY <1>2 DEF Queues
      <3>4. ~Answered(as, e.req)
        BY <1>1, <3>1, <3>3 DEF QueueFits
      <3> QED BY <1>6, <2>2, <3>1, <3>2, <3>4 DEF EntryFits, Free, Queues
    <2> QED BY <2>1, <2>2
  <1> QED BY <1>2, <1>5, <1>6, <1>7 DEF u, p, e, q

-----------------------------------------------------------------------------
(* The slots.                                                              *)

LEMMA ShowFrame ==
  ASSUME NEW w \in Shapes, NEW e \in Entries, NEW t \in Statuses, NEW ended \in BOOLEAN
  PROVE  LET s == [req |-> e.req, key |-> e.key, status |-> t, ended |-> ended,
                   local |-> e.local, checks |-> 0]
             u == Show(w, e, t, ended)
         IN  /\ u = SetSlot(w, s) /\ s \in Slots
             /\ u \in Shapes /\ u.slot = s /\ u.preparing = w.preparing /\ u.queue = w.queue
             /\ u.proc = w.proc
  <1> DEFINE s == [req |-> e.req, key |-> e.key, status |-> t, ended |-> ended,
                   local |-> e.local, checks |-> 0]
  <1>1. s \in Slots
    BY DEF Entries, Slots
  <1>2. Show(w, e, t, ended) = SetSlot(w, s)
    BY DEF Show
  <1> HIDE DEF s
  <1>3. /\ SetSlot(w, s) \in Shapes /\ SetSlot(w, s).slot = s
        /\ SetSlot(w, s).preparing = w.preparing /\ SetSlot(w, s).queue = w.queue
        /\ SetSlot(w, s).proc = w.proc
    BY <1>1, SlotSet
  <1> QED BY <1>1, <1>2, <1>3 DEF s

\* With free slots, an entry may be shown.
LEMMA ShowIsGood ==
  ASSUME RequestsAssumption, NEW w, NEW ns, NEW T, NEW ds, NEW ps, NEW as,
         Good(w, ns, T, ds, ps, as),
         ~Busy(w), NEW e \in Entries, EntryFits(w, e, ns, as),
         NEW t \in {"unknown", "delivery-error", "awaiting"}, e.local => t = "unknown",
         t = "awaiting" => e.req \notin T,
         NEW ended \in BOOLEAN,
         ended => e.req \in Requests /\ (e.req.topic \in ds \/ e.req \in ps)
  PROVE  Good(Show(w, e, t, ended), ns, T, ds, ps, as)
  <1> DEFINE s == [req |-> e.req, key |-> e.key, status |-> t, ended |-> ended,
                   local |-> e.local, checks |-> 0]
  <1>1. s \in Slots /\ s.req = e.req /\ s.status = t /\ (s.ended <=> ended)
        /\ (s.local <=> e.local) /\ s.checks = 0 /\ s # NoSlot
    BY DEF Entries, Slots, Statuses, NoSlot
  <1>2. /\ w.slot = NoSlot /\ w.preparing = NoPreparation
        /\ NoSlot.status = "none" /\ NoSlot.req = Nobody
    BY DEF Busy, NoSlot
  <1>3. Show(w, e, t, ended) = SetSlot(w, s)
    BY DEF Show
  <1> HIDE DEF s
  <1>4. \A r \in Requests : MaxChecks <= 1 => ns[r] = 0
    <2>1. OnceInv(w, ns, as) /\ ns \in [Requests -> Nat]
      BY DEF Good
    <2>2. Nobody \notin Requests
      BY DEF RequestsAssumption
    <2>3. \A r \in Requests : ns[r] \in Nat /\ (ns[r] > 0 \/ ns[r] = 0)
      BY <2>1
    <2> QED BY <1>2, <2>1, <2>2, <2>3 DEF OnceInv
  <1>5. /\ e.local => e.req = Nobody
        /\ ~e.local => /\ e.req \in Requests /\ w.proc[e.req].pc = "done"
                       /\ ns[e.req] = 0 /\ ~Queues(w.queue, e.req) /\ ~Answered(as, e.req)
        /\ Nobody \notin Requests
    BY DEF EntryFits, Free, RequestsAssumption
  <1>6. e.local \in BOOLEAN
    BY DEF Entries
  <1>7. SlotFits(w, s, ns, T, ds, ps, as)
    <2>1. /\ s.status = "none" <=> s = NoSlot
          /\ s.local => s.status \in {"unknown", "recovered"}
          /\ s.req = Nobody <=> s.status = "none" \/ s.local
          /\ ~(s.checks > 0) /\ (s.status = "awaiting" => s.req \notin T)
          /\ w.preparing = NoPreparation
      <3>1. s.status = "none" <=> s = NoSlot
        BY <1>1
      <3>2. s.local => s.status \in {"unknown", "recovered"}
        BY <1>1
      <3>3. s.req = Nobody <=> s.status = "none" \/ s.local
        BY <1>1, <1>5
      <3>4. ~(s.checks > 0)
        BY <1>1
      <3>5. s.status = "awaiting" => s.req \notin T
        BY <1>1
      <3> QED BY <3>1, <3>2, <3>3, <3>4, <3>5, <1>2
    <2>5. s.req # Nobody => e.req \in Requests /\ ~e.local
      BY <1>1, <1>5, <1>6
    <2>2. s.req # Nobody => ~Queues(w.queue, s.req) /\ ~Answered(as, s.req)
      BY <1>1, <1>5, <2>5
    <2>6. s.req # Nobody => ~(ns[s.req] > 0)
      <3>1. s.req # Nobody => ns[e.req] = 0
        BY <1>5, <2>5
      <3>2. s.req = e.req
        BY <1>1
      <3>3. ns[e.req] = 0 => ~(ns[e.req] > 0)
        OBVIOUS
      <3> QED BY <3>1, <3>2, <3>3
    <2>3. s.ended => s.req \in Requests /\ (s.req.topic \in ds \/ s.req \in ps)
      BY <1>1
    <2>4. MaxChecks <= 1 => \A r \in Requests : ~(ns[r] > 0)
      BY <1>4
    <2> QED BY <2>1, <2>2, <2>3, <2>4, <2>6 DEF SlotFits
  <1>8. Good(SetSlot(w, s), ns, T, ds, ps, as)
    BY <1>1, <1>2, <1>5, <1>6, <1>7, SlotMoves
  <1> QED BY <1>3, <1>8

LEMMA DeliveryFrame ==
  ASSUME RequestsAssumption, NEW w \in Shapes, NEW r \in Requests, NEW key \in Keys,
         NEW then \in Thens
  PROVE  LET u == BeginDelivery(w, r, key, then)
         IN  /\ u \in Shapes /\ u.slot = w.slot /\ u.queue = w.queue
             /\ u.proc[r] = At("deliver", key, then)
             /\ \A x \in Requests \ {r} : u.proc[x] = w.proc[x]
  <1> DEFINE k == At("deliver", key, then)
             d == SetProc(w, r, k)
             p == Preparation(r, TRUE)
  <1>1. k \in Processes /\ p \in Preparations
    BY DEF At, Processes, Pcs, Outs, Preparation, Preparations, Someone
  <1> HIDE DEF p, k
  <1>2. /\ d \in Shapes /\ d.proc[r] = k /\ \A x \in Requests \ {r} : d.proc[x] = w.proc[x]
        /\ d.slot = w.slot /\ d.queue = w.queue
    BY <1>1, ProcSet
  <1> HIDE DEF d
  <1>3. LET u == SetPreparing(d, p)
        IN  u \in Shapes /\ u.slot = d.slot /\ u.queue = d.queue /\ u.proc = d.proc
    BY <1>1, <1>2, PreparingSet
  <1>4. BeginDelivery(w, r, key, then) \in {d, SetPreparing(d, p)}
    BY DEF BeginDelivery, d, k, p
  <1> QED BY <1>2, <1>3, <1>4 DEF k

\* The delivery of an unanswered request's result may begin.
LEMMA DeliveryIsGood ==
  ASSUME RequestsAssumption, NEW w, NEW ns, NEW T, NEW ds, NEW ps, NEW as,
         Good(w, ns, T, ds, ps, as),
         NEW r \in Requests, NEW key \in Keys, NEW then \in {"stop", "release", "drain"},
         then = "release" => w.preparing.req = r /\ ~w.preparing.marker,
         w.slot.req # r, Free(w, ns, r), ~Answered(as, r)
  PROVE  Good(BeginDelivery(w, r, key, then), ns, T, ds, ps, as)
  <1> DEFINE k == At("deliver", key, then)
             d == SetProc(w, r, k)
             p == Preparation(r, TRUE)
  <1>1. k \in Processes /\ k.pc = "deliver" /\ k.then = then
    BY DEF At, Processes, Pcs, Outs, Thens
  <1> HIDE DEF k
  <1>2. ProcFits(w, w.slot, r, k, ns, T, as)
    BY <1>1 DEF ProcFits
  <1>3. Good(d, ns, T, ds, ps, as)
    BY <1>1, <1>2, ProcMoves
  <1>4. /\ d \in Shapes /\ d.proc[r] = k /\ \A x \in Requests \ {r} : d.proc[x] = w.proc[x]
        /\ d.slot = w.slot /\ d.preparing = w.preparing
    BY <1>1, ProcSet DEF Good
  <1> HIDE DEF d
  <1>5. p \in Preparations /\ p.req = r /\ p.marker /\ ~p.ended /\ Nobody \notin Requests
        /\ NoPreparation.req = Nobody
    BY DEF Preparation, Preparations, Someone, RequestsAssumption, NoPreparation
  <1> HIDE DEF p
  <1>6. CASE Busy(w)
    <2>1. BeginDelivery(w, r, key, then) = d
      BY <1>6 DEF BeginDelivery, d, k
    <2> QED BY <2>1, <1>3
  <1>7. CASE ~Busy(w)
    <2>1. BeginDelivery(w, r, key, then) = SetPreparing(d, p)
      BY <1>7 DEF BeginDelivery, d, k, p
    <2>2. w.slot = NoSlot /\ w.preparing = NoPreparation
      BY <1>7 DEF Busy
    <2>3. \A x \in Requests : d.proc[x].then # "release"
      BY <1>3, <1>4, <1>5, <2>2 DEF Good, OwnersInv
    <2>4. Good(SetPreparing(d, p), ns, T, ds, ps, as)
      BY <1>3, <1>4, <1>5, <2>2, <2>3, PreparingMoves
    <2> QED BY <2>1, <2>4
  <1> QED BY <1>6, <1>7

\* With free slots, an entry may leave the queue.
Resumed(w, e) ==
  IF e.out = "published" THEN BeginDelivery(w, e.req, e.key, "drain")
  ELSE Show(w, e, "unknown", FALSE)

LEMMA WaitingEntries == Waiting \subseteq Entries
  BY DEF Waiting, Entries, Outs

LEMMA ResumedIsGood ==
  ASSUME RequestsAssumption, NEW w, NEW ns, NEW T, NEW ds, NEW ps, NEW as,
         Good(w, ns, T, ds, ps, as),
         ~Busy(w), NEW e \in Waiting, EntryFits(w, e, ns, as)
  PROVE  LET u == Resumed(w, e)
         IN  /\ Good(u, ns, T, ds, ps, as)
             /\ \A x \in Requests :
                  u.proc[x] = w.proc[x] \/ (w.proc[x].pc = "done" /\ w.slot.req # x)
  <1>1. CASE e.out = "published"
    <2> DEFINE u == BeginDelivery(w, e.req, e.key, "drain")
    <2>1. /\ e.req \in Requests /\ e.req # w.slot.req /\ w.proc[e.req].pc = "done"
          /\ Free(w, ns, e.req) /\ ~Answered(as, e.req) /\ e.key \in Keys
      BY <1>1 DEF EntryFits, Waiting
    <2>2. Good(u, ns, T, ds, ps, as)
      BY <2>1, DeliveryIsGood
    <2>4. \A x \in Requests \ {e.req} : u.proc[x] = w.proc[x]
      BY <2>1, DeliveryFrame DEF Good, Thens
    <2>3. Resumed(w, e) = u
      BY <1>1 DEF Resumed
    <2> HIDE DEF u
    <2> QED BY <2>1, <2>2, <2>3, <2>4
  <1>2. CASE e.out # "published"
    <2>1. Resumed(w, e) = Show(w, e, "unknown", FALSE)
      BY <1>2 DEF Resumed
    <2>2. Good(Show(w, e, "unknown", FALSE), ns, T, ds, ps, as)
      BY ShowIsGood, WaitingEntries
    <2>3. Show(w, e, "unknown", FALSE).proc = w.proc
      BY ShowFrame, WaitingEntries DEF Good, Statuses
    <2> QED BY <2>1, <2>2, <2>3
  <1> QED BY <1>1, <1>2

\* What Drain does: nothing, show the first entry, or deliver the result of a
\* request whose handler was over.
LEMMA DrainIsGood ==
  ASSUME RequestsAssumption, NEW w, NEW ns, NEW T, NEW ds, NEW ps, NEW as,
         Good(w, ns, T, ds, ps, as)
  PROVE  LET u == Drain(w)
         IN  /\ Good(u, ns, T, ds, ps, as)
             /\ u = w \/ w.slot = NoSlot
             /\ \A x \in Requests :
                  u.proc[x] = w.proc[x] \/ (w.proc[x].pc = "done" /\ w.slot.req # x)
  <1>1. CASE Busy(w) \/ w.queue = <<>>
    BY <1>1 DEF Drain
  <1>2. CASE ~(Busy(w) \/ w.queue = <<>>)
    <2> DEFINE e == Head(w.queue)
               rest == [w EXCEPT !.queue = Tail(@)]
    <2>1. /\ Good(rest, ns, T, ds, ps, as) /\ e \in Waiting /\ EntryFits(rest, e, ns, as)
          /\ rest.slot = w.slot /\ rest.preparing = w.preparing /\ rest.proc = w.proc
      BY <1>2, TailIsGood
    <2>2. Drain(w) = Resumed(rest, e)
      BY <1>2 DEF Drain, Resumed
    <2> HIDE DEF e, rest
    <2>3. w.slot = NoSlot /\ ~Busy(rest)
      BY <1>2, <2>1 DEF Busy
    <2>4. /\ Good(Resumed(rest, e), ns, T, ds, ps, as)
          /\ \A x \in Requests : Resumed(rest, e).proc[x] = rest.proc[x]
                               \/ (rest.proc[x].pc = "done" /\ rest.slot.req # x)
      BY <2>1, <2>3, ResumedIsGood
    <2> QED BY <2>1, <2>2, <2>3, <2>4
  <1> QED BY <1>1, <1>2

\* Draining the queue leaves every hold in sight.
LEMMA DrainKeepsHolds ==
  ASSUME RequestsAssumption, NEW w, NEW ns, NEW T, NEW ds, NEW ps, NEW as,
         Good(w, ns, T, ds, ps, as),
         NEW h, HoldInv(w, h)
  PROVE  HoldInv(Drain(w), h)
  <1>1. /\ Drain(w) = w \/ w.slot = NoSlot
        /\ \A x \in Requests :
             Drain(w).proc[x] = w.proc[x] \/ (w.proc[x].pc = "done" /\ w.slot.req # x)
    BY DrainIsGood
  <1>2. NoSlot.req = Nobody /\ Nobody \notin Requests
    BY DEF NoSlot, RequestsAssumption
  <1> QED BY <1>1, <1>2 DEF HoldInv

-----------------------------------------------------------------------------
(* The ends of a handler.                                                  *)

LEMMA FinishIsGood ==
  ASSUME RequestsAssumption, NEW w, NEW ns, NEW T, NEW ds, NEW ps, NEW as,
         Good(w, ns, T, ds, ps, as),
         NEW r \in Requests, w.slot.req = r => w.slot.status # "publishing"
  PROVE  Good(Finish(w, r), ns, T, ds, ps, as)
  <1>1. Settled.pc = "done" /\ Settled.then = "stop" /\ Settled \in Processes
    BY Constants DEF Settled, At
  <1>2. ProcFits(w, w.slot, r, Settled, ns, T, as)
    BY <1>1 DEF ProcFits
  <1>3. Good(SetProc(w, r, Settled), ns, T, ds, ps, as)
    BY <1>1, <1>2, ProcMoves
  <1> QED BY <1>3 DEF Finish

LEMMA FinishFrame ==
  ASSUME RequestsAssumption, NEW w \in Shapes, NEW r \in Requests
  PROVE  LET u == Finish(w, r)
         IN  /\ u \in Shapes /\ u.slot = w.slot /\ u.preparing = w.preparing /\ u.queue = w.queue
             /\ u.proc[r] = Settled /\ u.proc[r].pc = "done" /\ u.proc[r].then = "stop"
             /\ \A x \in Requests \ {r} : u.proc[x] = w.proc[x]
  <1>1. Settled.pc = "done" /\ Settled.then = "stop" /\ Settled \in Processes
    BY Constants DEF Settled, At
  <1> QED BY <1>1, ProcSet DEF Finish

LEMMA ReleaseIsGood ==
  ASSUME RequestsAssumption, NEW w, NEW ns, NEW T, NEW ds, NEW ps, NEW as,
         Good(w, ns, T, ds, ps, as),
         NEW r \in Requests, w.proc[r].then # "release"
  PROVE  /\ Good(Release(w, r), ns, T, ds, ps, as)
         /\ \A h : HoldInv(w, h) => HoldInv(Release(w, r), h)
  <1> DEFINE v == SetPreparing(w, NoPreparation)
  <1>1. CASE w.preparing.req # r
    BY <1>1 DEF Release
  <1>2. CASE w.preparing.req = r
    <2>1. NoPreparation \in Preparations /\ NoPreparation.req = Nobody /\ ~NoPreparation.ended
          /\ Nobody \notin Requests
      BY Constants DEF NoPreparation, Preparation
    <2>2. \A x \in Requests : w.proc[x].then # "release"
      BY <1>2 DEF Good, OwnersInv
    <2>3. Good(v, ns, T, ds, ps, as)
      BY <2>1, <2>2, PreparingMoves
    <2>4. v.slot = w.slot /\ v.proc = w.proc
      BY <2>1, PreparingSet DEF Good
    <2>5. Release(w, r) = Drain(v)
      BY <1>2 DEF Release
    <2> HIDE DEF v
    <2>6. Good(Drain(v), ns, T, ds, ps, as)
      BY <2>3, DrainIsGood
    <2>7. ASSUME NEW h, HoldInv(w, h) PROVE HoldInv(Drain(v), h)
      <3>1. HoldInv(v, h)
        BY <2>4, <2>7 DEF HoldInv
      <3> QED BY <2>3, <3>1, DrainKeepsHolds
    <2> QED BY <2>5, <2>6, <2>7
  <1> QED BY <1>1, <1>2

\* What Leave does after Finish.
LEMMA LeaveIsGood ==
  ASSUME RequestsAssumption, NEW w \in Shapes, NEW ns, NEW T, NEW ds, NEW ps, NEW as,
         NEW r \in Requests, Good(Finish(w, r), ns, T, ds, ps, as)
  PROVE  /\ Good(Leave(w, r), ns, T, ds, ps, as)
         /\ \A h : HoldInv(Finish(w, r), h) => HoldInv(Leave(w, r), h)
  <1>1. Finish(w, r).proc[r].then # "release"
    BY FinishFrame
  <1>2. /\ Good(Release(Finish(w, r), r), ns, T, ds, ps, as)
        /\ \A h : HoldInv(Finish(w, r), h) => HoldInv(Release(Finish(w, r), r), h)
    BY <1>1, ReleaseIsGood
  <1>3. Leave(w, r) \in {Release(Finish(w, r), r), Finish(w, r)}
    BY DEF Leave
  <1> QED BY <1>2, <1>3

LEMMA AfterDeliveryIsGood ==
  ASSUME RequestsAssumption, NEW w \in Shapes, NEW ns, NEW T, NEW ds, NEW ps, NEW as,
         NEW r \in Requests, Good(Finish(w, r), ns, T, ds, ps, as), NEW then
  PROVE  /\ Good(AfterDelivery(w, r, then), ns, T, ds, ps, as)
         /\ \A h : HoldInv(Finish(w, r), h) => HoldInv(AfterDelivery(w, r, then), h)
  <1> DEFINE f == Finish(w, r)
  <1>1. f.proc[r].then # "release"
    BY FinishFrame
  <1>2. AfterDelivery(w, r, then) \in {Drain(f), Release(f, r), f}
    BY DEF AfterDelivery
  <1> HIDE DEF f
  <1>0. Good(f, ns, T, ds, ps, as)
    BY DEF f
  <1>3. Good(Drain(f), ns, T, ds, ps, as) /\ Good(Release(f, r), ns, T, ds, ps, as)
    BY <1>0, <1>1, DrainIsGood, ReleaseIsGood
  <1>4. ASSUME NEW h, HoldInv(f, h) PROVE HoldInv(Drain(f), h) /\ HoldInv(Release(f, r), h)
    <2>1. HoldInv(Drain(f), h)
      BY <1>0, <1>4, DrainKeepsHolds
    <2>2. HoldInv(Release(f, r), h)
      BY <1>0, <1>1, <1>4, ReleaseIsGood
    <2> QED BY <2>1, <2>2
  <1> QED BY <1>0, <1>2, <1>3, <1>4 DEF f

\* A request whose handler is over and that is shown nowhere is answered.
LEMMA AnswerIsGood ==
  ASSUME RequestsAssumption, NEW w, NEW ns, NEW T, NEW ds, NEW ps, NEW as,
         Good(w, ns, T, ds, ps, as),
         NEW r \in Requests, NEW what \in {"result", "error"},
         w.proc[r].pc = "done", w.slot.req # r, ~Queues(w.queue, r),
         MaxChecks <= 1 => ~Answered(as, r)
  PROVE  Good(w, ns, T, ds, ps, [as EXCEPT ![r] = Append(@, what)])
  <1> DEFINE v == Append(as[r], what)
             bs == [as EXCEPT ![r] = Append(@, what)]
  <1>1. as \in [Requests -> Seq({"result", "error"})]
    BY DEF Good
  <1>0. v \in Seq({"result", "error"}) /\ Len(v) = Len(as[r]) + 1 /\ Len(as[r]) \in Nat
    <2> DEFINE a == as[r]
    <2>1. a \in Seq({"result", "error"})
      BY <1>1
    <2> HIDE DEF a
    <2>2. Append(a, what) \in Seq({"result", "error"}) /\ Len(Append(a, what)) = Len(a) + 1
          /\ Len(a) \in Nat
      BY <2>1
    <2> QED BY <2>2 DEF v, a
  <1>5. bs = [as EXCEPT ![r] = v]
    OBVIOUS
  <1> HIDE DEF v, bs
  <1>2. /\ bs \in [Requests -> Seq({"result", "error"})]
        /\ \A x \in Requests \ {r} : bs[x] = as[x]
        /\ bs[r] = v
    BY <1>0, <1>1, <1>5
  <1>3. AnsweredInv(w, bs)
    <2>1. \A x \in Requests \ {r} : Answered(bs, x) => Answered(as, x)
      BY <1>2 DEF Answered
    <2>2. AnsweredInv(w, as)
      BY DEF Good
    <2> QED BY <2>1, <2>2 DEF AnsweredInv
  <1>4. OnceInv(w, ns, bs)
    <2>1. MaxChecks <= 1 => as[r] = <<>>
      BY DEF Answered
    <2>4. MaxChecks <= 1 => Len(v) = 1
      <3> DEFINE a == as[r]
      <3>1. a = <<>> => Len(a) = 0
        OBVIOUS
      <3> HIDE DEF a
      <3>2. a = <<>> /\ Len(v) = Len(a) + 1 => Len(v) = 1
        BY <3>1
      <3> QED BY <1>0, <2>1, <3>2 DEF a
    <2>2. MaxChecks <= 1 => Len(bs[r]) <= 1
      <3>1. bs[r] = v
        BY <1>2
      <3>2. Len(v) = 1 => Len(v) <= 1
        OBVIOUS
      <3> QED BY <2>4, <3>1, <3>2
    <2>3. OnceInv(w, ns, as)
      BY DEF Good
    <2> QED BY <1>2, <2>2, <2>3 DEF OnceInv
  <1> QED BY <1>2, <1>3, <1>4 DEF Good, bs

-----------------------------------------------------------------------------
(* The journal.                                                            *)

\* What a lookup answers.
LEMMA LookupAnswers ==
  ASSUME JournalFits(journal), NEW r \in Requests, NEW o \in J!Lookup(journal, r)
  PROVE  o.outcome \in Outcomes /\ o.key \in Keys
  <1>1. DOMAIN journal \subseteq {Key(x) : x \in Requests}
    BY DEF JournalFits
  <1>2. J!FindByIntent(journal, r.topic, J!IntentOf(r), J!KeyOf(r)) \subseteq DOMAIN journal
        /\ J!FindByIntentAnyTopic(journal, J!IntentOf(r), J!KeyOf(r), r.topic)
             \subseteq DOMAIN journal
    BY DEF J!FindByIntent, J!FindByIntentAnyTopic
  <1>3. J!KeyOf(r) \in Keys /\ DOMAIN journal \subseteq Keys
    BY <1>1 DEF Keys, Key
  <1>4. \A rec : J!ReplayResult(rec) \in Outcomes
    BY DEF J!ReplayResult, Outcomes
  <1> QED BY <1>2, <1>3, <1>4 DEF J!Lookup, Outcomes

LEMMA PutFits ==
  ASSUME JournalFits(journal), NEW r \in Requests, NEW state \in J!States
  PROVE  JournalFits(J!Put(journal, Key(r), RecordOf(r, state)))
  <1>1. PICK D \in SUBSET {Key(x) : x \in Requests} :
          journal \in [D -> [intent : {J!IntentOf(x) : x \in Requests}, state : J!States]]
    BY DEF JournalFits
  <1>2. RecordOf(r, state) \in [intent : {J!IntentOf(x) : x \in Requests}, state : J!States]
    BY DEF RecordOf
  <1> DEFINE E == D \cup {Key(r)}
  <1>3. E \in SUBSET {Key(x) : x \in Requests}
    OBVIOUS
  <1>4. J!Put(journal, Key(r), RecordOf(r, state))
          \in [E -> [intent : {J!IntentOf(x) : x \in Requests}, state : J!States]]
    BY <1>1, <1>2 DEF J!Put
  <1> QED BY <1>3, <1>4 DEF JournalFits

LEMMA MarkFits ==
  ASSUME JournalFits(journal), NEW k
  PROVE  JournalFits(J!MarkPublished(journal, k))
  <1>1. PICK D \in SUBSET {Key(x) : x \in Requests} :
          journal \in [D -> [intent : {J!IntentOf(x) : x \in Requests}, state : J!States]]
    BY DEF JournalFits
  <1>2. J!MarkPublished(journal, k)
          \in [D -> [intent : {J!IntentOf(x) : x \in Requests}, state : J!States]]
    BY <1>1 DEF J!MarkPublished, J!States
  <1> QED BY <1>2 DEF JournalFits

LEMMA DeleteFits ==
  ASSUME JournalFits(journal), NEW k
  PROVE  JournalFits(J!DeletePublished(journal, k))
  <1>1. PICK D \in SUBSET {Key(x) : x \in Requests} :
          journal \in [D -> [intent : {J!IntentOf(x) : x \in Requests}, state : J!States]]
    BY DEF JournalFits
  <1> DEFINE E == D \ {k}
  <1>2. E \in SUBSET {Key(x) : x \in Requests}
    OBVIOUS
  <1>3. Restrict(journal, DOMAIN journal \ {k})
          \in [E -> [intent : {J!IntentOf(x) : x \in Requests}, state : J!States]]
    BY <1>1 DEF Restrict
  <1>4. J!DeletePublished(journal, k) \in {journal, Restrict(journal, DOMAIN journal \ {k})}
    BY DEF J!DeletePublished, J!Restrict, Restrict
  <1> QED BY <1>1, <1>2, <1>3, <1>4 DEF JournalFits

-----------------------------------------------------------------------------
(* What the steps are put together from.                                   *)

\* Stores with the same parts are the same.
LEMMA SameStore ==
  ASSUME NEW u \in Shapes, NEW v \in Shapes,
         u.slot = v.slot, u.preparing = v.preparing, u.queue = v.queue,
         \A x \in Requests : u.proc[x] = v.proc[x]
  PROVE  u = v
  <1>1. u.proc \in [Requests -> Processes] /\ v.proc \in [Requests -> Processes]
    BY DEF Shapes
  <1>2. u.proc = v.proc
    BY <1>1
  <1> QED BY <1>2 DEF Shapes

LEMMA EnqueueFrame ==
  ASSUME NEW w \in Shapes, NEW e \in Waiting
  PROVE  LET u == Enqueue(w, e)
         IN  /\ u \in Shapes /\ u.slot = w.slot /\ u.preparing = w.preparing /\ u.proc = w.proc
             /\ \E gone : u.queue = Append(Without(w.queue, gone), e)
             /\ \A v \in Shapes : v.queue = w.queue => Enqueue(v, e).queue = u.queue
  <1> DEFINE same(v) == {x \in Queued(v.queue) : EntryAt(x) = EntryAt(e)}
             q(v) == Append(Without(v.queue, same(v)), e)
  <1>1. ASSUME NEW v \in Shapes
        PROVE  /\ Enqueue(v, e) \in Shapes /\ Enqueue(v, e).queue = q(v)
               /\ Enqueue(v, e).slot = v.slot /\ Enqueue(v, e).preparing = v.preparing
               /\ Enqueue(v, e).proc = v.proc
    <2>1. v.queue \in Seq(Waiting)
      BY DEF Shapes
    <2>2. Without(v.queue, same(v)) \in Seq(Waiting)
      <3> HIDE DEF same
      <3> QED BY <2>1, WithoutParts
    <2>3. q(v) \in Seq(Waiting)
      BY <2>2
    <2>4. Enqueue(v, e) = [v EXCEPT !.queue = q(v)]
      BY DEF Enqueue
    <2> HIDE DEF q
    <2> QED BY <2>3, <2>4, QueueSet
  <1>2. \A v \in Shapes : v.queue = w.queue => q(v) = q(w)
    OBVIOUS
  <1> QED BY <1>1, <1>2

\* The request's notification is sent while its slot says so.
LEMMA NotifyMore ==
  ASSUME RequestsAssumption, NEW w, NEW ns, NEW T, NEW ds, NEW ps, NEW as,
         Good(w, ns, T, ds, ps, as),
         NEW r \in Requests, w.slot.req = r, w.slot.status = "notifying",
         MaxChecks <= 1 => ns[r] = 0
  PROVE  Good(w, [ns EXCEPT ![r] = @ + 1], T, ds, ps, as)
  <1> DEFINE u == [ns EXCEPT ![r] = @ + 1]
  <1>1. ns \in [Requests -> Nat] /\ OwnersInv(w) /\ QueueInv(w, ns) /\ NotifyInv(w, ns)
        /\ OnceInv(w, ns, as) /\ Nobody \notin Requests
    BY DEF Good, RequestsAssumption
  <1>2. /\ u \in [Requests -> Nat] /\ u[r] = ns[r] + 1 /\ \A x \in Requests \ {r} : u[x] = ns[x]
    BY <1>1
  <1>3. w.proc[r].pc = "done"
    BY <1>1 DEF OwnersInv
  <1> HIDE DEF u
  <1>4. QueueInv(w, u)
    BY <1>1, <1>2 DEF QueueInv
  <1>5. NotifyInv(w, u)
    BY <1>1, <1>2, <1>3 DEF NotifyInv
  <1>6. OnceInv(w, u, as)
    <2>1. MaxChecks <= 1 => u[r] = 1
      BY <1>1, <1>2
    <2>2. \A x \in Requests \ {r} : u[x] = ns[x]
      BY <1>2
    <2>3. MaxChecks <= 1 =>
            \A x \in Requests :
              u[x] > 0 => u[x] = 1 /\ w.slot.req = x /\ w.slot.status = "notifying"
      <3> SUFFICES ASSUME MaxChecks <= 1, NEW x \in Requests, u[x] > 0
                   PROVE  u[x] = 1 /\ w.slot.req = x /\ w.slot.status = "notifying"
        OBVIOUS
      <3>1. CASE x = r
        BY <3>1, <2>1
      <3>2. CASE x # r
        <4>1. ns[x] > 0
          BY <3>2, <2>2
        <4>2. w.slot.req = x
          BY <4>1, <1>1 DEF OnceInv
        <4> QED BY <3>2, <4>2
      <3> QED BY <3>1, <3>2
    <2> QED BY <1>1, <2>3 DEF OnceInv
  <1> QED BY <1>2, <1>4, <1>5, <1>6 DEF Good, u

\* A notification is answered.
LEMMA NotifyLess ==
  ASSUME NEW w, NEW ns, NEW T, NEW ds, NEW ps, NEW as, Good(w, ns, T, ds, ps, as),
         NEW r \in Requests, ns[r] > 0
  PROVE  Good(w, [ns EXCEPT ![r] = @ - 1], T, ds, ps, as)
  <1> DEFINE u == [ns EXCEPT ![r] = @ - 1]
  <1>1. ns \in [Requests -> Nat] /\ QueueInv(w, ns) /\ NotifyInv(w, ns) /\ OnceInv(w, ns, as)
    BY DEF Good
  <1>2. /\ u \in [Requests -> Nat] /\ u[r] = ns[r] - 1 /\ \A x \in Requests \ {r} : u[x] = ns[x]
    BY <1>1
  <1> HIDE DEF u
  <1>3. \A x \in Requests : (u[x] > 0 => ns[x] > 0) /\ (ns[x] = 0 => u[x] = 0)
        /\ (ns[x] = 1 /\ u[x] > 0 => u[x] = 1)
    BY <1>1, <1>2
  <1>4. QueueInv(w, u)
    BY <1>1, <1>3 DEF QueueInv
  <1>5. NotifyInv(w, u)
    BY <1>1, <1>3 DEF NotifyInv
  <1>6. OnceInv(w, u, as)
    BY <1>1, <1>3 DEF OnceInv
  <1> QED BY <1>2, <1>4, <1>5, <1>6 DEF Good, u

\* Sessions end, deadlines pass, and the store is told of ends.
LEMMA EndsGrow ==
  ASSUME NEW w, NEW ns, NEW T, NEW ds, NEW ps, NEW as, Good(w, ns, T, ds, ps, as),
         NEW es, NEW qs, ds \subseteq es, ps \subseteq qs
  PROVE  Good(w, ns, T, es, qs, as)
  <1>1. EndInv(w, es, qs)
    BY DEF Good, EndInv
  <1> QED BY <1>1 DEF Good

LEMMA ToldGrows ==
  ASSUME NEW w, NEW ns, NEW T, NEW ds, NEW ps, NEW as, Good(w, ns, T, ds, ps, as),
         NEW U, ToldInv(w, U)
  PROVE  Good(w, ns, U, ds, ps, as)
  BY DEF Good

\* A request in the middle of its handler has no block held for it, but while
\* that handler builds, publishes or cancels it.
LEMMA ActiveIsUnheld ==
  ASSUME RequestsAssumption, NEW w, NEW ns, NEW T, NEW ds, NEW ps, NEW as,
         Good(w, ns, T, ds, ps, as),
         NEW r \in Requests, NEW h, HoldInv(w, h),
         w.proc[r].pc \notin
           {"done", "prepared", "cancelPrepared", "confirm", "confirmed", "cancel"}
  PROVE  h # r
  <1>1. w.slot.req # r
    BY ActiveIsFree
  <1> QED BY <1>1 DEF HoldInv

\* A step of a request without a hold disturbs no other request's.
LEMMA HoldElsewhere ==
  ASSUME NEW w, NEW u, NEW r \in Requests, NEW h, HoldInv(w, h), h # r,
         \A x \in Requests \ {r} : u.proc[x] = w.proc[x],
         u.slot = w.slot \/ w.slot.req = r \/ w.slot.req \notin Requests
  PROVE  HoldInv(u, h)
  BY DEF HoldInv

\* The hold is cancelled.
LEMMA HoldGoes ==
  ASSUME RequestsAssumption, NEW w, NEW r \in Requests, NEW h, HoldInv(w, h)
  PROVE  LET g == IF h = r THEN Nobody ELSE h IN HoldInv(w, g) /\ g # r
  BY DEF HoldInv, RequestsAssumption

\* The slot is as it is.
LEMMA OwnSlotFits ==
  ASSUME RequestsAssumption, NEW w, NEW ns, NEW T, NEW ds, NEW ps, NEW as,
         Good(w, ns, T, ds, ps, as)
  PROVE  SlotFits(w, w.slot, ns, T, ds, ps, as)
  <1>p. /\ SlotsInv(w) /\ QueueInv(w, ns) /\ NotifyInv(w, ns) /\ ToldInv(w, T)
        /\ EndInv(w, ds, ps) /\ AnsweredInv(w, as) /\ OnceInv(w, ns, as)
        /\ w.slot.req \in Requests \cup {Nobody} /\ Nobody \notin Requests
    BY DEF Good, Shapes, Slots, Someone, RequestsAssumption
  <1>1. w.slot.req # Nobody => ~Queues(w.queue, w.slot.req)
    BY <1>p DEF QueueInv, Queues
  <1>2. w.slot.req # Nobody => ~Answered(as, w.slot.req)
    BY <1>p DEF AnsweredInv
  <1>3. w.slot.req # Nobody =>
          (ns[w.slot.req] > 0 => w.slot.status \notin {"awaiting", "publishing", "error"})
    BY <1>p DEF NotifyInv
  <1>4. MaxChecks <= 1 =>
          /\ w.slot.checks > 0 => w.slot.checks = 1 /\ w.slot.status = "unknown"
          /\ \A r \in Requests : ns[r] > 0 => w.slot.req = r /\ w.slot.status = "notifying"
    BY <1>p DEF OnceInv
  <1> QED BY <1>p, <1>1, <1>2, <1>3, <1>4 DEF SlotFits, SlotsInv, ToldInv, EndInv

\* The displayed request's dialog changes, while nothing is being published.
LEMMA ShownMoves ==
  ASSUME RequestsAssumption, NEW w, NEW ns, NEW T, NEW ds, NEW ps, NEW as,
         Good(w, ns, T, ds, ps, as),
         NEW s \in Slots, s.req = w.slot.req, s.local <=> w.slot.local,
         s.ended => w.slot.ended,
         w.slot.status \notin {"none", "publishing"},
         s.status \in {"notifying", "delivery-error", "unknown", "recovered"},
         s.local => s.status \in {"unknown", "recovered"},
         MaxChecks <= 1 =>
           /\ s.checks > 0 => s.checks = 1 /\ s.status = "unknown"
           /\ \A r \in Requests : ns[r] > 0 => s.status = "notifying"
  PROVE  Good(SetSlot(w, s), ns, T, ds, ps, as)
  <1>1. SlotFits(w, w.slot, ns, T, ds, ps, as)
    BY OwnSlotFits
  <1>2. s # NoSlot /\ w.slot # NoSlot /\ OwnersInv(w)
    BY DEF NoSlot, Good
  <1>3. s.req # Nobody => ~Answered(as, s.req) /\ ~Queues(w.queue, s.req)
    BY <1>1 DEF SlotFits
  <1>4. SlotFits(w, s, ns, T, ds, ps, as)
    BY <1>1, <1>2, <1>3 DEF SlotFits
  <1>5. s.req # Nobody => w.proc[s.req].pc = "done"
    BY <1>2 DEF OwnersInv
  <1> QED BY <1>4, <1>5, SlotMoves

LEMMA ShownKeepsHolds ==
  ASSUME RequestsAssumption, NEW w \in Shapes, NEW s \in Slots, NEW h, HoldInv(w, h),
         w.slot.status \notin {"awaiting", "publishing", "error"}
  PROVE  HoldInv(SetSlot(w, s), h)
  <1>1. SetSlot(w, s).slot = s /\ SetSlot(w, s).proc = w.proc
    BY SlotSet
  <1> QED BY <1>1 DEF HoldInv

\* The dialog is cleared.
LEMMA ClearIsGood ==
  ASSUME RequestsAssumption, NEW w, NEW ns, NEW T, NEW ds, NEW ps, NEW as,
         Good(w, ns, T, ds, ps, as), w.slot.status # "publishing",
         MaxChecks <= 1 => \A r \in Requests : ~(ns[r] > 0)
  PROVE  Good(SetSlot(w, NoSlot), ns, T, ds, ps, as)
  <1>1. NoSlot \in Slots /\ NoSlot.req = Nobody /\ NoSlot.status = "none" /\ ~NoSlot.local
        /\ ~NoSlot.ended /\ NoSlot.checks = 0
    BY Constants DEF NoSlot
  <1>2. SlotFits(w, NoSlot, ns, T, ds, ps, as)
    BY <1>1 DEF SlotFits
  <1> QED BY <1>1, <1>2, SlotMoves

\* A dialog still in the user's hands is closed, and its hold is up for
\* cancellation.
LEMMA CloseIsGood ==
  ASSUME RequestsAssumption, NEW w, NEW ns, NEW T, NEW ds, NEW ps, NEW as,
         Good(w, ns, T, ds, ps, as), w.slot.status \in {"awaiting", "error"},
         NEW then \in {"silent", "tell", "tellAnyway"}
  PROVE  /\ Good(Close(w, then), ns, T, ds, ps, as)
         /\ \A h : HoldInv(w, h) => HoldInv(Close(w, then), h)
  <1> DEFINE r == w.slot.req
             k == At("cancel", Nobody, then)
             v == SetSlot(w, NoSlot)
             u == SetProc(v, r, k)
  <1>1. NoSlot \in Slots /\ NoSlot.req = Nobody /\ NoSlot.status = "none" /\ ~NoSlot.local
        /\ ~NoSlot.ended /\ NoSlot.checks = 0 /\ Nobody \notin Requests
    BY Constants DEF NoSlot
  <1>2. k \in Processes /\ k.pc = "cancel" /\ k.then = then
    BY Constants DEF At, Pcs, Thens
  <1>3. r \in Requests
    BY DEF Good, SlotsInv, Shapes, Slots, Someone
  <1>4. SlotFits(w, w.slot, ns, T, ds, ps, as) /\ ns \in [Requests -> Nat]
    BY OwnSlotFits DEF Good
  <1>5. ns[r] = 0 /\ ~Queues(w.queue, r) /\ ~Answered(as, r)
    <2>1. ~(ns[r] > 0) /\ ~Queues(w.queue, r) /\ ~Answered(as, r)
      BY <1>1, <1>3, <1>4 DEF SlotFits
    <2>2. ns[r] = 0 \/ ns[r] > 0
      BY <1>3, <1>4
    <2> HIDE DEF r
    <2> QED BY <2>1, <2>2
  <1> HIDE DEF r, k
  <1>6. ProcFits(w, NoSlot, r, k, ns, T, as)
    BY <1>1, <1>2, <1>3, <1>5 DEF ProcFits, Free
  <1>7. SlotFits(w, NoSlot, ns, T, ds, ps, as)
    <2>1. MaxChecks <= 1 => \A x \in Requests : ~(ns[x] > 0)
      BY <1>4 DEF SlotFits
    <2> QED BY <1>1, <2>1 DEF SlotFits
  <1>8. r = w.slot.req
    BY DEF r
  <1>9. Good(SetProc(SetSlot(w, NoSlot), r, k), ns, T, ds, ps, as)
    BY <1>1, <1>2, <1>3, <1>6, <1>7, <1>8, BothMove
  <1>10. v \in Shapes /\ v.slot = NoSlot /\ v.proc = w.proc
    BY <1>1, SlotSet DEF Good
  <1>11. Close(w, then) = u
    BY DEF Close, k, r
  <1> HIDE DEF v
  <1>12. u.proc[r] = k /\ u.slot = NoSlot /\ \A x \in Requests \ {r} : u.proc[x] = w.proc[x]
    BY <1>2, <1>3, <1>10, ProcSet
  <1> HIDE DEF u
  <1>13. ASSUME NEW h, HoldInv(w, h) PROVE HoldInv(u, h)
    BY <1>1, <1>2, <1>8, <1>12, <1>13 DEF HoldInv
  <1> QED BY <1>9, <1>11, <1>13 DEF u, v

\* The publication of the displayed request is over.
LEMMA PublicationIsOver ==
  ASSUME RequestsAssumption, NEW w, NEW ns, NEW T, NEW ds, NEW ps, NEW as,
         Good(w, ns, T, ds, ps, as),
         NEW r \in Requests, w.slot.req = r, w.slot.status = "publishing",
         NEW t \in {"error", "unknown", "delivery-error", "notifying"}
  PROVE  Good(SetStatus(Finish(w, r), t), ns, T, ds, ps, as)
  <1> DEFINE s == [w.slot EXCEPT !.status = t]
             f == Finish(w, r)
             v == SetSlot(w, s)
             u == SetStatus(f, t)
             b == SetProc(v, r, Settled)
  <1>1. w \in Shapes /\ SlotsInv(w) /\ SlotFits(w, w.slot, ns, T, ds, ps, as)
        /\ Settled.pc = "done" /\ Settled.then = "stop" /\ Settled \in Processes
    BY OwnSlotFits, Constants DEF Good, Settled, At
  <1>2. /\ s \in Slots /\ s.status = t /\ s.req = r /\ s.ended = w.slot.ended
        /\ s.local = w.slot.local /\ s.checks = w.slot.checks
    <2>1. t \in Statuses /\ w \in Shapes
      BY <1>1 DEF Statuses
    <2> QED BY <2>1, StatusSet
  <1>3. f \in Shapes /\ f.slot = w.slot /\ f.preparing = w.preparing /\ f.queue = w.queue
        /\ f.proc[r] = Settled /\ \A x \in Requests \ {r} : f.proc[x] = w.proc[x]
    BY <1>1, FinishFrame
  <1>4. v \in Shapes /\ v.slot = s /\ v.preparing = w.preparing /\ v.queue = w.queue
        /\ v.proc = w.proc
    BY <1>1, <1>2, SlotSet
  <1> HIDE DEF s, f, v
  <1>5. b \in Shapes /\ b.proc[r] = Settled /\ b.slot = s /\ b.preparing = w.preparing
        /\ b.queue = w.queue /\ \A x \in Requests \ {r} : b.proc[x] = w.proc[x]
    BY <1>1, <1>4, ProcSet
  <1>6. u = SetSlot(f, s)
    <2>1. t \in Statuses
      BY DEF Statuses
    <2>2. SetStatus(f, t) = SetSlot(f, [f.slot EXCEPT !.status = t])
      BY <1>3, <2>1, StatusSet
    <2> QED BY <1>3, <2>2 DEF s
  <1>7. u \in Shapes /\ u.slot = s /\ u.preparing = f.preparing /\ u.queue = f.queue
        /\ u.proc = f.proc
    BY <1>2, <1>3, <1>6, SlotSet
  <1> HIDE DEF u, b
  <1>8. \A x \in Requests : u.proc[x] = b.proc[x]
    BY <1>3, <1>5, <1>7
  <1>9. u = b
    BY <1>3, <1>5, <1>7, <1>8, SameStore
  <1>10. w.slot.checks = 0 /\ ~w.slot.local
    BY <1>1 DEF SlotsInv, Shapes, Slots
  <1>11. SlotFits(w, s, ns, T, ds, ps, as)
    <2>1. s # NoSlot /\ s.status # "none"
      BY <1>2 DEF NoSlot
    <2>2. ~Queues(w.queue, r) /\ ~Answered(as, r) /\ ~(ns[r] > 0) /\ r # Nobody
      BY <1>1 DEF SlotFits, RequestsAssumption
    <2> QED BY <1>1, <1>2, <1>10, <2>1, <2>2 DEF SlotFits
  <1>12. ProcFits(w, s, r, Settled, ns, T, as)
    BY <1>1, <1>2 DEF ProcFits
  <1>13. Good(SetProc(SetSlot(w, s), r, Settled), ns, T, ds, ps, as)
    BY <1>1, <1>2, <1>11, <1>12, BothMove
  <1> QED BY <1>9, <1>13 DEF b, v, u, f

LEMMA StatusFrame ==
  ASSUME NEW w \in Shapes, NEW t \in Statuses
  PROVE  LET u == SetStatus(w, t)
         IN  /\ u \in Shapes /\ u.slot.status = t /\ u.slot.req = w.slot.req
             /\ u.slot.checks = w.slot.checks
             /\ u.preparing = w.preparing /\ u.queue = w.queue /\ u.proc = w.proc
  <1> DEFINE s == [w.slot EXCEPT !.status = t]
             u == SetSlot(w, s)
  <1>1. SetStatus(w, t) = u /\ s \in Slots /\ s.status = t /\ s.req = w.slot.req
        /\ s.checks = w.slot.checks
    BY StatusSet
  <1> HIDE DEF s
  <1>2. u \in Shapes /\ u.slot = s /\ u.preparing = w.preparing /\ u.queue = w.queue
        /\ u.proc = w.proc
    BY <1>1, SlotSet
  <1> QED BY <1>1, <1>2

\* An active handler goes on to pc.
LEMMA GotoIsGood ==
  ASSUME RequestsAssumption, NEW w, NEW ns, NEW T, NEW ds, NEW ps, NEW as,
         Good(w, ns, T, ds, ps, as),
         NEW r \in Requests, w.proc[r].pc # "done", w.slot.req # r,
         NEW pc \in {"lookup", "waiting", "fail", "refuse", "cancelPrepared", "tell"},
         w.proc[r].pc = "new" => ~Answered(as, r),
         pc = "cancelPrepared" => w.proc[r].then = "release",
         pc = "waiting" => r \notin T,
         pc = "lookup" => r \notin T
  PROVE  LET u == Goto(w, r, pc)
         IN  /\ Good(u, ns, T, ds, ps, as) /\ u \in Shapes
             /\ u.slot = w.slot /\ u.preparing = w.preparing /\ u.queue = w.queue
             /\ u.proc[r].pc = pc /\ u.proc[r].then = w.proc[r].then
             /\ \A x \in Requests \ {r} : u.proc[x] = w.proc[x]
  <1> DEFINE k == [w.proc[r] EXCEPT !.pc = pc]
             u == SetProc(w, r, k)
  <1>1. w.proc[r] \in Processes /\ OwnersInv(w) /\ w \in Shapes
    BY DEF Good, Shapes
  <1>2. k \in Processes /\ k.pc = pc /\ k.out = w.proc[r].out /\ k.then = w.proc[r].then
    <2>1. pc \in Pcs
      BY DEF Pcs
    <2> QED BY <1>1, <2>1, PcSet
  <1>3. Free(w, ns, r) /\ ~Answered(as, r)
    BY ActiveIsFree
  <1>4. Goto(w, r, pc) = u
    BY DEF Goto
  <1> HIDE DEF k
  <1>5. k.then = "release" => w.preparing.req = r /\ ~w.preparing.marker
    BY <1>1, <1>2 DEF OwnersInv
  <1>6. ProcFits(w, w.slot, r, k, ns, T, as)
    BY <1>2, <1>3, <1>5 DEF ProcFits
  <1>7. Good(u, ns, T, ds, ps, as)
    BY <1>2, <1>6, ProcMoves
  <1>8. /\ u \in Shapes /\ u.proc[r] = k /\ \A x \in Requests \ {r} : u.proc[x] = w.proc[x]
        /\ u.slot = w.slot /\ u.preparing = w.preparing /\ u.queue = w.queue
    BY <1>1, <1>2, ProcSet
  <1> HIDE DEF u
  <1> QED BY <1>2, <1>4, <1>7, <1>8

\* A call of an active handler has its answer.
Reply(p, pc, out, key) ==
  [pc |-> pc, out |-> out, key |-> key, ended |-> p.ended, then |-> p.then]

LEMMA ReplyIsGood ==
  ASSUME RequestsAssumption, NEW w, NEW ns, NEW T, NEW ds, NEW ps, NEW as,
         Good(w, ns, T, ds, ps, as),
         NEW r \in Requests, NEW pc, NEW out \in Outs, NEW key \in Keys,
         \/ w.proc[r].pc = "lookup" /\ pc = "looked" /\ out \in Outcomes \cup {"failed"}
         \/ /\ w.proc[r].pc = "prepare" /\ pc = "prepared"
            /\ out \in (Outcomes \ {"none", "conflict"}) \cup {"prepare", "error"}
         \/ w.proc[r].pc = "confirm" /\ pc = "confirmed"
  PROVE  LET u == SetProc(w, r, Reply(w.proc[r], pc, out, key))
         IN  /\ Good(u, ns, T, ds, ps, as) /\ u.slot = w.slot
             /\ u.proc[r].pc = pc /\ u.proc[r].out = out
             /\ \A x \in Requests \ {r} : u.proc[x] = w.proc[x]
  <1> DEFINE k == Reply(w.proc[r], pc, out, key)
             u == SetProc(w, r, k)
  <1>1. w.proc[r] \in Processes /\ OwnersInv(w) /\ ToldInv(w, T) /\ w \in Shapes
    BY DEF Good, Shapes
  <1>2. k \in Processes /\ k.pc = pc /\ k.out = out /\ k.then = w.proc[r].then
        /\ (k.ended <=> w.proc[r].ended)
    BY <1>1 DEF Reply, Processes, Pcs
  <1>3. Free(w, ns, r) /\ ~Answered(as, r)
        /\ (w.slot.req = r => w.slot.status = "publishing"
                              /\ w.proc[r].pc \in {"confirm", "confirmed", "cancel"})
    BY ActiveIsFree
  <1> HIDE DEF k
  <1>4. k.then = "release" => w.preparing.req = r /\ ~w.preparing.marker
    BY <1>1, <1>2 DEF OwnersInv
  <1>5. r \in T => (k.pc = "looked" => k.ended)
    BY <1>1, <1>2 DEF ToldInv
  <1>6. /\ k.pc = "confirmed" => w.slot.req = r /\ w.slot.status = "publishing"
        /\ k.pc = "prepared" => k.then = "release"
    BY <1>1, <1>2 DEF OwnersInv
  <1>7. ProcFits(w, w.slot, r, k, ns, T, as)
    BY <1>2, <1>3, <1>4, <1>5, <1>6 DEF ProcFits
  <1>8. Good(u, ns, T, ds, ps, as)
    BY <1>2, <1>7, ProcMoves
  <1>9. u.proc[r] = k /\ u.slot = w.slot /\ \A x \in Requests \ {r} : u.proc[x] = w.proc[x]
    BY <1>1, <1>2, ProcSet
  <1> HIDE DEF u
  <1> QED BY <1>2, <1>8, <1>9 DEF u, k

-----------------------------------------------------------------------------
(* The steps: a request arrives and is looked up.                          *)

\* The store's own steps, which leave the backend as it is.
LEMMA OwnStep ==
  ASSUME StoreInv, UNCHANGED <<hold, journal, onChain>>,
         Good(wc', notify', told', dead', passed', answers'), HoldInv(wc', hold)
  PROVE  StoreInv'
  BY DEF StoreInv

LEMMA HandleRequestKeeps ==
  ASSUME RequestsAssumption, StoreInv, NEW r \in Requests, HandleRequest(r)
  PROVE  StoreInv'
  <1>1. Good(wc, notify, told, dead, passed, answers) /\ HoldInv(wc, hold)
        /\ ToldInv(wc, told)
    BY DEF StoreInv, Good
  <1>2. wc.proc[r].pc = "new" /\ ~Answered(answers, r) /\ wc' = Goto(wc, r, "lookup")
        /\ UNCHANGED <<notify, hold, journal, onChain, answers, dead, passed, told>>
    BY DEF HandleRequest, Answered, backend, relay
  <1>3. r \notin told /\ wc.slot.req # r /\ hold # r
    BY <1>1, <1>2, ActiveIsFree, ActiveIsUnheld DEF ToldInv
  <1>4. /\ Good(wc', notify, told, dead, passed, answers)
        /\ wc'.slot = wc.slot /\ \A x \in Requests \ {r} : wc'.proc[x] = wc.proc[x]
    BY <1>1, <1>2, <1>3, GotoIsGood
  <1>5. HoldInv(wc', hold)
    BY <1>1, <1>3, <1>4, HoldElsewhere
  <1> QED BY <1>2, <1>4, <1>5, OwnStep

LEMMA LookupRunsKeeps ==
  ASSUME RequestsAssumption, StoreInv, NEW r \in Requests, LookupRuns(r)
  PROVE  StoreInv'
  <1>1. Good(wc, notify, told, dead, passed, answers) /\ HoldInv(wc, hold)
        /\ JournalFits(journal)
    BY DEF StoreInv
  <1>2. wc.proc[r].pc = "lookup"
        /\ UNCHANGED <<notify, hold, journal, onChain, answers, dead, passed, told>>
    BY DEF LookupRuns, backend, relay
  <1>3. \E out \in Outcomes \cup {"failed"}, key \in Keys : Answer(r, "looked", out, key)
    <2>1. \A o \in J!Lookup(journal, r) : o.outcome \in Outcomes /\ o.key \in Keys
      BY <1>1, LookupAnswers
    <2>2. Nobody \in Keys
      BY DEF Keys
    <2>3. \/ \E o \in J!Lookup(journal, r) : Answer(r, "looked", o.outcome, o.key)
          \/ Answer(r, "looked", "failed", Nobody)
      BY DEF LookupRuns
    <2> QED BY <2>1, <2>2, <2>3
  <1>4. PICK out \in Outcomes \cup {"failed"}, key \in Keys : Answer(r, "looked", out, key)
    BY <1>3
  <1>5. wc' = SetProc(wc, r, Reply(wc.proc[r], "looked", out, key)) /\ out \in Outs
    BY <1>4 DEF Answer, Reply, Outcomes, Outs
  <1>6. /\ Good(wc', notify, told, dead, passed, answers)
        /\ wc'.slot = wc.slot /\ \A x \in Requests \ {r} : wc'.proc[x] = wc.proc[x]
    BY <1>1, <1>2, <1>5, ReplyIsGood
  <1>7. hold # r
    BY <1>1, <1>2, ActiveIsUnheld
  <1>8. HoldInv(wc', hold)
    BY <1>1, <1>6, <1>7, HoldElsewhere
  <1> QED BY <1>2, <1>6, <1>8, OwnStep

\* The handler of r, without a hold, is over; nobody is answered.
LEMMA FinishKeeps ==
  ASSUME RequestsAssumption, StoreInv, NEW r \in Requests, hold # r,
         wc.slot.req # r, wc' = Finish(wc, r),
         UNCHANGED <<notify, hold, journal, onChain, answers, dead, passed, told>>
  PROVE  StoreInv'
  <1>1. Good(wc, notify, told, dead, passed, answers) /\ HoldInv(wc, hold)
    BY DEF StoreInv
  <1>2. Good(Finish(wc, r), notify, told, dead, passed, answers)
    BY <1>1, FinishIsGood
  <1>3. /\ Finish(wc, r).slot = wc.slot
        /\ \A x \in Requests \ {r} : Finish(wc, r).proc[x] = wc.proc[x]
    BY <1>1, FinishFrame DEF Good
  <1>4. HoldInv(Finish(wc, r), hold)
    BY <1>1, <1>3, HoldElsewhere
  <1> QED BY <1>2, <1>4, OwnStep

\* The handler of r, without a hold, goes on to pc.
LEMMA GotoKeeps ==
  ASSUME RequestsAssumption, StoreInv, NEW r \in Requests, hold # r,
         wc.proc[r].pc \notin {"new", "done"}, wc.slot.req # r,
         NEW pc \in {"lookup", "waiting", "fail", "refuse", "cancelPrepared", "tell"},
         wc' = Goto(wc, r, pc),
         pc = "cancelPrepared" => wc.proc[r].then = "release",
         pc = "waiting" => r \notin told,
         pc = "lookup" => r \notin told,
         UNCHANGED <<notify, hold, journal, onChain, answers, dead, passed, told>>
  PROVE  StoreInv'
  <1>1. Good(wc, notify, told, dead, passed, answers) /\ HoldInv(wc, hold)
    BY DEF StoreInv
  <1>2. /\ Good(wc', notify, told, dead, passed, answers)
        /\ wc'.slot = wc.slot /\ \A x \in Requests \ {r} : wc'.proc[x] = wc.proc[x]
    BY <1>1, GotoIsGood
  <1>3. HoldInv(wc', hold)
    BY <1>1, <1>2, HoldElsewhere
  <1> QED BY <1>2, <1>3, OwnStep

LEMMA RetryFailedLookupKeeps ==
  ASSUME RequestsAssumption, StoreInv, NEW r \in Requests, RetryFailedLookup(r)
  PROVE  StoreInv'
  <1>1. Good(wc, notify, told, dead, passed, answers) /\ HoldInv(wc, hold)
        /\ ToldInv(wc, told)
    BY DEF StoreInv, Good
  <1>2. wc.proc[r].pc = "waiting"
        /\ UNCHANGED <<notify, hold, journal, onChain, answers, dead, passed, told>>
        /\ wc' \in {Finish(wc, r), Goto(wc, r, "lookup")}
    BY DEF RetryFailedLookup, backend, relay
  <1>3. r \notin told /\ wc.slot.req # r /\ hold # r
    BY <1>1, <1>2, ActiveIsFree, ActiveIsUnheld DEF ToldInv
  <1>4. CASE wc' = Finish(wc, r)
    BY <1>2, <1>3, <1>4, FinishKeeps
  <1>5. CASE wc' = Goto(wc, r, "lookup")
    BY <1>2, <1>3, <1>5, GotoKeeps
  <1> QED BY <1>2, <1>4, <1>5

\* A handler that is over may have answered its request.
LEMMA FinishAnswered ==
  ASSUME RequestsAssumption, NEW w, NEW ns, NEW T, NEW ds, NEW ps, NEW as,
         Good(w, ns, T, ds, ps, as),
         NEW r \in Requests, w.proc[r].pc \notin {"new", "done"}, w.slot.req # r,
         NEW what \in {"result", "error"},
         NEW bs \in {as, [as EXCEPT ![r] = Append(@, what)]}
  PROVE  Good(Finish(w, r), ns, T, ds, ps, bs)
  <1> DEFINE f == Finish(w, r)
  <1>1. Good(f, ns, T, ds, ps, as)
    BY FinishIsGood
  <1>2. f.slot = w.slot /\ f.queue = w.queue /\ f.proc[r].pc = "done"
    BY FinishFrame DEF Good
  <1>3. ~Queues(w.queue, r) /\ ~Answered(as, r)
    BY ActiveIsFree DEF Free
  <1> HIDE DEF f
  <1>4. Good(f, ns, T, ds, ps, [as EXCEPT ![r] = Append(@, what)])
    BY <1>1, <1>2, <1>3, AnswerIsGood
  <1> QED BY <1>1, <1>4 DEF f

\* The answer the relay may have taken.
LEMMA AnswerTaken ==
  ASSUME NEW r \in Requests, NEW what, Answers(r, what) \/ UNCHANGED answers
  PROVE  answers' \in {answers, [answers EXCEPT ![r] = Append(@, what)]}
  BY DEF Answers

LEMMA FailAnsweredKeeps ==
  ASSUME RequestsAssumption, StoreInv, NEW r \in Requests, FailAnswered(r)
  PROVE  StoreInv'
  <1>1. Good(wc, notify, told, dead, passed, answers) /\ HoldInv(wc, hold) /\ wc \in Shapes
    BY DEF StoreInv, Good
  <1>2. /\ wc.proc[r].pc = "fail" /\ wc' = Leave(wc, r)
        /\ Answers(r, "error") \/ UNCHANGED answers
        /\ UNCHANGED <<notify, hold, journal, onChain, dead, passed, told>>
    BY DEF FailAnswered, backend
  <1>3. wc.slot.req # r /\ hold # r
    BY <1>1, <1>2, ActiveIsFree, ActiveIsUnheld
  <1>4. answers' \in {answers, [answers EXCEPT ![r] = Append(@, "error")]}
    BY <1>2, AnswerTaken
  <1>5. Good(Finish(wc, r), notify, told, dead, passed, answers')
    BY <1>1, <1>2, <1>3, <1>4, FinishAnswered
  <1>6. /\ Finish(wc, r).slot = wc.slot
        /\ \A x \in Requests \ {r} : Finish(wc, r).proc[x] = wc.proc[x]
    BY <1>1, FinishFrame
  <1>7. HoldInv(Finish(wc, r), hold)
    BY <1>1, <1>3, <1>6, HoldElsewhere
  <1>8. Good(wc', notify, told, dead, passed, answers') /\ HoldInv(wc', hold)
    BY <1>1, <1>2, <1>5, <1>7, LeaveIsGood
  <1> QED BY <1>2, <1>8, OwnStep

\* An entry of a retained record is queued, or shown.
LEMMA RecordShown ==
  ASSUME RequestsAssumption, NEW w, NEW ns, NEW T, NEW ds, NEW ps, NEW as,
         Good(w, ns, T, ds, ps, as), NEW e \in Waiting, e.local, e.req = Nobody, e.out = "unknown"
  PROVE  LET u == IF Busy(w) THEN Enqueue(w, e) ELSE Show(w, e, "unknown", FALSE)
         IN  /\ Good(u, ns, T, ds, ps, as) /\ u \in Shapes
             /\ u.preparing = w.preparing /\ u.proc = w.proc
             /\ u.slot = w.slot \/ w.slot.req \notin Requests
  <1>1. EntryFits(w, e, ns, as)
    BY DEF EntryFits
  <1>2. CASE Busy(w)
    <2>1. Good(Enqueue(w, e), ns, T, ds, ps, as)
      BY <1>1, EnqueueIsGood
    <2>2. LET u == Enqueue(w, e)
          IN  u \in Shapes /\ u.slot = w.slot /\ u.preparing = w.preparing /\ u.proc = w.proc
      BY EnqueueFrame DEF Good
    <2> QED BY <1>2, <2>1, <2>2
  <1>3. CASE ~Busy(w)
    <2>1. Good(Show(w, e, "unknown", FALSE), ns, T, ds, ps, as)
      BY <1>1, <1>3, ShowIsGood, WaitingEntries
    <2>2. LET u == Show(w, e, "unknown", FALSE)
          IN  u \in Shapes /\ u.preparing = w.preparing /\ u.proc = w.proc
      BY ShowFrame, WaitingEntries DEF Good, Statuses
    <2>3. w.slot.req \notin Requests
      BY <1>3 DEF Busy, NoSlot, RequestsAssumption
    <2> QED BY <1>3, <2>1, <2>2, <2>3
  <1> QED BY <1>2, <1>3

LEMMA RefusedKeeps ==
  ASSUME RequestsAssumption, StoreInv, NEW r \in Requests, Refused(r)
  PROVE  StoreInv'
  <1> DEFINE e == [req |-> Nobody, key |-> wc.proc[r].key, out |-> "unknown", local |-> TRUE]
             w == IF Busy(wc) THEN Enqueue(wc, e) ELSE Show(wc, e, "unknown", FALSE)
  <1>1. Good(wc, notify, told, dead, passed, answers) /\ HoldInv(wc, hold) /\ wc \in Shapes
    BY DEF StoreInv, Good
  <1>2. /\ wc.proc[r].pc = "refuse"
        /\ UNCHANGED <<notify, hold, journal, onChain, dead, passed, told>>
    BY DEF Refused, backend
  <1>3. wc.slot.req # r /\ hold # r
    BY <1>1, <1>2, ActiveIsFree, ActiveIsUnheld
  <1>4. \/ Answers(r, "error") /\ wc' = Leave(w, r)
        \/ UNCHANGED answers /\ wc' \in {Goto(wc, r, "fail"), Leave(wc, r)}
    BY DEF Refused
  <1>5. e \in Waiting /\ e.local /\ e.req = Nobody /\ e.out = "unknown"
    <2>1. wc.proc[r].key \in Keys
      BY <1>1 DEF Shapes, Processes
    <2> QED BY <2>1 DEF Waiting, Someone
  <1> HIDE DEF e
  <1>6. /\ Good(w, notify, told, dead, passed, answers) /\ w \in Shapes
        /\ w.proc = wc.proc /\ (w.slot = wc.slot \/ wc.slot.req \notin Requests)
    BY <1>1, <1>5, RecordShown
  <1> HIDE DEF w
  \* An active handler, in the slots or not, is over.
  <1>7. ASSUME NEW v \in Shapes, Good(v, notify, told, dead, passed, answers),
               v.proc = wc.proc, v.slot = wc.slot \/ wc.slot.req \notin Requests,
               wc' = Leave(v, r), Answers(r, "error") \/ UNCHANGED answers
        PROVE  StoreInv'
    <2>1. v.slot.req # r
      BY <1>2, <1>7, ActiveIsFree
    <2>2. answers' \in {answers, [answers EXCEPT ![r] = Append(@, "error")]}
      BY <1>7, AnswerTaken
    <2>3. Good(Finish(v, r), notify, told, dead, passed, answers')
      BY <1>2, <1>7, <2>1, <2>2, FinishAnswered
    <2>4. /\ Finish(v, r).slot = v.slot
          /\ \A x \in Requests \ {r} : Finish(v, r).proc[x] = v.proc[x]
      BY FinishFrame
    <2>5. HoldInv(Finish(v, r), hold)
      BY <1>1, <1>3, <1>7, <2>4, HoldElsewhere
    <2>6. Good(wc', notify, told, dead, passed, answers') /\ HoldInv(wc', hold)
      BY <1>7, <2>3, <2>5, LeaveIsGood
    <2> QED BY <1>2, <2>6, OwnStep
  <1>8. CASE Answers(r, "error") /\ wc' = Leave(w, r)
    BY <1>6, <1>7, <1>8
  <1>9. CASE UNCHANGED answers /\ wc' = Leave(wc, r)
    BY <1>1, <1>7, <1>9
  <1>10. CASE UNCHANGED answers /\ wc' = Goto(wc, r, "fail")
    BY <1>2, <1>3, <1>10, GotoKeeps
  <1> QED BY <1>4, <1>8, <1>9, <1>10

LEMMA LookupAnsweredKeeps ==
  ASSUME RequestsAssumption, StoreInv, NEW r \in Requests, LookupAnswered(r)
  PROVE  StoreInv'
  <1> DEFINE p == wc.proc[r]
             f == Finish(wc, r)
             e == [req |-> r, key |-> p.key, out |-> p.out, local |-> FALSE]
  <1>1. Good(wc, notify, told, dead, passed, answers) /\ HoldInv(wc, hold) /\ wc \in Shapes
        /\ OwnersInv(wc) /\ ToldInv(wc, told) /\ SlotsInv(wc)
    BY DEF StoreInv, Good
  <1>2. /\ p.pc = "looked" /\ wc' \in AfterLookup(r, p)
        /\ UNCHANGED <<notify, hold, journal, onChain, answers, dead, passed, told>>
    BY DEF LookupAnswered, backend, relay
  <1>3. wc.slot.req # r /\ hold # r /\ Free(wc, notify, r) /\ ~Answered(answers, r)
    BY <1>1, <1>2, ActiveIsFree, ActiveIsUnheld
  <1>4. p.out \in Outcomes \cup {"failed"} /\ p.key \in Keys /\ (r \in told => p.ended)
    <2>1. p \in Processes
      BY <1>1 DEF Shapes
    <2> QED BY <1>1, <1>2, <2>1 DEF OwnersInv, Processes, ToldInv
  <1>5. CASE wc' = f
    BY <1>2, <1>3, <1>5, FinishKeeps
  <1>6. CASE ~p.ended /\ wc' = Goto(wc, r, "waiting")
    BY <1>2, <1>3, <1>4, <1>6, GotoKeeps
  <1>7. CASE wc' \in {Goto(wc, r, "fail"), Goto(wc, r, "refuse")}
    <2>1. CASE wc' = Goto(wc, r, "fail")
      BY <1>2, <1>3, <2>1, GotoKeeps
    <2>2. CASE wc' = Goto(wc, r, "refuse")
      BY <1>2, <1>3, <2>2, GotoKeeps
    <2> QED BY <1>7, <2>1, <2>2
  <1>8. CASE wc' = BeginDelivery(wc, r, p.key, "stop")
    <2> DEFINE u == BeginDelivery(wc, r, p.key, "stop")
    <2>1. Good(u, notify, told, dead, passed, answers)
      BY <1>1, <1>3, <1>4, DeliveryIsGood
    <2>2. u.slot = wc.slot /\ \A x \in Requests \ {r} : u.proc[x] = wc.proc[x]
      BY <1>1, <1>4, DeliveryFrame DEF Thens
    <2> HIDE DEF u
    <2>3. HoldInv(u, hold)
      BY <1>1, <1>3, <2>2, HoldElsewhere
    <2> QED BY <1>2, <1>8, <2>1, <2>3, OwnStep DEF u
  <1>9. CASE p.out = "unknown" /\ wc' = (IF Busy(wc) THEN Enqueue(f, e)
                                         ELSE Show(f, e, "unknown", FALSE))
    <2>1. Good(f, notify, told, dead, passed, answers)
      BY <1>1, <1>3, FinishIsGood
    <2>2. /\ f \in Shapes /\ f.slot = wc.slot /\ f.preparing = wc.preparing
          /\ f.queue = wc.queue /\ f.proc[r].pc = "done"
          /\ \A x \in Requests \ {r} : f.proc[x] = wc.proc[x]
      BY <1>1, FinishFrame
    <2>3. e \in Waiting /\ ~e.local /\ e.req = r
      BY <1>4, <1>9 DEF Waiting, Someone
    <2> HIDE DEF f, e
    <2>4. EntryFits(f, e, notify, answers)
      BY <1>3, <2>2, <2>3 DEF EntryFits, Free
    <2>5. HoldInv(f, hold)
      BY <1>1, <1>3, <2>2, HoldElsewhere
    <2>6. CASE Busy(wc)
      <3>1. Good(Enqueue(f, e), notify, told, dead, passed, answers)
        BY <2>1, <2>3, <2>4, EnqueueIsGood
      <3>2. Enqueue(f, e).slot = f.slot /\ Enqueue(f, e).proc = f.proc
        BY <2>2, <2>3, EnqueueFrame
      <3>3. HoldInv(Enqueue(f, e), hold)
        BY <2>5, <3>2 DEF HoldInv
      <3> QED BY <1>2, <1>9, <2>6, <3>1, <3>3, OwnStep
    <2>7. CASE ~Busy(wc)
      <3>1. ~Busy(f) /\ f.slot.req \notin Requests
        BY <2>2, <2>7 DEF Busy, NoSlot, RequestsAssumption
      <3>2. Good(Show(f, e, "unknown", FALSE), notify, told, dead, passed, answers)
        BY <2>1, <2>3, <2>4, <3>1, ShowIsGood, WaitingEntries
      <3>3. Show(f, e, "unknown", FALSE).proc = f.proc
        BY <2>2, <2>3, ShowFrame, WaitingEntries DEF Statuses
      <3>4. HoldInv(Show(f, e, "unknown", FALSE), hold)
        BY <2>5, <3>1, <3>3 DEF HoldInv
      <3> QED BY <1>2, <1>9, <2>7, <3>2, <3>4, OwnStep
    <2> QED BY <2>6, <2>7
  <1>10. CASE /\ ~Busy(wc) /\ ~p.ended
              /\ wc' = SetProc(SetPreparing(wc, Preparation(r, FALSE)), r,
                               At("prepare", Nobody, "release"))
    <2> DEFINE q == Preparation(r, FALSE)
               k == At("prepare", Nobody, "release")
               v == SetPreparing(wc, q)
               u == SetProc(v, r, k)
    <2>1. /\ q \in Preparations /\ q.req = r /\ ~q.marker /\ ~q.ended
          /\ k \in Processes /\ k.pc = "prepare" /\ k.then = "release"
      BY Constants DEF Preparation, At, Pcs, Thens
    <2>2. wc.slot = NoSlot /\ wc.preparing = NoPreparation /\ NoPreparation.req = Nobody
          /\ Nobody \notin Requests /\ NoSlot.req = Nobody
      BY <1>10 DEF Busy, NoPreparation, Preparation, NoSlot, RequestsAssumption
    <2>3. \A x \in Requests : wc.proc[x].then # "release"
      BY <1>1, <2>2 DEF OwnersInv
    <2>4. r \notin told
      BY <1>4, <1>10
    <2> HIDE DEF q, k
    <2>5. Good(v, notify, told, dead, passed, answers)
      BY <1>1, <2>1, <2>2, <2>3, <2>4, PreparingMoves
    <2>6. v \in Shapes /\ v.preparing = q /\ v.slot = wc.slot /\ v.queue = wc.queue
          /\ v.proc = wc.proc
      BY <1>1, <2>1, PreparingSet
    <2> HIDE DEF v
    <2>7. ProcFits(v, v.slot, r, k, notify, told, answers)
      BY <1>3, <2>1, <2>4, <2>6 DEF ProcFits, Free
    <2>8. Good(u, notify, told, dead, passed, answers)
      BY <2>1, <2>5, <2>7, ProcMoves
    <2>9. u.slot = wc.slot /\ \A x \in Requests \ {r} : u.proc[x] = wc.proc[x]
      BY <2>1, <2>6, ProcSet
    <2>10. wc' = u
      BY <1>10 DEF u, v, q, k
    <2> HIDE DEF u
    <2>11. HoldInv(u, hold)
      BY <1>1, <1>3, <2>9, HoldElsewhere
    <2> QED BY <1>2, <2>8, <2>10, <2>11, OwnStep
  <1>11. \/ wc' \in {f, Goto(wc, r, "fail"), Goto(wc, r, "refuse"),
                     BeginDelivery(wc, r, p.key, "stop")}
         \/ ~p.ended /\ wc' = Goto(wc, r, "waiting")
         \/ p.out = "unknown" /\ wc' = (IF Busy(wc) THEN Enqueue(f, e)
                                        ELSE Show(f, e, "unknown", FALSE))
         \/ /\ ~Busy(wc) /\ ~p.ended
            /\ wc' = SetProc(SetPreparing(wc, Preparation(r, FALSE)), r,
                             At("prepare", Nobody, "release"))
    <2>1. CASE p.ended
      BY <1>2, <2>1 DEF AfterLookup
    <2>2. CASE ~p.ended
      <3>1. wc' \in Resolve(r, p)
        BY <1>2, <2>2 DEF AfterLookup
      <3> HIDE DEF f
      <3>2. CASE p.out = "failed"
        BY <2>2, <3>1, <3>2 DEF Resolve, f
      <3>3. CASE p.out = "conflict"
        BY <3>1, <3>3 DEF Resolve
      <3>4. CASE p.out = "duplicate"
        BY <3>1, <3>4 DEF Resolve
      <3>5. CASE p.out = "published"
        BY <3>1, <3>5 DEF Resolve
      <3>6. CASE p.out = "unknown"
        BY <3>1, <3>6 DEF Resolve, f
      <3>7. CASE p.out = "none"
        BY <2>2, <3>1, <3>7 DEF Resolve
      <3> QED BY <1>4, <3>2, <3>3, <3>4, <3>5, <3>6, <3>7 DEF Outcomes
    <2> QED BY <2>1, <2>2
  <1> QED BY <1>5, <1>6, <1>7, <1>8, <1>9, <1>10, <1>11

-----------------------------------------------------------------------------
(* The steps: a block is prepared.                                         *)

LEMMA PrepareRunsKeeps ==
  ASSUME RequestsAssumption, StoreInv, NEW r \in Requests, PrepareRuns(r)
  PROVE  StoreInv'
  <1>1. Good(wc, notify, told, dead, passed, answers) /\ HoldInv(wc, hold)
        /\ JournalFits(journal) /\ hold \in Someone /\ onChain \subseteq Requests
    BY DEF StoreInv
  <1>2. /\ wc.proc[r].pc = "prepare"
        /\ UNCHANGED <<notify, journal, onChain, dead, passed, told, answers>>
    BY DEF PrepareRuns, relay
  <1>3. hold # r
    BY <1>1, <1>2, ActiveIsUnheld
  <1>4. Nobody \in Keys /\ Key(r) \in Keys
    BY Constants
  <1>5. \E out \in (Outcomes \ {"none", "conflict"}) \cup {"prepare", "error"}, key \in Keys :
          /\ Answer(r, "prepared", out, key)
          /\ hold' = hold \/ (hold = Nobody /\ hold' = r /\ out = "prepare")
    <2>1. \A o \in J!Lookup(journal, r) : o.outcome \in Outcomes /\ o.key \in Keys
      BY <1>1, LookupAnswers
    <2>2. \/ Answer(r, "prepared", "prepare", Key(r)) /\ hold = Nobody /\ hold' = r
          \/ /\ \E o \in J!Lookup(journal, r) :
                  o.outcome \notin {"none", "conflict"}
                  /\ Answer(r, "prepared", o.outcome, o.key)
             /\ hold' = hold
          \/ Answer(r, "prepared", "error", Nobody) /\ hold' = hold
      BY DEF PrepareRuns
    <2>3. CASE Answer(r, "prepared", "prepare", Key(r)) /\ hold = Nobody /\ hold' = r
      BY <1>4, <2>3
    <2>4. CASE Answer(r, "prepared", "error", Nobody) /\ hold' = hold
      BY <1>4, <2>4
    <2>5. CASE /\ \E o \in J!Lookup(journal, r) :
                    o.outcome \notin {"none", "conflict"}
                    /\ Answer(r, "prepared", o.outcome, o.key)
               /\ hold' = hold
      <3>1. PICK o \in J!Lookup(journal, r) :
              o.outcome \notin {"none", "conflict"} /\ Answer(r, "prepared", o.outcome, o.key)
        BY <2>5
      <3>2. o.outcome \in Outcomes \ {"none", "conflict"} /\ o.key \in Keys
        BY <2>1, <3>1
      <3> QED BY <2>5, <3>1, <3>2
    <2> QED BY <2>2, <2>3, <2>4, <2>5
  <1>6. PICK out \in (Outcomes \ {"none", "conflict"}) \cup {"prepare", "error"}, key \in Keys :
          /\ Answer(r, "prepared", out, key)
          /\ hold' = hold \/ (hold = Nobody /\ hold' = r /\ out = "prepare")
    BY <1>5
  <1>7. wc' = SetProc(wc, r, Reply(wc.proc[r], "prepared", out, key)) /\ out \in Outs
    BY <1>6 DEF Answer, Reply, Outcomes, Outs
  <1>8. /\ Good(wc', notify, told, dead, passed, answers)
        /\ wc'.slot = wc.slot /\ \A x \in Requests \ {r} : wc'.proc[x] = wc.proc[x]
        /\ wc'.proc[r].pc = "prepared" /\ wc'.proc[r].out = out
    BY <1>1, <1>2, <1>7, ReplyIsGood
  <1>9. HoldInv(wc', hold') /\ hold' \in Someone
    <2>1. CASE hold' = hold
      BY <1>1, <1>3, <1>8, <2>1, HoldElsewhere
    <2>2. CASE hold' = r /\ out = "prepare"
      BY <1>8, <2>2 DEF HoldInv, Someone
    <2> QED BY <1>6, <2>1, <2>2
  <1> QED BY <1>1, <1>2, <1>8, <1>9 DEF StoreInv

\* A prepared request is shown, and its preparation is over.
LEMMA ShownLeavesIs ==
  ASSUME RequestsAssumption, NEW w \in Shapes, NEW r \in Requests,
         w.proc[r].then = "release", w.preparing.req = r,
         NEW e \in Entries, NEW t \in Statuses, t # "none"
  PROVE  Leave(Show(w, e, t, FALSE), r) =
           Show(SetPreparing(Finish(w, r), NoPreparation), e, t, FALSE)
  <1> DEFINE s == [req |-> e.req, key |-> e.key, status |-> t, ended |-> FALSE,
                   local |-> e.local, checks |-> 0]
             f == Finish(w, r)
             g == SetPreparing(f, NoPreparation)
             x == Show(g, e, t, FALSE)
             y == Show(w, e, t, FALSE)
             z == Finish(y, r)
             v == SetPreparing(z, NoPreparation)
  <1>3. NoPreparation \in Preparations
    BY Constants
  <1>4. /\ f \in Shapes /\ f.slot = w.slot /\ f.preparing = w.preparing /\ f.queue = w.queue
        /\ f.proc[r] = Settled /\ f.proc[r].pc = "done"
        /\ \A q \in Requests \ {r} : f.proc[q] = w.proc[q]
    BY FinishFrame
  <1> HIDE DEF f
  <1>8. g \in Shapes /\ g.slot = w.slot /\ g.preparing = NoPreparation /\ g.queue = w.queue
        /\ g.proc = f.proc
    BY <1>3, <1>4, PreparingSet
  <1> HIDE DEF g
  <1>11. x \in Shapes /\ x.slot = s /\ x.preparing = NoPreparation /\ x.queue = w.queue
         /\ x.proc = f.proc
    BY <1>3, <1>8, ShowFrame
  <1>12. y \in Shapes /\ y.slot = s /\ y.preparing = w.preparing /\ y.queue = w.queue
         /\ y.proc = w.proc
    BY ShowFrame
  <1> HIDE DEF x, y
  <1>13. /\ z \in Shapes /\ z.slot = s /\ z.preparing = w.preparing /\ z.queue = w.queue
         /\ z.proc[r] = Settled /\ \A q \in Requests \ {r} : z.proc[q] = w.proc[q]
    BY <1>12, FinishFrame
  <1>14. Leave(y, r) = Drain(v)
    BY <1>12, <1>13 DEF Leave, Release
  <1> HIDE DEF z
  <1>15. v \in Shapes /\ v.slot = s /\ v.preparing = NoPreparation /\ v.queue = w.queue
         /\ v.proc = z.proc
    BY <1>3, <1>13, PreparingSet
  <1> HIDE DEF v
  <1>16. \A q \in Requests : v.proc[q] = x.proc[q]
    BY <1>4, <1>11, <1>13, <1>15
  <1>17. v = x
    BY <1>11, <1>15, <1>16, SameStore
  <1>18. s # NoSlot
    BY DEF NoSlot
  <1> HIDE DEF s
  <1>19. Drain(x) = x
    BY <1>11, <1>18 DEF Drain, Busy
  <1> QED BY <1>14, <1>17, <1>19 DEF x, y, g, f

LEMMA ShownLeaves ==
  ASSUME RequestsAssumption, NEW w, NEW ns, NEW T, NEW ds, NEW ps, NEW as,
         Good(w, ns, T, ds, ps, as),
         NEW r \in Requests, w.proc[r].pc = "prepared",
         NEW e \in Entries, e.req = r, ~e.local,
         NEW t \in {"unknown", "awaiting"}, t = "awaiting" => r \notin T
  PROVE  Good(Leave(Show(w, e, t, FALSE), r), ns, T, ds, ps, as)
  <1> DEFINE f == Finish(w, r)
             g == SetPreparing(f, NoPreparation)
  <1>1. w \in Shapes /\ w.proc[r].then = "release" /\ w.preparing.req = r
        /\ w.slot = NoSlot /\ Nobody \notin Requests /\ OwnersInv(w)
    BY DEF Good, OwnersInv, SlotsInv, NoPreparation, Preparation, RequestsAssumption
  <1>2. w.slot.req # r /\ Free(w, ns, r) /\ ~Answered(as, r)
    BY ActiveIsFree
  <1>3. NoPreparation \in Preparations /\ NoPreparation.req = Nobody /\ ~NoPreparation.ended
    BY Constants DEF NoPreparation, Preparation
  <1>4. /\ f \in Shapes /\ f.slot = w.slot /\ f.preparing = w.preparing /\ f.queue = w.queue
        /\ f.proc[r].pc = "done" /\ f.proc[r].then = "stop"
        /\ \A q \in Requests \ {r} : f.proc[q] = w.proc[q]
    BY <1>1, FinishFrame
  <1>5. Good(f, ns, T, ds, ps, as)
    BY <1>2, FinishIsGood
  <1>10. Leave(Show(w, e, t, FALSE), r) = Show(g, e, t, FALSE)
    BY <1>1, ShownLeavesIs DEF Statuses
  <1> HIDE DEF f
  <1>6. \A q \in Requests : f.proc[q].then # "release"
    BY <1>1, <1>4 DEF OwnersInv
  <1>7. Good(g, ns, T, ds, ps, as)
    BY <1>1, <1>3, <1>5, <1>6, PreparingMoves
  <1>8. g \in Shapes /\ g.slot = w.slot /\ g.preparing = NoPreparation /\ g.queue = w.queue
        /\ g.proc = f.proc
    BY <1>3, <1>4, PreparingSet
  <1> HIDE DEF g
  <1>9. ~Busy(g) /\ EntryFits(g, e, ns, as)
    BY <1>1, <1>2, <1>4, <1>8 DEF Busy, EntryFits, Free
  <1>11. Good(Show(g, e, t, FALSE), ns, T, ds, ps, as)
    BY <1>7, <1>9, ShowIsGood
  <1> QED BY <1>10, <1>11

\* The handler of r, without a hold, ends as Leave ends it.
LEMMA LeaveKeeps ==
  ASSUME RequestsAssumption, StoreInv, NEW r \in Requests, HoldInv(wc, hold'), hold' # r,
         hold' \in Someone,
         wc.slot.req # r, wc' = Leave(wc, r),
         UNCHANGED <<notify, journal, onChain, answers, dead, passed, told>>
  PROVE  StoreInv'
  <1>1. Good(wc, notify, told, dead, passed, answers) /\ wc \in Shapes
        /\ JournalFits(journal) /\ onChain \subseteq Requests
    BY DEF StoreInv, Good
  <1>2. Good(Finish(wc, r), notify, told, dead, passed, answers)
    BY <1>1, FinishIsGood
  <1>3. /\ Finish(wc, r).slot = wc.slot
        /\ \A x \in Requests \ {r} : Finish(wc, r).proc[x] = wc.proc[x]
    BY <1>1, FinishFrame
  <1>4. HoldInv(Finish(wc, r), hold')
    BY <1>3, HoldElsewhere
  <1>5. Good(wc', notify, told, dead, passed, answers) /\ HoldInv(wc', hold')
    BY <1>1, <1>2, <1>4, LeaveIsGood
  <1> QED BY <1>1, <1>5 DEF StoreInv

LEMMA PrepareAnsweredKeeps ==
  ASSUME RequestsAssumption, StoreInv, NEW r \in Requests, PrepareAnswered(r)
  PROVE  StoreInv'
  <1> DEFINE p == wc.proc[r]
             e == [req |-> r, key |-> p.key, out |-> p.out, local |-> FALSE]
             cut == wc.preparing.ended \/ wc.preparing.cancelled
  <1>1. Good(wc, notify, told, dead, passed, answers) /\ HoldInv(wc, hold) /\ wc \in Shapes
        /\ OwnersInv(wc) /\ ToldInv(wc, told) /\ hold \in Someone
    BY DEF StoreInv, Good
  <1>2. /\ p.pc = "prepared" /\ wc' = AfterPrepare(r, p)
        /\ UNCHANGED <<notify, hold, journal, onChain, answers, dead, passed, told>>
    BY DEF PrepareAnswered, backend, relay
  <1>3. wc.slot.req # r /\ Free(wc, notify, r) /\ ~Answered(answers, r)
    BY <1>1, <1>2, ActiveIsFree
  <1>4. /\ p.out \in (Outcomes \ {"none", "conflict"}) \cup {"prepare", "error"}
        /\ p.key \in Keys /\ p.out \in Outs
        /\ p.then = "release" /\ wc.preparing.req = r /\ ~wc.preparing.marker
    <2>1. p \in Processes
      BY <1>1 DEF Shapes
    <2> QED BY <1>1, <1>2, <2>1 DEF OwnersInv, Processes
  <1>5. p.out # "prepare" => hold # r
    BY <1>1, <1>2, <1>3 DEF HoldInv
  <1>6. e \in Entries /\ e.req = r /\ ~e.local
    BY <1>4 DEF Entries, Someone
  <1>7. CASE p.out # "prepare" /\ wc' \in {Goto(wc, r, "refuse"), Goto(wc, r, "fail")}
    <2>1. CASE wc' = Goto(wc, r, "fail")
      BY <1>2, <1>3, <1>5, <1>7, <2>1, GotoKeeps
    <2>2. CASE wc' = Goto(wc, r, "refuse")
      BY <1>2, <1>3, <1>5, <1>7, <2>2, GotoKeeps
    <2> QED BY <1>7, <2>1, <2>2
  <1>8. CASE p.out # "prepare" /\ wc' = Leave(wc, r)
    BY <1>1, <1>2, <1>3, <1>5, <1>8, LeaveKeeps
  <1>9. CASE p.out # "prepare" /\ wc' = BeginDelivery(wc, r, p.key, "release")
    <2> DEFINE u == BeginDelivery(wc, r, p.key, "release")
    <2>1. Good(u, notify, told, dead, passed, answers)
      BY <1>1, <1>3, <1>4, DeliveryIsGood
    <2>2. u.slot = wc.slot /\ \A x \in Requests \ {r} : u.proc[x] = wc.proc[x]
      BY <1>1, <1>4, DeliveryFrame DEF Thens
    <2> HIDE DEF u
    <2>3. HoldInv(u, hold)
      BY <1>1, <1>5, <1>9, <2>2, HoldElsewhere
    <2> QED BY <1>2, <1>9, <2>1, <2>3, OwnStep DEF u
  <1>14. ASSUME NEW t \in Statuses, t # "none"
         PROVE  LET u == Leave(Show(wc, e, t, FALSE), r)
                IN  /\ u.slot.req = r /\ u.slot.status = t /\ u.proc[r].pc = "done"
                    /\ \A x \in Requests \ {r} : u.proc[x] = wc.proc[x]
    <2> DEFINE f == Finish(wc, r)
               g == SetPreparing(f, NoPreparation)
    <2> HIDE DEF e
    <2>1. NoPreparation \in Preparations
      BY Constants
    <2>2. f \in Shapes /\ f.proc[r].pc = "done" /\ \A x \in Requests \ {r} : f.proc[x] = wc.proc[x]
      BY <1>1, FinishFrame
    <2>3. Leave(Show(wc, e, t, FALSE), r) = Show(g, e, t, FALSE)
      BY <1>1, <1>4, <1>6, <1>14, ShownLeavesIs
    <2> HIDE DEF f
    <2>4. g \in Shapes /\ g.proc = f.proc
      BY <2>1, <2>2, PreparingSet
    <2> HIDE DEF g
    <2> DEFINE s == [req |-> e.req, key |-> e.key, status |-> t, ended |-> FALSE,
                     local |-> e.local, checks |-> 0]
    <2>5. Show(g, e, t, FALSE).slot = s /\ Show(g, e, t, FALSE).proc = g.proc
      BY <1>6, <2>4, ShowFrame
    <2>7. s.req = e.req /\ s.status = t
      OBVIOUS
    <2> HIDE DEF s
    <2>6. Show(g, e, t, FALSE).slot.req = r /\ Show(g, e, t, FALSE).slot.status = t
      BY <1>6, <2>5, <2>7
    <2> QED BY <2>2, <2>3, <2>4, <2>5, <2>6
  <1>15. wc.slot.req \notin Requests
    <2>1. SlotsInv(wc)
      BY <1>1 DEF Good
    <2> QED BY <1>4, <2>1 DEF SlotsInv, NoSlot, NoPreparation, Preparation, RequestsAssumption
  <1>10. CASE p.out = "unknown" /\ wc' = Leave(Show(wc, e, "unknown", FALSE), r)
    <2> HIDE DEF e
    <2> DEFINE u == Leave(Show(wc, e, "unknown", FALSE), r)
    <2>0. Good(u, notify, told, dead, passed, answers)
      BY <1>1, <1>2, <1>6, ShownLeaves
    <2>1. \A x \in Requests \ {r} : u.proc[x] = wc.proc[x]
      BY <1>14 DEF Statuses
    <2> HIDE DEF u
    <2>2. HoldInv(u, hold)
      BY <1>1, <1>5, <1>10, <1>15, <2>1, HoldElsewhere
    <2> QED BY <1>2, <1>10, <2>0, <2>2, OwnStep DEF u
  <1>11. CASE ~cut /\ wc' = Leave(Show(wc, e, "awaiting", FALSE), r)
    <2> HIDE DEF e
    <2> DEFINE u == Leave(Show(wc, e, "awaiting", FALSE), r)
    <2>0. r \notin told
      BY <1>1, <1>4, <1>11 DEF ToldInv
    <2>3. Good(u, notify, told, dead, passed, answers)
      BY <1>1, <1>2, <1>6, <2>0, ShownLeaves
    <2>1. /\ u.slot.req = r /\ u.slot.status = "awaiting" /\ u.proc[r].pc = "done"
          /\ \A x \in Requests \ {r} : u.proc[x] = wc.proc[x]
      BY <1>14 DEF Statuses
    <2> HIDE DEF u
    <2>2. HoldInv(u, hold)
      BY <1>1, <1>15, <2>1 DEF HoldInv
    <2> QED BY <1>2, <1>11, <2>2, <2>3, OwnStep DEF u
  <1>12. CASE wc' = Goto(wc, r, "cancelPrepared")
    <2>1. /\ Good(wc', notify, told, dead, passed, answers)
          /\ wc'.slot = wc.slot /\ wc'.proc[r].pc = "cancelPrepared"
          /\ \A x \in Requests \ {r} : wc'.proc[x] = wc.proc[x]
      BY <1>1, <1>2, <1>3, <1>4, <1>12, GotoIsGood
    <2>2. HoldInv(wc', hold)
      BY <1>1, <2>1 DEF HoldInv
    <2> QED BY <1>2, <2>1, <2>2, OwnStep
  <1>13. \/ p.out # "prepare" /\ wc' \in {Goto(wc, r, "refuse"), Goto(wc, r, "fail"),
                                          Leave(wc, r), BeginDelivery(wc, r, p.key, "release")}
         \/ p.out = "unknown" /\ wc' = Leave(Show(wc, e, "unknown", FALSE), r)
         \/ ~cut /\ wc' = Leave(Show(wc, e, "awaiting", FALSE), r)
         \/ wc' = Goto(wc, r, "cancelPrepared")
    <2>1. CASE p.out = "duplicate"
      BY <1>2, <2>1 DEF AfterPrepare
    <2>2. CASE p.out = "published"
      BY <1>2, <2>2 DEF AfterPrepare
    <2>3. CASE p.out = "unknown"
      <3>1. wc' = Leave(IF cut THEN wc ELSE Show(wc, e, "unknown", FALSE), r)
        BY <1>2, <2>3 DEF AfterPrepare
      <3> HIDE DEF cut, e
      <3> QED BY <2>3, <3>1
    <2>4. CASE p.out = "prepare"
      BY <1>2, <2>4 DEF AfterPrepare, Cut
    <2>5. CASE p.out = "error"
      BY <1>2, <2>5 DEF AfterPrepare
    <2> QED BY <1>4, <2>1, <2>2, <2>3, <2>4, <2>5 DEF Outcomes
  <1> QED BY <1>7, <1>8, <1>9, <1>10, <1>11, <1>12, <1>13

LEMMA CancelPreparedKeeps ==
  ASSUME RequestsAssumption, StoreInv, NEW r \in Requests, CancelPrepared(r)
  PROVE  StoreInv'
  <1>1. Good(wc, notify, told, dead, passed, answers) /\ HoldInv(wc, hold) /\ wc \in Shapes
        /\ OwnersInv(wc) /\ hold \in Someone /\ JournalFits(journal) /\ onChain \subseteq Requests
    BY DEF StoreInv, Good
  <1>2. /\ wc.proc[r].pc = "cancelPrepared" /\ hold' = IF hold = r THEN Nobody ELSE hold
        /\ wc' \in {Leave(wc, r), Goto(wc, r, "fail")}
        /\ UNCHANGED <<notify, journal, onChain, answers, dead, passed, told>>
    BY DEF CancelPrepared, CancelHold, relay
  <1>3. HoldInv(wc, hold') /\ hold' # r /\ hold' \in Someone
    BY <1>1, <1>2, HoldGoes DEF Someone
  <1>4. wc.slot.req # r
    BY <1>1, <1>2, ActiveIsFree
  <1>5. CASE wc' = Leave(wc, r)
    BY <1>2, <1>3, <1>4, <1>5, LeaveKeeps
  <1>6. CASE wc' = Goto(wc, r, "fail")
    <2>1. /\ Good(wc', notify, told, dead, passed, answers) /\ wc'.slot = wc.slot
          /\ \A x \in Requests \ {r} : wc'.proc[x] = wc.proc[x]
      BY <1>1, <1>2, <1>4, <1>6, GotoIsGood
    <2>2. HoldInv(wc', hold')
      BY <1>3, <2>1, HoldElsewhere
    <2> QED BY <1>1, <1>2, <1>3, <2>1, <2>2 DEF StoreInv
  <1> QED BY <1>2, <1>5, <1>6

-----------------------------------------------------------------------------
(* The steps: the result of an earlier run is delivered again.             *)

\* The preparation slot a delivery may have claimed is freed.
Unmarked(w, r) ==
  IF w.preparing.marker /\ w.preparing.req = r THEN SetPreparing(w, NoPreparation) ELSE w

LEMMA UnmarkedIsGood ==
  ASSUME RequestsAssumption, NEW w, NEW ns, NEW T, NEW ds, NEW ps, NEW as,
         Good(w, ns, T, ds, ps, as), NEW r \in Requests
  PROVE  Good(Unmarked(w, r), ns, T, ds, ps, as)
  <1>1. CASE ~(w.preparing.marker /\ w.preparing.req = r)
    BY <1>1 DEF Unmarked
  <1>2. CASE w.preparing.marker /\ w.preparing.req = r
    <2>1. NoPreparation \in Preparations /\ NoPreparation.req = Nobody /\ ~NoPreparation.ended
          /\ Nobody \notin Requests
      BY Constants DEF NoPreparation, Preparation
    <2>2. \A x \in Requests : w.proc[x].then # "release"
      BY <1>2 DEF Good, OwnersInv
    <2>3. Good(SetPreparing(w, NoPreparation), ns, T, ds, ps, as)
      BY <2>1, <2>2, PreparingMoves
    <2> QED BY <1>2, <2>3 DEF Unmarked
  <1> QED BY <1>1, <1>2

LEMMA UnmarkedFrame ==
  ASSUME RequestsAssumption, NEW w \in Shapes, NEW r \in Requests
  PROVE  LET u == Unmarked(w, r)
         IN  u \in Shapes /\ u.slot = w.slot /\ u.queue = w.queue /\ u.proc = w.proc
  <1>1. NoPreparation \in Preparations
    BY Constants
  <1>2. LET u == SetPreparing(w, NoPreparation)
        IN  u \in Shapes /\ u.slot = w.slot /\ u.queue = w.queue /\ u.proc = w.proc
    BY <1>1, PreparingSet
  <1> QED BY <1>2 DEF Unmarked

LEMMA ReplayDeliveredKeeps ==
  ASSUME RequestsAssumption, StoreInv, NEW r \in Requests, ReplayDelivered(r)
  PROVE  StoreInv'
  <1> DEFINE w == Unmarked(wc, r)
             f == Finish(w, r)
  <1>1. Good(wc, notify, told, dead, passed, answers) /\ HoldInv(wc, hold) /\ wc \in Shapes
        /\ JournalFits(journal) /\ hold \in Someone /\ onChain \subseteq Requests
    BY DEF StoreInv, Good
  <1>2. /\ wc.proc[r].pc = "deliver" /\ Answers(r, "result")
        /\ wc' = AfterDelivery(w, r, wc.proc[r].then)
        /\ journal' = J!DeletePublished(journal, wc.proc[r].key) \/ UNCHANGED journal
        /\ UNCHANGED <<notify, hold, onChain, dead, passed, told>>
    BY DEF ReplayDelivered, Unmarked
  <1>3. wc.slot.req # r /\ hold # r
    BY <1>1, <1>2, ActiveIsFree, ActiveIsUnheld
  <1>4. answers' \in {answers, [answers EXCEPT ![r] = Append(@, "result")]}
    BY <1>2, AnswerTaken
  <1>5. w \in Shapes /\ w.slot = wc.slot /\ w.proc = wc.proc
    BY <1>1, UnmarkedFrame
  <1>6. Good(w, notify, told, dead, passed, answers)
    BY <1>1, UnmarkedIsGood
  <1> HIDE DEF w
  <1>7. Good(f, notify, told, dead, passed, answers')
    BY <1>2, <1>3, <1>4, <1>5, <1>6, FinishAnswered
  <1>8. f.slot = w.slot /\ \A x \in Requests \ {r} : f.proc[x] = w.proc[x]
    BY <1>5, FinishFrame
  <1>9. HoldInv(f, hold)
    <2> HIDE DEF f
    <2>1. HoldInv(w, hold)
      BY <1>1, <1>5 DEF HoldInv
    <2> QED BY <1>3, <1>8, <2>1, HoldElsewhere
  <1>10. Good(wc', notify, told, dead, passed, answers') /\ HoldInv(wc', hold)
    BY <1>2, <1>5, <1>7, <1>9, AfterDeliveryIsGood
  <1>11. JournalFits(journal')
    BY <1>1, <1>2, DeleteFits
  <1> QED BY <1>1, <1>2, <1>10, <1>11 DEF StoreInv

\* A handler ends alike before and after an entry is shown or queued.
LEMMA FinishShow ==
  ASSUME RequestsAssumption, NEW w \in Shapes, NEW r \in Requests, NEW e \in Entries,
         NEW t \in Statuses, NEW ended \in BOOLEAN
  PROVE  Finish(Show(w, e, t, ended), r) = Show(Finish(w, r), e, t, ended)
  <1> DEFINE s == [req |-> e.req, key |-> e.key, status |-> t, ended |-> ended,
                   local |-> e.local, checks |-> 0]
             f == Finish(w, r)
             y == Show(w, e, t, ended)
             u == Finish(y, r)
             v == Show(f, e, t, ended)
  <1>1. /\ f \in Shapes /\ f.slot = w.slot /\ f.preparing = w.preparing /\ f.queue = w.queue
        /\ f.proc[r] = Settled /\ \A x \in Requests \ {r} : f.proc[x] = w.proc[x]
    BY FinishFrame
  <1> HIDE DEF f
  <1>2. y \in Shapes /\ y.slot = s /\ y.preparing = w.preparing /\ y.queue = w.queue
        /\ y.proc = w.proc
    BY ShowFrame
  <1>3. v \in Shapes /\ v.slot = s /\ v.preparing = f.preparing /\ v.queue = f.queue
        /\ v.proc = f.proc
    BY <1>1, ShowFrame
  <1> HIDE DEF y, v, s
  <1>4. /\ u \in Shapes /\ u.slot = y.slot /\ u.preparing = y.preparing /\ u.queue = y.queue
        /\ u.proc[r] = Settled /\ \A x \in Requests \ {r} : u.proc[x] = y.proc[x]
    BY <1>2, FinishFrame
  <1> HIDE DEF u
  <1>5. u = v
    <2>1. \A x \in Requests : u.proc[x] = v.proc[x]
      BY <1>1, <1>2, <1>3, <1>4
    <2> QED BY <1>1, <1>2, <1>3, <1>4, <2>1, SameStore
  <1> QED BY <1>5 DEF u, v, y, f

LEMMA FinishEnqueue ==
  ASSUME RequestsAssumption, NEW w \in Shapes, NEW r \in Requests, NEW e \in Waiting
  PROVE  Finish(Enqueue(w, e), r) = Enqueue(Finish(w, r), e)
  <1> DEFINE f == Finish(w, r)
             y == Enqueue(w, e)
             u == Finish(y, r)
             v == Enqueue(f, e)
  <1>1. /\ f \in Shapes /\ f.slot = w.slot /\ f.preparing = w.preparing /\ f.queue = w.queue
        /\ f.proc[r] = Settled /\ \A x \in Requests \ {r} : f.proc[x] = w.proc[x]
    BY FinishFrame
  <1> HIDE DEF f
  <1>2. y \in Shapes /\ y.slot = w.slot /\ y.preparing = w.preparing /\ y.proc = w.proc
    BY EnqueueFrame
  <1>3. v \in Shapes /\ v.slot = f.slot /\ v.preparing = f.preparing /\ v.proc = f.proc
    BY <1>1, EnqueueFrame
  <1>6. v.queue = y.queue
    BY <1>1, EnqueueFrame
  <1> HIDE DEF y, v
  <1>4. /\ u \in Shapes /\ u.slot = y.slot /\ u.preparing = y.preparing /\ u.queue = y.queue
        /\ u.proc[r] = Settled /\ \A x \in Requests \ {r} : u.proc[x] = y.proc[x]
    BY <1>2, FinishFrame
  <1> HIDE DEF u
  <1>5. u = v
    <2>1. \A x \in Requests : u.proc[x] = v.proc[x]
      BY <1>1, <1>2, <1>3, <1>4
    <2> QED BY <1>1, <1>2, <1>3, <1>4, <1>6, <2>1, SameStore
  <1> QED BY <1>5 DEF u, v, y, f

LEMMA ReplayFailsKeeps ==
  ASSUME RequestsAssumption, StoreInv, NEW r \in Requests, ReplayFails(r)
  PROVE  StoreInv'
  <1> DEFINE p == wc.proc[r]
             w == Unmarked(wc, r)
             ended == wc.preparing.marker /\ wc.preparing.req = r /\ wc.preparing.ended
             e == [req |-> r, key |-> p.key, out |-> "published", local |-> FALSE]
             kept == IF Busy(w) THEN Enqueue(w, e) ELSE Show(w, e, "delivery-error", ended)
             f == Finish(w, r)
  <1>1. Good(wc, notify, told, dead, passed, answers) /\ HoldInv(wc, hold) /\ wc \in Shapes
        /\ EndInv(wc, dead, passed)
    BY DEF StoreInv, Good
  <1>2. /\ p.pc = "deliver" /\ wc' = AfterDelivery(kept, r, p.then)
        /\ UNCHANGED <<notify, hold, journal, onChain, answers, dead, passed, told>>
    BY DEF ReplayFails, Unmarked, backend, relay
  <1>3. wc.slot.req # r /\ hold # r /\ Free(wc, notify, r) /\ ~Answered(answers, r)
    BY <1>1, <1>2, ActiveIsFree, ActiveIsUnheld
  <1>4. e \in Waiting /\ e.req = r /\ ~e.local /\ e \in Entries
    <2>1. p.key \in Keys
      BY <1>1 DEF Shapes, Processes
    <2> QED BY <2>1 DEF Waiting, Entries, Someone, Outs
  <1>5. ended \in BOOLEAN /\ (ended => r.topic \in dead \/ r \in passed)
    BY <1>1 DEF EndInv
  <1>6. w \in Shapes /\ w.slot = wc.slot /\ w.queue = wc.queue /\ w.proc = wc.proc
    BY <1>1, UnmarkedFrame
  <1>7. Good(w, notify, told, dead, passed, answers)
    BY <1>1, UnmarkedIsGood
  <1> HIDE DEF w, e, ended
  <1>8. /\ f \in Shapes /\ f.slot = w.slot /\ f.preparing = w.preparing /\ f.queue = w.queue
        /\ f.proc[r].pc = "done" /\ \A x \in Requests \ {r} : f.proc[x] = w.proc[x]
    BY <1>6, FinishFrame
  <1>9. Good(f, notify, told, dead, passed, answers)
    BY <1>3, <1>6, <1>7, FinishIsGood
  <1>10. EntryFits(f, e, notify, answers)
    <2> HIDE DEF f
    <2> QED BY <1>3, <1>4, <1>6, <1>8 DEF EntryFits, Free
  <1>11. HoldInv(f, hold)
    <2> HIDE DEF f
    <2> QED BY <1>1, <1>3, <1>6, <1>8, HoldElsewhere
  <1>12. /\ Good(Finish(kept, r), notify, told, dead, passed, answers)
         /\ HoldInv(Finish(kept, r), hold) /\ kept \in Shapes
    <2>1. CASE Busy(w)
      <3>1. kept = Enqueue(w, e) /\ kept \in Shapes
        BY <1>4, <1>6, <2>1, EnqueueFrame
      <3>2. Finish(kept, r) = Enqueue(f, e)
        BY <1>4, <1>6, <3>1, FinishEnqueue
      <3> HIDE DEF f, kept
      <3>3. Good(Enqueue(f, e), notify, told, dead, passed, answers)
        BY <1>4, <1>9, <1>10, EnqueueIsGood
      <3>4. Enqueue(f, e).slot = f.slot /\ Enqueue(f, e).proc = f.proc
        BY <1>4, <1>8, EnqueueFrame
      <3>5. HoldInv(Enqueue(f, e), hold)
        BY <1>11, <3>4 DEF HoldInv
      <3> QED BY <3>1, <3>2, <3>3, <3>5
    <2>2. CASE ~Busy(w)
      <3>0. "delivery-error" \in Statuses
        BY DEF Statuses
      <3>1. kept = Show(w, e, "delivery-error", ended) /\ kept \in Shapes
        BY <1>4, <1>5, <1>6, <2>2, <3>0, ShowFrame
      <3>2. Finish(kept, r) = Show(f, e, "delivery-error", ended)
        BY <1>4, <1>5, <1>6, <3>0, <3>1, FinishShow
      <3> HIDE DEF f, kept
      <3>6. ~Busy(f) /\ f.slot.req \notin Requests
        BY <1>8, <2>2 DEF Busy, NoSlot, RequestsAssumption
      <3>3. Good(Show(f, e, "delivery-error", ended), notify, told, dead, passed, answers)
        BY <1>4, <1>5, <1>9, <1>10, <3>6, ShowIsGood
      <3>4. Show(f, e, "delivery-error", ended).proc = f.proc
        BY <1>4, <1>5, <1>8, <3>0, ShowFrame
      <3>5. HoldInv(Show(f, e, "delivery-error", ended), hold)
        BY <1>11, <3>4, <3>6 DEF HoldInv
      <3> QED BY <3>1, <3>2, <3>3, <3>5
    <2> QED BY <2>1, <2>2
  <1> HIDE DEF kept
  <1>13. Good(wc', notify, told, dead, passed, answers) /\ HoldInv(wc', hold)
    BY <1>2, <1>12, AfterDeliveryIsGood
  <1> QED BY <1>2, <1>13, OwnStep

-----------------------------------------------------------------------------
(* The steps: the dialog is approved, and its request published.           *)

LEMMA ApproveRequestKeeps ==
  ASSUME RequestsAssumption, StoreInv, ApproveRequest
  PROVE  StoreInv'
  <1> DEFINE r == wc.slot.req
             k == At("confirm", Nobody, "stop")
             s == [wc.slot EXCEPT !.status = "publishing"]
             v == SetSlot(wc, s)
             u == SetProc(v, r, k)
  <1>1. Good(wc, notify, told, dead, passed, answers) /\ HoldInv(wc, hold) /\ wc \in Shapes
        /\ SlotsInv(wc) /\ notify \in [Requests -> Nat]
    BY DEF StoreInv, Good
  <1>2. /\ wc.slot.status = "awaiting"
        /\ wc' \in {Close(wc, "silent"), SetProc(SetStatus(wc, "publishing"), r, k)}
        /\ UNCHANGED <<notify, hold, journal, onChain, answers, dead, passed, told>>
    BY DEF ApproveRequest, backend, relay
  <1>3. r \in Requests
    BY <1>1, <1>2 DEF SlotsInv, Shapes, Slots, Someone
  <1>4. CASE wc' = Close(wc, "silent")
    <2>1. Good(Close(wc, "silent"), notify, told, dead, passed, answers)
          /\ HoldInv(Close(wc, "silent"), hold)
      BY <1>1, <1>2, CloseIsGood
    <2> QED BY <1>2, <1>4, <2>1, OwnStep
  <1>5. CASE wc' = SetProc(SetStatus(wc, "publishing"), r, k)
    <2>1. k \in Processes /\ k.pc = "confirm" /\ k.then = "stop"
      BY Constants DEF At, Pcs, Thens
    <2>2. "publishing" \in Statuses
      BY DEF Statuses
    <2>3. /\ SetStatus(wc, "publishing") = v /\ s \in Slots /\ s.status = "publishing"
          /\ s.req = r /\ (s.ended <=> wc.slot.ended) /\ (s.local <=> wc.slot.local)
          /\ s.checks = wc.slot.checks
      BY <1>1, <2>2, StatusSet
    <2>4. SlotFits(wc, wc.slot, notify, told, dead, passed, answers)
      BY <1>1, OwnSlotFits
    <2>5. notify[r] = 0 /\ ~Queues(wc.queue, r) /\ ~Answered(answers, r) /\ r # Nobody
      <3>1. ~(notify[r] > 0) /\ ~Queues(wc.queue, r) /\ ~Answered(answers, r) /\ r # Nobody
        BY <1>2, <1>3, <2>4 DEF SlotFits, RequestsAssumption
      <3>2. notify[r] = 0 \/ notify[r] > 0
        BY <1>1, <1>3
      <3> HIDE DEF r
      <3> QED BY <3>1, <3>2
    <2>6. wc.slot.checks = 0 /\ ~wc.slot.local
      BY <1>1, <1>2 DEF SlotsInv, Shapes, Slots
    <2> HIDE DEF k, s
    <2>7. SlotFits(wc, s, notify, told, dead, passed, answers)
      <3>1. s # NoSlot
        BY <2>3 DEF NoSlot
      <3>2. s.status \notin {"none", "awaiting"} /\ ~s.local /\ s.checks = 0
        BY <2>3, <2>6
      <3>3. MaxChecks <= 1 => \A x \in Requests : ~(notify[x] > 0)
        BY <1>2, <2>4 DEF SlotFits
      <3>4. s.ended => r \in Requests /\ (r.topic \in dead \/ r \in passed)
        BY <2>3, <2>4 DEF SlotFits
      <3>5. wc.slot # NoSlot
        BY <1>2 DEF NoSlot
      <3>6. wc.preparing = NoPreparation
        BY <1>1, <3>5 DEF SlotsInv
      <3> HIDE DEF r
      <3>7. s.req # Nobody => /\ ~Queues(wc.queue, s.req) /\ ~(notify[s.req] > 0)
                              /\ ~Answered(answers, s.req)
        BY <2>3, <2>5
      <3> QED BY <2>3, <2>5, <3>1, <3>2, <3>3, <3>4, <3>6, <3>7 DEF SlotFits
    <2>8. ProcFits(wc, s, r, k, notify, told, answers)
      BY <2>1, <2>3, <2>5 DEF ProcFits, Free
    <2>9. Good(SetProc(SetSlot(wc, s), r, k), notify, told, dead, passed, answers)
      BY <1>1, <1>3, <2>1, <2>3, <2>7, <2>8, BothMove
    <2>10. v \in Shapes /\ v.slot = s /\ v.proc = wc.proc
      BY <1>1, <2>3, SlotSet
    <2> HIDE DEF v
    <2>11. u.proc[r] = k /\ u.slot = s /\ \A x \in Requests \ {r} : u.proc[x] = wc.proc[x]
      BY <1>3, <2>1, <2>10, ProcSet
    <2> HIDE DEF u
    <2>12. HoldInv(u, hold)
      BY <1>1, <2>1, <2>11 DEF HoldInv
    <2> QED BY <1>2, <1>5, <2>3, <2>9, <2>12, OwnStep DEF u, v
  <1> QED BY <1>2, <1>4, <1>5

LEMMA ConfirmRunsKeeps ==
  ASSUME RequestsAssumption, StoreInv, NEW r \in Requests, ConfirmRuns(r)
  PROVE  StoreInv'
  <1>1. Good(wc, notify, told, dead, passed, answers) /\ HoldInv(wc, hold)
        /\ JournalFits(journal) /\ hold \in Someone /\ onChain \subseteq Requests
    BY DEF StoreInv
  <1>2. /\ wc.proc[r].pc = "confirm"
        /\ UNCHANGED <<notify, answers, dead, passed, told>>
    BY DEF ConfirmRuns, relay
  <1>3. Nobody \in Keys /\ Key(r) \in Keys /\ Nobody \notin Requests
    BY Constants
  <1>4. \E out \in {"error", "unknown", "published"}, key \in Keys :
          /\ Answer(r, "confirmed", out, key)
          /\ (hold' = hold /\ out = "error") \/ hold' = Nobody
    BY <1>3 DEF ConfirmRuns
  <1>5. PICK out \in {"error", "unknown", "published"}, key \in Keys :
          /\ Answer(r, "confirmed", out, key)
          /\ (hold' = hold /\ out = "error") \/ hold' = Nobody
    BY <1>4
  <1>6. wc' = SetProc(wc, r, Reply(wc.proc[r], "confirmed", out, key)) /\ out \in Outs
    BY <1>5 DEF Answer, Reply, Outs
  <1>7. /\ Good(wc', notify, told, dead, passed, answers)
        /\ wc'.slot = wc.slot /\ \A x \in Requests \ {r} : wc'.proc[x] = wc.proc[x]
        /\ wc'.proc[r].pc = "confirmed" /\ wc'.proc[r].out = out
    BY <1>1, <1>2, <1>6, ReplyIsGood
  <1>8. HoldInv(wc', hold') /\ hold' \in Someone
    <2>1. CASE hold' = hold /\ out = "error"
      BY <1>1, <1>7, <2>1 DEF HoldInv
    <2>2. CASE hold' = Nobody
      BY <1>3, <2>2 DEF HoldInv, Someone
    <2> QED BY <1>5, <2>1, <2>2
  <1>9. JournalFits(journal') /\ onChain' \subseteq Requests
    <2>1. journal' \in {journal, J!Put(journal, Key(r), RecordOf(r, "signed")),
                        J!Put(journal, Key(r), RecordOf(r, "published"))}
          /\ onChain' \in {onChain, onChain \cup {r}}
      BY DEF ConfirmRuns
    <2>2. "signed" \in J!States /\ "published" \in J!States
      BY DEF J!States
    <2> QED BY <1>1, <2>1, <2>2, PutFits
  <1> QED BY <1>2, <1>7, <1>8, <1>9 DEF StoreInv

\* While no dialog is in the user's hands, the handlers tell what is held.
LEMMA UnshownHolds ==
  ASSUME NEW w, NEW u, NEW h, HoldInv(w, h),
         w.slot.status \notin {"awaiting", "publishing", "error"},
         \A x \in Requests : u.proc[x] = w.proc[x]
  PROVE  HoldInv(u, h)
  BY DEF HoldInv

\* The status of a dialog changes whose request is not being published.
LEMMA StatusIsGood ==
  ASSUME RequestsAssumption, NEW w, NEW ns, NEW T, NEW ds, NEW ps, NEW as,
         Good(w, ns, T, ds, ps, as), w.slot.status \notin {"none", "publishing"},
         NEW t \in Statuses, t \in {"notifying", "delivery-error", "unknown", "recovered"},
         w.slot.local => t \in {"unknown", "recovered"},
         MaxChecks <= 1 =>
           /\ w.slot.checks > 0 => t = "unknown"
           /\ \A r \in Requests : ns[r] > 0 => t = "notifying"
  PROVE  Good(SetStatus(w, t), ns, T, ds, ps, as)
  <1> DEFINE s == [w.slot EXCEPT !.status = t]
  <1>1. w \in Shapes /\ OnceInv(w, ns, as)
    BY DEF Good
  <1>2. /\ SetStatus(w, t) = SetSlot(w, s) /\ s \in Slots /\ s.status = t
        /\ s.req = w.slot.req /\ (s.ended <=> w.slot.ended) /\ (s.local <=> w.slot.local)
        /\ s.checks = w.slot.checks
    BY <1>1, StatusSet
  <1> HIDE DEF s
  <1>3. MaxChecks <= 1 =>
          /\ s.checks > 0 => s.checks = 1 /\ s.status = "unknown"
          /\ \A r \in Requests : ns[r] > 0 => s.status = "notifying"
    BY <1>1, <1>2 DEF OnceInv
  <1>4. Good(SetSlot(w, s), ns, T, ds, ps, as)
    BY <1>2, <1>3, ShownMoves
  <1> QED BY <1>2, <1>4

\* deliverPublishedResult of the displayed request.
LEMMA DeliverIsGood ==
  ASSUME RequestsAssumption, NEW w \in Shapes, w.slot.req \in Requests, DeliverPublished(w),
         MaxChecks <= 1 => notify[w.slot.req] = 0,
         Good(SetStatus(w, "delivery-error"), notify, told, dead, passed, answers),
         Good(SetStatus(w, "notifying"), notify, told, dead, passed, answers)
  PROVE  Good(wc', notify', told, dead, passed, answers)
  <1>1. CASE w.slot.ended
    BY <1>1 DEF DeliverPublished
  <1>2. CASE ~w.slot.ended
    <2> DEFINE u == SetStatus(w, "notifying")
    <2>1. wc' = u /\ notify' = [notify EXCEPT ![w.slot.req] = @ + 1]
      BY <1>2 DEF DeliverPublished
    <2>2. u.slot.req = w.slot.req /\ u.slot.status = "notifying"
      BY StatusFrame DEF Statuses
    <2> HIDE DEF u
    <2>3. Good(u, notify, told, dead, passed, answers)
      BY DEF u
    <2>4. Good(u, [notify EXCEPT ![w.slot.req] = @ + 1], told, dead, passed, answers)
      BY <2>2, <2>3, NotifyMore
    <2> QED BY <2>1, <2>4
  <1> QED BY <1>1, <1>2

LEMMA DeliverFrame ==
  ASSUME NEW w \in Shapes, DeliverPublished(w)
  PROVE  wc'.proc = w.proc
  BY StatusFrame DEF DeliverPublished, Statuses

LEMMA ConfirmAnsweredKeeps ==
  ASSUME RequestsAssumption, StoreInv, NEW r \in Requests, ConfirmAnswered(r)
  PROVE  StoreInv'
  <1> DEFINE w == Finish(wc, r)
  <1>1. Good(wc, notify, told, dead, passed, answers) /\ HoldInv(wc, hold) /\ wc \in Shapes
        /\ OwnersInv(wc) /\ OnceInv(wc, notify, answers) /\ notify \in [Requests -> Nat]
    BY DEF StoreInv, Good
  <1>2. /\ wc.proc[r].pc = "confirmed"
        /\ UNCHANGED <<hold, journal, onChain, answers, dead, passed, told>>
        /\ \/ wc.proc[r].out = "published" /\ DeliverPublished(w)
           \/ wc.proc[r].out = "unknown" /\ wc' = SetStatus(w, "unknown") /\ UNCHANGED notify
           \/ /\ wc.proc[r].out = "error" /\ UNCHANGED notify
              /\ wc' \in {SetProc(w, r, At("cancel", Nobody, "silent")), SetStatus(w, "error")}
    BY DEF ConfirmAnswered, backend, relay
  <1>3. wc.slot.req = r /\ wc.slot.status = "publishing"
    BY <1>1, <1>2 DEF OwnersInv
  <1>4. /\ w \in Shapes /\ w.slot = wc.slot /\ w.preparing = wc.preparing /\ w.queue = wc.queue
        /\ w.proc[r].pc = "done" /\ \A x \in Requests \ {r} : w.proc[x] = wc.proc[x]
    BY <1>1, FinishFrame
  <1>5. /\ Good(SetStatus(w, "unknown"), notify, told, dead, passed, answers)
        /\ Good(SetStatus(w, "error"), notify, told, dead, passed, answers)
        /\ Good(SetStatus(w, "delivery-error"), notify, told, dead, passed, answers)
        /\ Good(SetStatus(w, "notifying"), notify, told, dead, passed, answers)
    BY <1>1, <1>3, PublicationIsOver
  <1>6. MaxChecks <= 1 => notify[r] = 0
    BY <1>1, <1>3 DEF OnceInv
  <1> HIDE DEF w
  <1>7. wc.proc[r].out # "error" => hold # r
    BY <1>1, <1>2 DEF HoldInv
  <1>8. CASE wc.proc[r].out = "published" /\ DeliverPublished(w)
    <2>1. Good(wc', notify', told, dead, passed, answers)
      BY <1>3, <1>4, <1>5, <1>6, <1>8, DeliverIsGood
    <2>2. wc'.proc = w.proc
      BY <1>4, <1>8, DeliverFrame
    <2>3. HoldInv(wc', hold)
      BY <1>1, <1>3, <1>4, <1>7, <1>8, <2>2, HoldElsewhere
    <2> QED BY <1>2, <2>1, <2>3, OwnStep
  <1>9. CASE wc.proc[r].out = "unknown" /\ wc' = SetStatus(w, "unknown") /\ UNCHANGED notify
    <2>1. wc'.proc = w.proc
      BY <1>4, <1>9, StatusFrame DEF Statuses
    <2>2. HoldInv(wc', hold)
      BY <1>1, <1>3, <1>4, <1>7, <1>9, <2>1, HoldElsewhere
    <2> QED BY <1>2, <1>5, <1>9, <2>2, OwnStep
  <1>10. CASE wc' = SetStatus(w, "error") /\ UNCHANGED notify
    <2>1. wc'.proc = w.proc /\ wc'.slot.req = r /\ wc'.slot.status = "error"
      BY <1>3, <1>4, <1>10, StatusFrame DEF Statuses
    <2>2. HoldInv(wc', hold)
      BY <1>1, <1>3, <1>4, <2>1 DEF HoldInv
    <2> QED BY <1>2, <1>5, <1>10, <2>2, OwnStep
  <1>11. CASE wc' = SetProc(w, r, At("cancel", Nobody, "silent")) /\ UNCHANGED notify
    <2> DEFINE k == At("cancel", Nobody, "silent")
               u == SetProc(wc, r, k)
               v == SetProc(w, r, k)
    <2>1. k \in Processes /\ k.pc = "cancel" /\ k.then = "silent"
      BY Constants DEF At, Pcs, Thens
    <2> HIDE DEF k
    <2>2. ProcFits(wc, wc.slot, r, k, notify, told, answers)
      <3>1. Free(wc, notify, r) /\ ~Answered(answers, r)
        BY <1>1, <1>2, ActiveIsFree
      <3> QED BY <1>3, <2>1, <3>1 DEF ProcFits
    <2>3. Good(u, notify, told, dead, passed, answers)
      BY <1>1, <2>1, <2>2, ProcMoves
    <2>4. /\ u \in Shapes /\ u.proc[r] = k /\ \A x \in Requests \ {r} : u.proc[x] = wc.proc[x]
          /\ u.slot = wc.slot /\ u.preparing = wc.preparing /\ u.queue = wc.queue
      BY <1>1, <2>1, ProcSet
    <2>5. /\ v \in Shapes /\ v.proc[r] = k /\ \A x \in Requests \ {r} : v.proc[x] = w.proc[x]
          /\ v.slot = w.slot /\ v.preparing = w.preparing /\ v.queue = w.queue
      BY <1>4, <2>1, ProcSet
    <2> HIDE DEF u, v
    <2>6. u = v
      <3>1. \A x \in Requests : u.proc[x] = v.proc[x]
        BY <1>4, <2>4, <2>5
      <3> QED BY <1>4, <2>4, <2>5, <3>1, SameStore
    <2>7. HoldInv(u, hold)
      BY <1>1, <2>1, <2>4 DEF HoldInv
    <2>8. wc' = v
      BY <1>11 DEF v, k
    <2> QED BY <1>2, <1>11, <2>3, <2>6, <2>7, <2>8, OwnStep
  <1> QED BY <1>2, <1>8, <1>9, <1>10, <1>11

LEMMA RetryPublishedResponseKeeps ==
  ASSUME RequestsAssumption, StoreInv, RetryPublishedResponse
  PROVE  StoreInv'
  <1>1. Good(wc, notify, told, dead, passed, answers) /\ HoldInv(wc, hold) /\ wc \in Shapes
        /\ SlotsInv(wc) /\ OnceInv(wc, notify, answers) /\ notify \in [Requests -> Nat]
    BY DEF StoreInv, Good
  <1>2. /\ wc.slot.status = "delivery-error" /\ DeliverPublished(wc)
        /\ UNCHANGED <<hold, journal, onChain, answers, dead, passed, told>>
    BY DEF RetryPublishedResponse, backend, relay
  <1>3. wc.slot.req \in Requests /\ ~wc.slot.local
    BY <1>1, <1>2 DEF SlotsInv, Shapes, Slots, Someone
  <1>4. MaxChecks <= 1 => ~(wc.slot.checks > 0) /\ \A r \in Requests : ~(notify[r] > 0)
    BY <1>1, <1>2 DEF OnceInv
  <1>5. /\ Good(SetStatus(wc, "delivery-error"), notify, told, dead, passed, answers)
        /\ Good(SetStatus(wc, "notifying"), notify, told, dead, passed, answers)
    BY <1>1, <1>2, <1>3, <1>4, StatusIsGood DEF Statuses
  <1>6. MaxChecks <= 1 => notify[wc.slot.req] = 0
    BY <1>1, <1>3, <1>4
  <1>7. Good(wc', notify', told, dead, passed, answers)
    BY <1>1, <1>2, <1>3, <1>5, <1>6, DeliverIsGood
  <1>8. wc'.proc = wc.proc
    BY <1>1, <1>2, DeliverFrame
  <1>9. HoldInv(wc', hold)
    BY <1>1, <1>2, <1>8, UnshownHolds
  <1> QED BY <1>2, <1>7, <1>9, OwnStep

\* The request's dialog, if it is still shown, is cleared.
Cleared(w, r) == IF w.slot.req = r THEN SetSlot(w, NoSlot) ELSE w

LEMMA ClearedFrame ==
  ASSUME RequestsAssumption, NEW w \in Shapes, NEW r \in Requests
  PROVE  LET u == Cleared(w, r)
         IN  /\ u \in Shapes /\ u.slot.req # r /\ u.slot \in {w.slot, NoSlot}
             /\ u.preparing = w.preparing /\ u.queue = w.queue /\ u.proc = w.proc
  <1>1. NoSlot \in Slots /\ NoSlot.req # r
    BY Constants DEF NoSlot
  <1>2. LET u == SetSlot(w, NoSlot)
        IN  /\ u \in Shapes /\ u.slot = NoSlot
            /\ u.preparing = w.preparing /\ u.queue = w.queue /\ u.proc = w.proc
    BY <1>1, SlotSet
  <1> QED BY <1>1, <1>2 DEF Cleared

\* Of a notification on its way, and the notifications that stay when it comes.
LEMMA NotificationIs ==
  ASSUME RequestsAssumption, StoreInv, NEW r \in Requests, notify[r] > 0
  PROVE  LET n == [notify EXCEPT ![r] = @ - 1]
         IN  /\ Good(wc, n, told, dead, passed, answers) /\ n \in [Requests -> Nat]
             /\ wc.proc[r].pc = "done" /\ ~Queues(wc.queue, r)
             /\ wc.slot.req = r =>
                  /\ wc.slot.status \notin {"none", "awaiting", "publishing", "error"}
                  /\ ~wc.slot.local
             /\ MaxChecks <= 1 => /\ wc.slot.req = r /\ wc.slot.status = "notifying"
                                  /\ ~(wc.slot.checks > 0)
                                  /\ ~Answered(answers, r) /\ \A x \in Requests : ~(n[x] > 0)
  <1> DEFINE n == [notify EXCEPT ![r] = @ - 1]
  <1>1. /\ Good(wc, notify, told, dead, passed, answers) /\ notify \in [Requests -> Nat]
        /\ NotifyInv(wc, notify) /\ SlotsInv(wc) /\ QueueInv(wc, notify)
        /\ AnsweredInv(wc, answers) /\ OnceInv(wc, notify, answers) /\ Nobody \notin Requests
    BY DEF StoreInv, Good, RequestsAssumption
  <1>2. Good(wc, n, told, dead, passed, answers)
    BY <1>1, NotifyLess
  <1>3. wc.proc[r].pc = "done"
    BY <1>1 DEF NotifyInv
  <1>4. ~Queues(wc.queue, r)
    BY <1>1 DEF QueueInv, Queues
  <1>5. wc.slot.req = r => /\ wc.slot.status \notin {"none", "awaiting", "publishing", "error"}
                           /\ ~wc.slot.local
    BY <1>1 DEF NotifyInv, SlotsInv
  <1>6. /\ n \in [Requests -> Nat] /\ n[r] = notify[r] - 1
        /\ \A x \in Requests \ {r} : n[x] = notify[x]
    BY <1>1
  <1> HIDE DEF n
  <1>7. MaxChecks <= 1 => /\ wc.slot.req = r /\ wc.slot.status = "notifying"
                          /\ ~(wc.slot.checks > 0) /\ notify[r] = 1
    BY <1>1 DEF OnceInv
  <1>8. MaxChecks <= 1 => ~Answered(answers, r)
    BY <1>1, <1>7 DEF AnsweredInv
  <1>9. MaxChecks <= 1 => \A x \in Requests : ~(n[x] > 0)
    BY <1>1, <1>6, <1>7 DEF OnceInv
  <1> QED BY <1>2, <1>3, <1>4, <1>5, <1>6, <1>7, <1>8, <1>9 DEF n

LEMMA NotifiedKeeps ==
  ASSUME RequestsAssumption, StoreInv, NEW r \in Requests, Notified(r)
  PROVE  StoreInv'
  <1> DEFINE n == [notify EXCEPT ![r] = @ - 1]
             v == Cleared(wc, r)
  <1>1. wc \in Shapes /\ HoldInv(wc, hold) /\ JournalFits(journal) /\ hold \in Someone
        /\ onChain \subseteq Requests
    BY DEF StoreInv, Good
  <1>2. /\ notify[r] > 0 /\ notify' = n /\ Answers(r, "result") /\ wc' = Drain(v)
        /\ UNCHANGED <<hold, onChain, dead, passed, told>>
    BY DEF Notified, Cleared
  <1>3. \E k : journal' = J!DeletePublished(journal, k) \/ UNCHANGED journal
    BY DEF Notified
  <1>4. /\ Good(wc, n, told, dead, passed, answers)
        /\ wc.proc[r].pc = "done" /\ ~Queues(wc.queue, r)
        /\ wc.slot.req = r => wc.slot.status \notin {"none", "awaiting", "publishing", "error"}
        /\ MaxChecks <= 1 => ~Answered(answers, r) /\ \A x \in Requests : ~(n[x] > 0)
    BY <1>2, NotificationIs
  <1> HIDE DEF n
  <1>5. v \in Shapes /\ v.slot.req # r /\ v.queue = wc.queue /\ v.proc = wc.proc
    BY <1>1, ClearedFrame
  <1>6. Good(v, n, told, dead, passed, answers)
    <2>1. CASE wc.slot.req = r
      <3>1. Good(SetSlot(wc, NoSlot), n, told, dead, passed, answers)
        BY <1>4, <2>1, ClearIsGood
      <3> QED BY <2>1, <3>1 DEF Cleared
    <2>2. CASE wc.slot.req # r
      BY <1>4, <2>2 DEF Cleared
    <2> QED BY <2>1, <2>2
  <1>7. HoldInv(v, hold)
    <2>1. CASE wc.slot.req = r
      <3> HIDE DEF v
      <3> QED BY <1>1, <1>4, <1>5, <2>1, UnshownHolds
    <2>2. CASE wc.slot.req # r
      BY <1>1, <2>2 DEF Cleared
    <2> QED BY <2>1, <2>2
  <1> HIDE DEF v
  <1>8. Good(v, n, told, dead, passed, [answers EXCEPT ![r] = Append(@, "result")])
    BY <1>4, <1>5, <1>6, AnswerIsGood
  <1>9. answers' = [answers EXCEPT ![r] = Append(@, "result")]
    BY <1>2 DEF Answers
  <1>10. Good(wc', n, told, dead, passed, answers')
    BY <1>2, <1>8, <1>9, DrainIsGood
  <1>11. HoldInv(wc', hold)
    BY <1>2, <1>6, <1>7, DrainKeepsHolds
  <1>12. JournalFits(journal')
    BY <1>1, <1>3, DeleteFits
  <1> QED BY <1>1, <1>2, <1>10, <1>11, <1>12 DEF StoreInv

LEMMA NotifyFailsKeeps ==
  ASSUME RequestsAssumption, StoreInv, NEW r \in Requests, NotifyFails(r)
  PROVE  StoreInv'
  <1> DEFINE n == [notify EXCEPT ![r] = @ - 1]
  <1>1. wc \in Shapes /\ HoldInv(wc, hold)
    BY DEF StoreInv, Good
  <1>2. /\ notify[r] > 0 /\ notify' = n
        /\ wc' = IF wc.slot.req = r THEN SetStatus(wc, "delivery-error") ELSE wc
        /\ UNCHANGED <<hold, journal, onChain, answers, dead, passed, told>>
    BY DEF NotifyFails, backend, relay
  <1>3. /\ Good(wc, n, told, dead, passed, answers)
        /\ wc.slot.req = r => wc.slot.status \notin {"none", "awaiting", "publishing", "error"}
                              /\ ~wc.slot.local
        /\ MaxChecks <= 1 => ~(wc.slot.checks > 0) /\ \A x \in Requests : ~(n[x] > 0)
    BY <1>2, NotificationIs
  <1> HIDE DEF n
  <1>4. CASE wc.slot.req = r
    <2>1. Good(SetStatus(wc, "delivery-error"), n, told, dead, passed, answers)
      BY <1>3, <1>4, StatusIsGood DEF Statuses
    <2>2. SetStatus(wc, "delivery-error").proc = wc.proc
      BY <1>1, StatusFrame DEF Statuses
    <2>3. HoldInv(wc', hold)
      BY <1>1, <1>2, <1>3, <1>4, <2>2, UnshownHolds
    <2> QED BY <1>2, <1>4, <2>1, <2>3, OwnStep
  <1>5. CASE wc.slot.req # r
    BY <1>1, <1>2, <1>3, <1>5, OwnStep
  <1> QED BY <1>4, <1>5

\* A check of the outcome begins or ends.
LEMMA ChecksSet ==
  ASSUME NEW w \in Shapes, NEW c \in Nat
  PROVE  /\ [w EXCEPT !.slot.checks = c] = SetSlot(w, [w.slot EXCEPT !.checks = c])
         /\ [w.slot EXCEPT !.checks = c] \in Slots
         /\ [w.slot EXCEPT !.checks = c].checks = c
         /\ [w.slot EXCEPT !.checks = c].req = w.slot.req
         /\ [w.slot EXCEPT !.checks = c].ended = w.slot.ended
         /\ [w.slot EXCEPT !.checks = c].local = w.slot.local
         /\ [w.slot EXCEPT !.checks = c].status = w.slot.status
         /\ [w.slot EXCEPT !.checks = c].key = w.slot.key
  BY DEF SetSlot, Shapes, Slots

LEMMA ReconcileRequestKeeps ==
  ASSUME RequestsAssumption, BoundsAssumption, StoreInv, ReconcileRequest
  PROVE  StoreInv'
  <1> DEFINE c == wc.slot.checks + 1
             s == [wc.slot EXCEPT !.checks = c]
  <1>1. Good(wc, notify, told, dead, passed, answers) /\ HoldInv(wc, hold) /\ wc \in Shapes
        /\ SlotsInv(wc) /\ OnceInv(wc, notify, answers) /\ wc.slot.checks \in Nat
    BY DEF StoreInv, Good, Shapes, Slots
  <1>2. /\ wc.slot.status = "unknown" /\ wc.slot.checks < MaxChecks
        /\ UNCHANGED <<notify, hold, journal, onChain, answers, dead, passed, told>>
    BY DEF ReconcileRequest, backend, relay
  <1>3. wc' = [wc EXCEPT !.slot.checks = c] /\ c \in Nat
    BY <1>1 DEF ReconcileRequest
  <1>4. MaxChecks <= 1 => c = 1
    BY <1>1, <1>2 DEF BoundsAssumption
  <1> HIDE DEF c
  <1>5. /\ wc' = SetSlot(wc, s) /\ s \in Slots /\ s.checks = c /\ s.req = wc.slot.req
        /\ (s.ended <=> wc.slot.ended) /\ (s.local <=> wc.slot.local)
        /\ s.status = wc.slot.status
    BY <1>1, <1>3, ChecksSet
  <1> HIDE DEF s
  <1>6. MaxChecks <= 1 => \A r \in Requests : ~(notify[r] > 0)
    BY <1>1, <1>2 DEF OnceInv
  <1>7. MaxChecks <= 1 =>
          /\ s.checks > 0 => s.checks = 1 /\ s.status = "unknown"
          /\ \A r \in Requests : notify[r] > 0 => s.status = "notifying"
    BY <1>2, <1>4, <1>5, <1>6
  <1>8. Good(SetSlot(wc, s), notify, told, dead, passed, answers)
    BY <1>1, <1>2, <1>5, <1>7, ShownMoves
  <1>9. HoldInv(SetSlot(wc, s), hold)
    BY <1>1, <1>2, <1>5, ShownKeepsHolds
  <1> QED BY <1>2, <1>5, <1>8, <1>9, OwnStep

\* What a check that is answered leaves of the dialog.
LEMMA CheckIsOver ==
  ASSUME RequestsAssumption, StoreInv, wc.slot.checks > 0
  PROVE  LET w == [wc EXCEPT !.slot.checks = @ - 1]
         IN  /\ w \in Shapes /\ Good(w, notify, told, dead, passed, answers) /\ HoldInv(w, hold)
             /\ w.proc = wc.proc /\ w.slot.req = wc.slot.req /\ (w.slot.local <=> wc.slot.local)
             /\ w.slot.status = wc.slot.status
             /\ w.slot.status \notin {"none", "awaiting", "publishing", "error"}
             /\ MaxChecks <= 1 =>
                  ~(w.slot.checks > 0) /\ \A r \in Requests : ~(notify[r] > 0)
  <1> DEFINE c == wc.slot.checks - 1
             s == [wc.slot EXCEPT !.checks = c]
             w == [wc EXCEPT !.slot.checks = @ - 1]
  <1>1. Good(wc, notify, told, dead, passed, answers) /\ HoldInv(wc, hold) /\ wc \in Shapes
        /\ SlotsInv(wc) /\ OnceInv(wc, notify, answers) /\ wc.slot.checks \in Nat
        /\ wc.slot.status \in Statuses
    BY DEF StoreInv, Good, Shapes, Slots
  <1>2. c \in Nat /\ (wc.slot.checks = 1 => c = 0)
    BY <1>1
  <1>3. w = [wc EXCEPT !.slot.checks = c]
    OBVIOUS
  <1> HIDE DEF c, w
  <1>4. /\ w = SetSlot(wc, s) /\ s \in Slots /\ s.checks = c /\ s.req = wc.slot.req
        /\ (s.ended <=> wc.slot.ended) /\ (s.local <=> wc.slot.local)
        /\ s.status = wc.slot.status
    BY <1>1, <1>2, <1>3, ChecksSet
  <1> HIDE DEF s
  <1>5. MaxChecks <= 1 =>
          wc.slot.checks = 1 /\ wc.slot.status = "unknown" /\ \A r \in Requests : ~(notify[r] > 0)
    BY <1>1 DEF OnceInv
  <1>6. wc.slot.status \in {"notifying", "delivery-error", "unknown", "recovered"}
    BY <1>1 DEF SlotsInv, Statuses
  <1>7. s.local => s.status \in {"unknown", "recovered"}
    BY <1>1, <1>4 DEF SlotsInv
  <1>8. MaxChecks <= 1 =>
          /\ s.checks > 0 => s.checks = 1 /\ s.status = "unknown"
          /\ \A r \in Requests : notify[r] > 0 => s.status = "notifying"
    BY <1>2, <1>4, <1>5
  <1>9. Good(SetSlot(wc, s), notify, told, dead, passed, answers)
    BY <1>1, <1>4, <1>6, <1>7, <1>8, ShownMoves
  <1>10. HoldInv(SetSlot(wc, s), hold)
    BY <1>1, <1>4, <1>6, ShownKeepsHolds
  <1>11. SetSlot(wc, s).slot = s /\ SetSlot(wc, s).proc = wc.proc /\ SetSlot(wc, s) \in Shapes
    BY <1>1, <1>4, SlotSet
  <1>12. MaxChecks <= 1 => ~(s.checks > 0)
    BY <1>2, <1>4, <1>5
  <1> QED BY <1>4, <1>5, <1>6, <1>9, <1>10, <1>11, <1>12 DEF w

LEMMA ReconciledKeeps ==
  ASSUME RequestsAssumption, StoreInv, Reconciled
  PROVE  StoreInv'
  <1> DEFINE w == [wc EXCEPT !.slot.checks = @ - 1]
  <1>1. JournalFits(journal) /\ hold \in Someone /\ onChain \subseteq Requests
        /\ SlotsInv(wc) /\ wc \in Shapes
    BY DEF StoreInv, Good
  <1>2. /\ wc.slot.checks > 0 /\ journal' = J!MarkPublished(journal, wc.slot.key)
        /\ UNCHANGED <<hold, dead, passed, answers, told>>
        /\ IF wc.slot.local THEN wc' = SetStatus(w, "recovered") /\ UNCHANGED notify
           ELSE DeliverPublished(w)
    BY DEF Reconciled, relay
  <1>3. onChain' \subseteq Requests
    BY <1>1 DEF Reconciled
  <1>4. /\ w \in Shapes /\ Good(w, notify, told, dead, passed, answers) /\ HoldInv(w, hold)
        /\ w.proc = wc.proc /\ w.slot.req = wc.slot.req /\ (w.slot.local <=> wc.slot.local)
        /\ w.slot.status \notin {"none", "awaiting", "publishing", "error"}
        /\ MaxChecks <= 1 => ~(w.slot.checks > 0) /\ \A r \in Requests : ~(notify[r] > 0)
    BY <1>2, CheckIsOver
  <1> HIDE DEF w
  <1>5. JournalFits(journal')
    BY <1>1, <1>2, MarkFits
  <1>6. CASE wc.slot.local
    <2>1. Good(SetStatus(w, "recovered"), notify, told, dead, passed, answers)
      BY <1>4, <1>6, StatusIsGood DEF Statuses
    <2>2. SetStatus(w, "recovered").proc = w.proc
      BY <1>4, StatusFrame DEF Statuses
    <2>3. HoldInv(wc', hold)
      BY <1>2, <1>4, <1>6, <2>2, UnshownHolds
    <2> QED BY <1>1, <1>2, <1>3, <1>5, <1>6, <2>1, <2>3 DEF StoreInv
  <1>7. CASE ~wc.slot.local
    <2>1. w.slot.req \in Requests
      BY <1>1, <1>4, <1>7 DEF Good, SlotsInv, Shapes, Slots, Someone
    <2>2. /\ Good(SetStatus(w, "delivery-error"), notify, told, dead, passed, answers)
          /\ Good(SetStatus(w, "notifying"), notify, told, dead, passed, answers)
      BY <1>4, <1>7, StatusIsGood DEF Statuses
    <2>3. MaxChecks <= 1 => notify[w.slot.req] = 0
      <3>1. notify[w.slot.req] \in Nat
        BY <2>1 DEF StoreInv, Good
      <3> QED BY <1>4, <2>1, <3>1
    <2>4. Good(wc', notify', told, dead, passed, answers)
      BY <1>2, <1>4, <1>7, <2>1, <2>2, <2>3, DeliverIsGood
    <2>5. wc'.proc = w.proc
      BY <1>2, <1>4, <1>7, DeliverFrame
    <2>6. HoldInv(wc', hold)
      BY <1>4, <2>5, UnshownHolds
    <2> QED BY <1>1, <1>2, <1>3, <1>5, <2>4, <2>6 DEF StoreInv
  <1> QED BY <1>6, <1>7

LEMMA ReconcileFailsKeeps ==
  ASSUME RequestsAssumption, StoreInv, ReconcileFails
  PROVE  StoreInv'
  <1> DEFINE w == [wc EXCEPT !.slot.checks = @ - 1]
  <1>1. /\ wc.slot.checks > 0 /\ wc' = SetStatus(w, "unknown")
        /\ UNCHANGED <<notify, hold, journal, onChain, answers, dead, passed, told>>
    BY DEF ReconcileFails, backend, relay
  <1>2. /\ w \in Shapes /\ Good(w, notify, told, dead, passed, answers) /\ HoldInv(w, hold)
        /\ w.slot.status \notin {"none", "awaiting", "publishing", "error"}
        /\ MaxChecks <= 1 => ~(w.slot.checks > 0) /\ \A r \in Requests : ~(notify[r] > 0)
    BY <1>1, CheckIsOver
  <1> HIDE DEF w
  <1>3. Good(SetStatus(w, "unknown"), notify, told, dead, passed, answers)
    BY <1>2, StatusIsGood DEF Statuses
  <1>4. SetStatus(w, "unknown").proc = w.proc
    BY <1>2, StatusFrame DEF Statuses
  <1>5. HoldInv(wc', hold)
    BY <1>1, <1>2, <1>4, UnshownHolds
  <1> QED BY <1>1, <1>3, <1>5, OwnStep

\* A dialog whose request is published, or may be, is put away.
LEMMA PutAway ==
  ASSUME RequestsAssumption, StoreInv,
         wc.slot.status \in {"delivery-error", "unknown", "recovered"}
  PROVE  LET u == Drain(SetSlot(wc, NoSlot))
         IN  Good(u, notify, told, dead, passed, answers) /\ HoldInv(u, hold)
  <1> DEFINE w == SetSlot(wc, NoSlot)
  <1>1. Good(wc, notify, told, dead, passed, answers) /\ HoldInv(wc, hold) /\ wc \in Shapes
        /\ OnceInv(wc, notify, answers)
    BY DEF StoreInv, Good
  <1>2. MaxChecks <= 1 => \A r \in Requests : ~(notify[r] > 0)
    BY <1>1 DEF OnceInv
  <1>3. Good(w, notify, told, dead, passed, answers)
    BY <1>1, <1>2, ClearIsGood
  <1>4. HoldInv(w, hold)
    <2>1. NoSlot \in Slots
      BY Constants
    <2> QED BY <1>1, <2>1, ShownKeepsHolds
  <1> HIDE DEF w
  <1>5. Good(Drain(w), notify, told, dead, passed, answers) /\ HoldInv(Drain(w), hold)
    BY <1>3, <1>4, DrainIsGood, DrainKeepsHolds
  <1> QED BY <1>5 DEF w

LEMMA AcknowledgeRecoveredKeeps ==
  ASSUME RequestsAssumption, StoreInv, AcknowledgeRecovered
  PROVE  StoreInv'
  <1>1. /\ wc.slot.status = "recovered" /\ wc' = Drain(SetSlot(wc, NoSlot))
        /\ journal' = J!DeletePublished(journal, wc.slot.key)
        /\ UNCHANGED <<notify, hold, onChain, answers, dead, passed, told>>
    BY DEF AcknowledgeRecovered, relay
  <1>2. Good(wc', notify, told, dead, passed, answers) /\ HoldInv(wc', hold)
    BY <1>1, PutAway
  <1>3. JournalFits(journal')
    BY <1>1, DeleteFits DEF StoreInv
  <1> QED BY <1>1, <1>2, <1>3 DEF StoreInv

LEMMA ClearPublishedRequestKeeps ==
  ASSUME RequestsAssumption, StoreInv, ClearPublishedRequest
  PROVE  StoreInv'
  <1>1. /\ wc.slot.status \in {"delivery-error", "unknown", "recovered"}
        /\ wc' = Drain(SetSlot(wc, NoSlot))
        /\ UNCHANGED <<notify, hold, journal, onChain, answers, dead, passed, told>>
    BY DEF ClearPublishedRequest, backend, relay
  <1>2. Good(wc', notify, told, dead, passed, answers) /\ HoldInv(wc', hold)
    BY <1>1, PutAway
  <1> QED BY <1>1, <1>2, OwnStep

LEMMA RejectRequestKeeps ==
  ASSUME RequestsAssumption, StoreInv, RejectRequest
  PROVE  StoreInv'
  <1>1. /\ wc.slot.status \in {"awaiting", "error"} /\ wc' = Close(wc, "tell")
        /\ UNCHANGED <<notify, hold, journal, onChain, answers, dead, passed, told>>
    BY DEF RejectRequest, backend, relay
  <1>2. Good(wc, notify, told, dead, passed, answers) /\ HoldInv(wc, hold)
    BY DEF StoreInv
  <1>3. Good(wc', notify, told, dead, passed, answers) /\ HoldInv(wc', hold)
    BY <1>1, <1>2, CloseIsGood
  <1> QED BY <1>1, <1>3, OwnStep

LEMMA ToldKeeps ==
  ASSUME RequestsAssumption, StoreInv, NEW r \in Requests, Told(r)
  PROVE  StoreInv'
  <1> DEFINE f == Finish(wc, r)
  <1>1. Good(wc, notify, told, dead, passed, answers) /\ HoldInv(wc, hold) /\ wc \in Shapes
    BY DEF StoreInv, Good
  <1>2. /\ wc.proc[r].pc = "tell" /\ wc' \in {f, Drain(f)}
        /\ Answers(r, "error") \/ UNCHANGED answers
        /\ UNCHANGED <<notify, hold, journal, onChain, dead, passed, told>>
    BY DEF Told, backend
  <1>3. wc.slot.req # r /\ hold # r
    BY <1>1, <1>2, ActiveIsFree, ActiveIsUnheld
  <1>4. answers' \in {answers, [answers EXCEPT ![r] = Append(@, "error")]}
    BY <1>2, AnswerTaken
  <1>5. Good(f, notify, told, dead, passed, answers')
    BY <1>1, <1>2, <1>3, <1>4, FinishAnswered
  <1>6. f.slot = wc.slot /\ \A x \in Requests \ {r} : f.proc[x] = wc.proc[x]
    BY <1>1, FinishFrame
  <1> HIDE DEF f
  <1>7. HoldInv(f, hold)
    BY <1>1, <1>3, <1>6, HoldElsewhere
  <1>8. Good(Drain(f), notify, told, dead, passed, answers') /\ HoldInv(Drain(f), hold)
    BY <1>5, <1>7, DrainIsGood, DrainKeepsHolds
  <1> QED BY <1>2, <1>5, <1>7, <1>8, OwnStep

LEMMA CancelPendingKeeps ==
  ASSUME RequestsAssumption, StoreInv, NEW r \in Requests, CancelPending(r)
  PROVE  StoreInv'
  <1> DEFINE w == Cleared(wc, r)
             k == [wc.proc[r] EXCEPT !.pc = "tell"]
             t == SetProc(w, r, k)
             f == Finish(w, r)
  <1>1. Good(wc, notify, told, dead, passed, answers) /\ HoldInv(wc, hold) /\ wc \in Shapes
        /\ OwnersInv(wc) /\ OnceInv(wc, notify, answers) /\ hold \in Someone
        /\ JournalFits(journal) /\ onChain \subseteq Requests
    BY DEF StoreInv, Good
  <1>2. /\ wc.proc[r].pc = "cancel" /\ hold' = IF hold = r THEN Nobody ELSE hold
        /\ wc' \in {Drain(f), Goto(w, r, "tell")}
        /\ UNCHANGED <<notify, journal, onChain, answers, dead, passed, told>>
    BY DEF CancelPending, CancelHold, Cleared, relay
  <1>3. HoldInv(wc, hold') /\ hold' # r /\ hold' \in Someone
    BY <1>1, <1>2, HoldGoes DEF Someone
  <1>4. /\ Free(wc, notify, r) /\ ~Answered(answers, r)
        /\ wc.slot.req = r => wc.slot.status = "publishing"
    BY <1>1, <1>2, ActiveIsFree
  <1>5. /\ w \in Shapes /\ w.slot.req # r /\ w.slot \in {wc.slot, NoSlot} /\ w.proc = wc.proc
        /\ w.preparing = wc.preparing /\ w.queue = wc.queue
        /\ wc.slot.req # r => w = wc
        /\ wc.slot.req = r => w = SetSlot(wc, NoSlot) /\ w.slot = NoSlot
    <2>1. NoSlot \in Slots
      BY Constants
    <2>2. SetSlot(wc, NoSlot).slot = NoSlot
      BY <1>1, <2>1, SlotSet
    <2> QED BY <1>1, <2>2, ClearedFrame DEF Cleared
  <1>6. /\ k \in Processes /\ k.pc = "tell" /\ k.then = wc.proc[r].then
        /\ Goto(w, r, "tell") = t
    BY <1>1, <1>5, PcSet DEF Goto, Shapes, Pcs
  <1>7. Settled \in Processes /\ Settled.pc = "done" /\ Settled.then = "stop"
        /\ NoSlot \in Slots /\ NoSlot.req = Nobody /\ NoSlot.status = "none" /\ ~NoSlot.local
        /\ ~NoSlot.ended /\ NoSlot.checks = 0 /\ Nobody \notin Requests
    BY Constants DEF Settled, At, NoSlot
  <1> HIDE DEF w, k
  <1>8. Good(t, notify, told, dead, passed, answers) /\ Good(f, notify, told, dead, passed, answers)
    <2>1. SlotFits(wc, wc.slot, notify, told, dead, passed, answers)
      BY <1>1, OwnSlotFits
    <2>2. \A s \in {NoSlot, wc.slot} :
            s.req # r => ProcFits(wc, s, r, k, notify, told, answers)
                         /\ ProcFits(wc, s, r, Settled, notify, told, answers)
      <3>1. ToldInv(wc, told)
        BY <1>1 DEF Good
      <3> QED BY <1>1, <1>2, <1>4, <1>6, <1>7 DEF ProcFits, OwnersInv
    <2>3. CASE wc.slot.req = r
      <3>1. SlotFits(wc, NoSlot, notify, told, dead, passed, answers)
        <4>1. MaxChecks <= 1 => \A x \in Requests : ~(notify[x] > 0)
          BY <1>1, <1>4, <2>3 DEF OnceInv
        <4> QED BY <1>7, <4>1 DEF SlotFits
      <3>2. NoSlot.req # r
        BY <1>7
      <3>3. /\ Good(SetProc(SetSlot(wc, NoSlot), r, k), notify, told, dead, passed, answers)
            /\ Good(SetProc(SetSlot(wc, NoSlot), r, Settled), notify, told, dead, passed, answers)
        BY <1>1, <1>6, <1>7, <2>2, <2>3, <3>1, <3>2, BothMove
      <3> QED BY <1>5, <2>3, <3>3 DEF Finish
    <2>4. CASE wc.slot.req # r
      <3>1. /\ Good(SetProc(wc, r, k), notify, told, dead, passed, answers)
            /\ Good(SetProc(wc, r, Settled), notify, told, dead, passed, answers)
        BY <1>1, <1>6, <1>7, <2>2, <2>4, ProcMoves
      <3> QED BY <1>5, <2>4, <3>1 DEF Finish
    <2> QED BY <2>3, <2>4
  <1>9. /\ t.slot = w.slot /\ \A x \in Requests \ {r} : t.proc[x] = w.proc[x]
    BY <1>5, <1>6, ProcSet
  <1>10. f.slot = w.slot /\ \A x \in Requests \ {r} : f.proc[x] = w.proc[x]
    BY <1>5, FinishFrame
  <1> HIDE DEF t, f
  <1>11. HoldInv(t, hold') /\ HoldInv(f, hold')
    BY <1>3, <1>5, <1>9, <1>10, HoldElsewhere
  <1>12. Good(Drain(f), notify, told, dead, passed, answers) /\ HoldInv(Drain(f), hold')
    BY <1>8, <1>11, DrainIsGood, DrainKeepsHolds
  <1> QED BY <1>1, <1>2, <1>3, <1>6, <1>8, <1>11, <1>12 DEF StoreInv

-----------------------------------------------------------------------------
(* The steps: what the wallet and the relay push in between.               *)

LEMMA CutIsGood ==
  ASSUME RequestsAssumption, NEW w, NEW ns, NEW T, NEW ds, NEW ps, NEW as,
         Good(w, ns, T, ds, ps, as)
  PROVE  /\ Good(CutPreparation(w), ns, T, ds, ps, as)
         /\ CutPreparation(w).slot = w.slot /\ CutPreparation(w).proc = w.proc
  <1> DEFINE p == [w.preparing EXCEPT !.cancelled = TRUE]
  <1>1. CASE w.preparing = NoPreparation
    BY <1>1 DEF CutPreparation
  <1>2. CASE w.preparing # NoPreparation
    <2>1. w \in Shapes /\ SlotsInv(w) /\ OwnersInv(w) /\ ToldInv(w, T) /\ EndInv(w, ds, ps)
          /\ w.preparing \in Preparations
      BY DEF Good, Shapes
    <2>2. CutPreparation(w) = SetPreparing(w, p)
      BY <1>2, <2>1 DEF CutPreparation, SetPreparing, Shapes, Preparations
    <2>3. /\ p \in Preparations /\ p.req = w.preparing.req
          /\ (p.marker <=> w.preparing.marker) /\ (p.ended <=> w.preparing.ended)
      BY <2>1 DEF Preparations
    <2> HIDE DEF p
    <2>4. p.req # Nobody
      BY <1>2, <2>1, <2>3 DEF SlotsInv
    <2>5. /\ w.slot = NoSlot
          /\ \A r \in Requests : w.proc[r].then = "release" => p.req = r /\ ~p.marker
          /\ p.req \in T /\ p.req \in Requests /\ ~p.marker => p.ended
          /\ p.ended => p.req \in Requests /\ (p.req.topic \in ds \/ p.req \in ps)
      BY <1>2, <2>1, <2>3 DEF SlotsInv, OwnersInv, ToldInv, EndInv
    <2>6. Good(SetPreparing(w, p), ns, T, ds, ps, as)
      BY <2>3, <2>4, <2>5, PreparingMoves
    <2>7. SetPreparing(w, p).slot = w.slot /\ SetPreparing(w, p).proc = w.proc
      BY <2>1, <2>3, PreparingSet
    <2> QED BY <2>2, <2>6, <2>7
  <1> QED BY <1>1, <1>2

LEMMA WalletLockedKeeps ==
  ASSUME RequestsAssumption, StoreInv, WalletLocked
  PROVE  StoreInv'
  <1> DEFINE w == CutPreparation(wc)
  <1>1. Good(wc, notify, told, dead, passed, answers) /\ HoldInv(wc, hold)
    BY DEF StoreInv
  <1>2. Good(w, notify, told, dead, passed, answers) /\ w.slot = wc.slot /\ w.proc = wc.proc
    BY <1>1, CutIsGood
  <1>3. /\ wc' = IF wc.slot.status \in {"awaiting", "error"} THEN Close(w, "tell") ELSE w
        /\ UNCHANGED <<notify, hold, journal, onChain, answers, dead, passed, told>>
    BY DEF WalletLocked, backend, relay
  <1> HIDE DEF w
  <1>4. HoldInv(w, hold)
    BY <1>1, <1>2 DEF HoldInv
  <1>5. CASE wc.slot.status \in {"awaiting", "error"}
    <2>1. Good(Close(w, "tell"), notify, told, dead, passed, answers)
          /\ HoldInv(Close(w, "tell"), hold)
      BY <1>2, <1>4, <1>5, CloseIsGood
    <2> QED BY <1>3, <1>5, <2>1, OwnStep
  <1>6. CASE wc.slot.status \notin {"awaiting", "error"}
    BY <1>2, <1>3, <1>4, <1>6, OwnStep
  <1> QED BY <1>5, <1>6

LEMMA UpdateAccountKeeps ==
  ASSUME RequestsAssumption, StoreInv, UpdateAccount
  PROVE  StoreInv'
  <1> DEFINE w == CutPreparation(wc)
  <1>1. Good(wc, notify, told, dead, passed, answers) /\ HoldInv(wc, hold)
    BY DEF StoreInv
  <1>2. Good(w, notify, told, dead, passed, answers) /\ w.slot = wc.slot /\ w.proc = wc.proc
    BY <1>1, CutIsGood
  <1>3. /\ wc' = IF wc.slot.status \in {"awaiting", "error"} THEN Close(w, "tellAnyway")
                 ELSE Drain(w)
        /\ UNCHANGED <<notify, hold, journal, onChain, answers, dead, passed, told>>
    BY DEF UpdateAccount, backend, relay
  <1> HIDE DEF w
  <1>4. HoldInv(w, hold)
    BY <1>1, <1>2 DEF HoldInv
  <1>5. CASE wc.slot.status \in {"awaiting", "error"}
    <2>1. Good(Close(w, "tellAnyway"), notify, told, dead, passed, answers)
          /\ HoldInv(Close(w, "tellAnyway"), hold)
      BY <1>2, <1>4, <1>5, CloseIsGood
    <2> QED BY <1>3, <1>5, <2>1, OwnStep
  <1>6. CASE wc.slot.status \notin {"awaiting", "error"}
    <2>1. Good(Drain(w), notify, told, dead, passed, answers) /\ HoldInv(Drain(w), hold)
      BY <1>2, <1>4, DrainIsGood, DrainKeepsHolds
    <2> QED BY <1>3, <1>6, <2>1, OwnStep
  <1> QED BY <1>5, <1>6

\* The preparation of a request that ended is marked.
LEMMA MarkedPreparationIsGood ==
  ASSUME RequestsAssumption, NEW w, NEW ns, NEW T, NEW ds, NEW ps, NEW as,
         Good(w, ns, T, ds, ps, as),
         NEW S \in SUBSET Requests, \A r \in S : r.topic \in ds \/ r \in ps
  PROVE  LET p == [w.preparing EXCEPT !.ended = @ \/ w.preparing.req \in S]
         IN  /\ p \in Preparations /\ p.req = w.preparing.req /\ (p.marker <=> w.preparing.marker)
             /\ w.preparing.req \in S => p.ended
             /\ w.preparing.ended => p.ended
             /\ Good(SetPreparing(w, p), ns, T, ds, ps, as)
  <1> DEFINE b == w.preparing.ended \/ w.preparing.req \in S
             p == [w.preparing EXCEPT !.ended = b]
  <1>1. w \in Shapes /\ SlotsInv(w) /\ OwnersInv(w) /\ ToldInv(w, T) /\ EndInv(w, ds, ps)
        /\ w.preparing \in Preparations /\ Nobody \notin Requests
    BY DEF Good, Shapes, RequestsAssumption
  <1>2. b \in BOOLEAN
    OBVIOUS
  <1>3. [w.preparing EXCEPT !.ended = @ \/ w.preparing.req \in S] = p
    OBVIOUS
  <1>4. (b <=> w.preparing.ended) => b = w.preparing.ended
    BY <1>1 DEF Preparations
  <1>5. b <=> w.preparing.ended \/ w.preparing.req \in S
    OBVIOUS
  <1> HIDE DEF b
  <1>6. /\ p \in Preparations /\ p.req = w.preparing.req
        /\ (p.marker <=> w.preparing.marker) /\ (p.ended <=> b)
    BY <1>1, <1>2 DEF Preparations
  <1>7. b = w.preparing.ended => p = w.preparing
    BY <1>1 DEF Preparations
  <1> HIDE DEF p
  <1>8. p.req = Nobody => p = NoPreparation
    <2> SUFFICES ASSUME p.req = Nobody PROVE p = NoPreparation
      OBVIOUS
    <2>1. w.preparing.req \notin S /\ w.preparing = NoPreparation
      BY <1>1, <1>6 DEF SlotsInv
    <2>2. p = w.preparing
      BY <2>1, <1>4, <1>5, <1>7
    <2> QED BY <2>1, <2>2
  <1>9. w.slot = NoSlot \/ p = NoPreparation
    <2>1. CASE w.slot # NoSlot
      <3>1. w.preparing = NoPreparation
        BY <1>1, <2>1 DEF SlotsInv
      <3>2. p.req = Nobody
        BY <1>6, <3>1 DEF NoPreparation, Preparation
      <3> QED BY <1>8, <3>2
    <2> QED BY <2>1
  <1>10. /\ \A r \in Requests : w.proc[r].then = "release" => p.req = r /\ ~p.marker
         /\ p.req \in T /\ p.req \in Requests /\ ~p.marker => p.ended
         /\ p.ended => p.req \in Requests /\ (p.req.topic \in ds \/ p.req \in ps)
    BY <1>1, <1>5, <1>6 DEF OwnersInv, ToldInv, EndInv
  <1>11. Good(SetPreparing(w, p), ns, T, ds, ps, as)
    BY <1>6, <1>8, <1>9, <1>10, PreparingMoves
  <1> QED BY <1>3, <1>5, <1>6, <1>11

\* The replays of requests that ended leave the queue.
LEMMA WithoutIsGood ==
  ASSUME RequestsAssumption, NEW w, NEW ns, NEW T, NEW ds, NEW ps, NEW as,
         Good(w, ns, T, ds, ps, as), NEW gone
  PROVE  /\ Without(w.queue, gone) \in Seq(Waiting)
         /\ Good([w EXCEPT !.queue = Without(w.queue, gone)], ns, T, ds, ps, as)
  <1> DEFINE p == Without(w.queue, gone)
  <1>1. w.queue \in Seq(Waiting) /\ QueueFits(w, w.queue, ns, as)
    BY QueueIsFit
  <1>2. p \in Seq(Waiting) /\ PartOf(p, w.queue, gone)
    BY <1>1, WithoutParts
  <1> HIDE DEF p
  <1>3. PICK at \in [1..Len(p) -> 1..Len(w.queue)] :
          /\ \A i \in 1..Len(p) : p[i] = w.queue[at[i]] /\ w.queue[at[i]] \notin gone
          /\ \A i, j \in 1..Len(p) : i # j => at[i] # at[j]
    BY <1>2 DEF PartOf
  <1>4. QueueFits(w, p, ns, as)
    BY <1>1, <1>2, <1>3, PartFits
  <1>5. Good([w EXCEPT !.queue = p], ns, T, ds, ps, as)
    BY <1>2, <1>4, QueueMoves
  <1> QED BY <1>2, <1>5 DEF p

LEMMA EndedProcess ==
  ASSUME RequestsAssumption, NEW k \in Processes
  PROVE  LET e == EndProc(k)
         IN  /\ e \in Processes
             /\ k.pc # "waiting" => /\ e.pc = k.pc /\ e.out = k.out /\ e.then = k.then
                                    /\ e.key = k.key
                                    /\ k.pc \in {"lookup", "looked"} => e.ended
                                    /\ k.ended => e.ended
             /\ k.pc = "waiting" => e.pc = "done" /\ e.then = "stop"
  <1>1. Settled \in Processes /\ Settled.pc = "done" /\ Settled.then = "stop"
    BY Constants DEF Settled, At
  <1>2. LET e == [k EXCEPT !.ended = TRUE]
        IN  e \in Processes /\ e.pc = k.pc /\ e.out = k.out /\ e.then = k.then /\ e.ended
            /\ e.key = k.key
    BY DEF Processes
  <1> QED BY <1>1, <1>2 DEF EndProc

\* The handlers of some requests that ended are marked, or stop waiting.
LEMMA EndedProcessesAreGood ==
  ASSUME RequestsAssumption, NEW w, NEW ns, NEW T, NEW ds, NEW ps, NEW as,
         Good(w, ns, T, ds, ps, as),
         NEW u \in Shapes, u.slot = w.slot, u.preparing = w.preparing, u.queue = w.queue,
         \A r \in Requests : u.proc[r] = w.proc[r] \/ u.proc[r] = EndProc(w.proc[r])
  PROVE  Good(u, ns, T, ds, ps, as)
  <1>p. /\ SlotsInv(w) /\ OwnersInv(w) /\ QueueInv(w, ns) /\ NotifyInv(w, ns) /\ ToldInv(w, T)
        /\ EndInv(w, ds, ps) /\ AnsweredInv(w, as) /\ OnceInv(w, ns, as)
        /\ w.proc \in [Requests -> Processes]
        /\ w.slot.req \in Requests \cup {Nobody} /\ Nobody \notin Requests
    BY DEF Good, Shapes, Slots, Someone, RequestsAssumption
  <1>1. \A r \in Requests :
          /\ w.proc[r].pc # "waiting" =>
               /\ u.proc[r].pc = w.proc[r].pc /\ u.proc[r].out = w.proc[r].out
               /\ u.proc[r].then = w.proc[r].then
               /\ w.proc[r].ended => u.proc[r].ended
          /\ w.proc[r].pc = "waiting" =>
               u.proc[r] = w.proc[r] \/ (u.proc[r].pc = "done" /\ u.proc[r].then = "stop")
    BY <1>p, EndedProcess
  <1>2. SlotsInv(u)
    BY <1>p DEF SlotsInv
  <1>3. OwnersInv(u)
    BY <1>p, <1>1 DEF OwnersInv
  <1>4. QueueInv(u, ns)
    BY <1>p, <1>1 DEF QueueInv
  <1>5. NotifyInv(u, ns)
    BY <1>p, <1>1 DEF NotifyInv
  <1>6. ToldInv(u, T)
    BY <1>p, <1>1 DEF ToldInv
  <1>7. EndInv(u, ds, ps)
    BY <1>p DEF EndInv
  <1>8. AnsweredInv(u, as)
    BY <1>p, <1>1 DEF AnsweredInv
  <1>9. OnceInv(u, ns, as)
    BY <1>p DEF OnceInv
  <1> QED BY <1>2, <1>3, <1>4, <1>5, <1>6, <1>7, <1>8, <1>9 DEF Good

\* The store once the requests of S are marked.
LEMMA MarkedIsGood ==
  ASSUME RequestsAssumption, NEW ns, NEW T, NEW ds, NEW ps, NEW as,
         Good(wc, ns, T, ds, ps, as),
         NEW S \in SUBSET Requests, \A r \in S : r.topic \in ds \/ r \in ps
  PROVE  LET m == Marked(S)
         IN  /\ Good(m, ns, T, ds, ps, as) /\ m \in Shapes /\ m.slot = wc.slot
             /\ \A r \in Requests :
                  m.proc[r] = IF r \in S THEN EndProc(wc.proc[r]) ELSE wc.proc[r]
             /\ m.preparing.req = wc.preparing.req /\ (m.preparing.marker <=> wc.preparing.marker)
             /\ wc.preparing.req \in S => m.preparing.ended
             /\ wc.preparing.ended => m.preparing.ended
  <1> DEFINE p == [wc.preparing EXCEPT !.ended = @ \/ wc.preparing.req \in S]
             gone == {e \in Queued(wc.queue) : ~e.local /\ e.req \in S}
             q == Without(wc.queue, gone)
             f == [r \in Requests |-> IF r \in S THEN EndProc(wc.proc[r]) ELSE wc.proc[r]]
             u == SetPreparing(wc, p)
             v == [u EXCEPT !.queue = q]
             m == Marked(S)
  <1>1. wc \in Shapes /\ wc.proc \in [Requests -> Processes] /\ wc.slot \in Slots
        /\ wc.queue \in Seq(Waiting)
    BY DEF Good, Shapes
  <1>2. /\ p \in Preparations /\ p.req = wc.preparing.req /\ (p.marker <=> wc.preparing.marker)
        /\ wc.preparing.req \in S => p.ended
        /\ wc.preparing.ended => p.ended
        /\ Good(u, ns, T, ds, ps, as)
    BY MarkedPreparationIsGood
  <1>3. m = [slot |-> wc.slot, preparing |-> p, queue |-> q, proc |-> f]
    BY DEF Marked
  <1> HIDE DEF p, gone
  <1>4. u \in Shapes /\ u.preparing = p /\ u.slot = wc.slot /\ u.queue = wc.queue
        /\ u.proc = wc.proc
    BY <1>1, <1>2, PreparingSet
  <1> HIDE DEF u
  <1>5. q \in Seq(Waiting) /\ Good(v, ns, T, ds, ps, as)
    BY <1>2, <1>4, WithoutIsGood
  <1> HIDE DEF q
  <1>6. v \in Shapes /\ v.queue = q /\ v.slot = wc.slot /\ v.preparing = p /\ v.proc = wc.proc
    BY <1>4, <1>5, QueueSet
  <1>7. f \in [Requests -> Processes]
        /\ \A r \in Requests : f[r] = IF r \in S THEN EndProc(wc.proc[r]) ELSE wc.proc[r]
    BY <1>1, EndedProcess
  <1> HIDE DEF f, v, m
  <1>8. m \in Shapes /\ m.slot = wc.slot /\ m.preparing = p /\ m.queue = q /\ m.proc = f
    BY <1>1, <1>2, <1>3, <1>5, <1>7 DEF Shapes
  <1>9. Good(m, ns, T, ds, ps, as)
    <2>1. \A r \in Requests : m.proc[r] = v.proc[r] \/ m.proc[r] = EndProc(v.proc[r])
      BY <1>6, <1>7, <1>8
    <2> QED BY <1>5, <1>6, <1>8, <2>1, EndedProcessesAreGood
  <1> QED BY <1>2, <1>7, <1>8, <1>9 DEF m

\* The displayed request ended while it was published or its outcome was open.
LEMMA MarkedSlotIsGood ==
  ASSUME RequestsAssumption, NEW w, NEW ns, NEW T, NEW ds, NEW ps, NEW as,
         Good(w, ns, T, ds, ps, as), w.slot.req \in Requests,
         w.slot.req.topic \in ds \/ w.slot.req \in ps
  PROVE  LET u == [w EXCEPT !.slot.ended = TRUE]
         IN  /\ Good(u, ns, T, ds, ps, as) /\ u.slot.req = w.slot.req
             /\ u.slot.status = w.slot.status /\ u.preparing = w.preparing /\ u.proc = w.proc
  <1> DEFINE s == [w.slot EXCEPT !.ended = TRUE]
             u == [w EXCEPT !.slot.ended = TRUE]
  <1>1. w \in Shapes /\ SlotsInv(w) /\ OwnersInv(w) /\ Nobody \notin Requests
    BY DEF Good, RequestsAssumption
  <1>2. u = SetSlot(w, s)
    BY <1>1 DEF SetSlot, Shapes, Slots
  <1>3. /\ s \in Slots /\ s.req = w.slot.req /\ s.status = w.slot.status /\ s.ended
        /\ (s.local <=> w.slot.local) /\ s.checks = w.slot.checks
    BY <1>1 DEF Shapes, Slots
  <1> HIDE DEF s, u
  <1>4. SlotFits(w, w.slot, ns, T, ds, ps, as)
    BY OwnSlotFits
  <1>5. w.slot.status # "none" /\ s # NoSlot /\ w.slot # NoSlot
    BY <1>1, <1>3 DEF SlotsInv, NoSlot
  <1>6. ~Answered(as, s.req) /\ ~Queues(w.queue, s.req)
    BY <1>1, <1>3, <1>4 DEF SlotFits
  <1>7. SlotFits(w, s, ns, T, ds, ps, as)
    BY <1>3, <1>4, <1>5, <1>6 DEF SlotFits
  <1>8. s.status # "publishing" => w.proc[s.req].pc = "done"
    BY <1>1, <1>3 DEF OwnersInv
  <1>9. Good(SetSlot(w, s), ns, T, ds, ps, as)
    BY <1>3, <1>7, <1>8, SlotMoves
  <1>10. /\ SetSlot(w, s).slot = s /\ SetSlot(w, s).preparing = w.preparing
         /\ SetSlot(w, s).proc = w.proc
    BY <1>1, <1>3, SlotSet
  <1> QED BY <1>2, <1>3, <1>9, <1>10 DEF u

\* What Close does to the handlers.
LEMMA CloseFrame ==
  ASSUME RequestsAssumption, NEW w \in Shapes, w.slot.req \in Requests,
         NEW then \in {"silent", "tell", "tellAnyway"}
  PROVE  LET u == Close(w, then)
         IN  /\ u.slot = NoSlot /\ u.preparing = w.preparing
             /\ u.proc[w.slot.req].pc = "cancel"
             /\ \A x \in Requests \ {w.slot.req} : u.proc[x] = w.proc[x]
  <1> DEFINE k == At("cancel", Nobody, then)
             v == SetSlot(w, NoSlot)
             r == w.slot.req
  <1>1. k \in Processes /\ k.pc = "cancel" /\ NoSlot \in Slots
    BY Constants DEF At, Pcs, Thens
  <1>2. v \in Shapes /\ v.slot = NoSlot /\ v.preparing = w.preparing /\ v.proc = w.proc
    BY <1>1, SlotSet
  <1>3. Close(w, then) = SetProc(v, r, k) /\ r \in Requests
    BY DEF Close
  <1> HIDE DEF k, v, r
  <1>4. LET u == SetProc(v, r, k)
        IN  /\ u.slot = v.slot /\ u.preparing = v.preparing /\ u.proc[r] = k
            /\ \A x \in Requests \ {r} : u.proc[x] = v.proc[x]
    BY <1>1, <1>2, <1>3, ProcSet
  <1> QED BY <1>1, <1>2, <1>3, <1>4 DEF r

\* handleSessionEnded and handleRequestExpired, of the requests S.
LEMMA EndKeeps ==
  ASSUME RequestsAssumption, StoreInv, NEW S \in SUBSET Requests, End(S),
         dead \subseteq dead', passed \subseteq passed',
         \A r \in S : r.topic \in dead' \/ r \in passed',
         UNCHANGED <<notify, hold, journal, onChain, answers>>
  PROVE  StoreInv'
  <1> DEFINE m == Marked(S)
             U == told \cup {r \in S : wc.proc[r].pc # "new"}
  <1>1. Good(wc, notify, told, dead, passed, answers) /\ HoldInv(wc, hold) /\ wc \in Shapes
        /\ ToldInv(wc, told) /\ OwnersInv(wc) /\ SlotsInv(wc)
        /\ wc.slot \in Slots /\ wc.proc \in [Requests -> Processes]
        /\ wc.slot.req \in Requests \cup {Nobody} /\ Nobody \notin Requests
    BY DEF StoreInv, Good, Shapes, Slots, Someone, RequestsAssumption
  <1>2. /\ wc' = IF wc.slot.req \notin S THEN m
                 ELSE IF wc.slot.status \in {"awaiting", "error"} THEN Close(m, "silent")
                 ELSE [m EXCEPT !.slot.ended = TRUE]
        /\ told' = U
    BY DEF End
  <1>3. Good(wc, notify, told, dead', passed', answers)
    BY <1>1, EndsGrow
  <1>4. /\ Good(m, notify, told, dead', passed', answers) /\ m \in Shapes /\ m.slot = wc.slot
        /\ \A r \in Requests :
             m.proc[r] = IF r \in S THEN EndProc(wc.proc[r]) ELSE wc.proc[r]
        /\ m.preparing.req = wc.preparing.req /\ (m.preparing.marker <=> wc.preparing.marker)
        /\ wc.preparing.req \in S => m.preparing.ended
        /\ wc.preparing.ended => m.preparing.ended
    BY <1>3, MarkedIsGood
  <1> HIDE DEF m
  <1>5. \A r \in Requests :
          /\ wc.proc[r].pc # "waiting" =>
               /\ m.proc[r].pc = wc.proc[r].pc /\ m.proc[r].out = wc.proc[r].out
               /\ wc.proc[r].pc \in {"lookup", "looked"} /\ r \in S => m.proc[r].ended
               /\ wc.proc[r].ended => m.proc[r].ended
          /\ wc.proc[r].pc = "waiting" => m.proc[r] = wc.proc[r] \/ m.proc[r].pc = "done"
          /\ wc.proc[r].pc = "waiting" /\ r \in S => m.proc[r].pc = "done"
    BY <1>1, <1>4, EndedProcess
  <1>6. HoldInv(m, hold)
    BY <1>1, <1>4, <1>5 DEF HoldInv
  <1>7. /\ Good(wc', notify, told, dead', passed', answers) /\ HoldInv(wc', hold)
        /\ wc'.preparing = m.preparing
        /\ \A x \in Requests : wc'.proc[x] = m.proc[x] \/ wc'.proc[x].pc = "cancel"
        /\ wc'.slot.status = "awaiting" => wc.slot.status = "awaiting" /\ wc'.slot.req = wc.slot.req
                                           /\ wc.slot.req \notin S
    <2>1. CASE wc.slot.req \notin S
      BY <1>2, <1>4, <1>6, <2>1
    <2>2. CASE wc.slot.req \in S /\ wc.slot.status \in {"awaiting", "error"}
      <3>1. wc' = Close(m, "silent")
        BY <1>2, <2>2
      <3>2. Good(wc', notify, told, dead', passed', answers) /\ HoldInv(wc', hold)
        BY <1>4, <1>6, <2>2, <3>1, CloseIsGood
      <3>3. /\ wc'.slot = NoSlot /\ wc'.preparing = m.preparing
            /\ wc'.proc[m.slot.req].pc = "cancel"
            /\ \A x \in Requests \ {m.slot.req} : wc'.proc[x] = m.proc[x]
        BY <1>4, <2>2, <3>1, CloseFrame
      <3>4. NoSlot.status # "awaiting"
        BY DEF NoSlot
      <3> QED BY <3>2, <3>3, <3>4
    <2>3. CASE wc.slot.req \in S /\ wc.slot.status \notin {"awaiting", "error"}
      <3>1. wc' = [m EXCEPT !.slot.ended = TRUE]
        BY <1>2, <2>3
      <3>2. /\ Good(wc', notify, told, dead', passed', answers)
            /\ wc'.slot.req = m.slot.req /\ wc'.slot.status = m.slot.status
            /\ wc'.preparing = m.preparing /\ wc'.proc = m.proc
        BY <1>4, <2>3, <3>1, MarkedSlotIsGood
      <3>3. HoldInv(wc', hold)
        BY <1>6, <3>2 DEF HoldInv
      <3> QED BY <1>4, <2>3, <3>2, <3>3
    <2> QED BY <2>1, <2>2, <2>3
  <1>8. ToldInv(wc', U)
    <2>1. \A r \in U \cap Requests :
            /\ wc'.proc[r].pc \notin {"new", "waiting"}
            /\ wc'.proc[r].pc \in {"lookup", "looked"} => wc'.proc[r].ended
            /\ wc'.preparing.req = r /\ ~wc'.preparing.marker => wc'.preparing.ended
      <3> SUFFICES ASSUME NEW r \in Requests, r \in U
                   PROVE  /\ wc'.proc[r].pc \notin {"new", "waiting"}
                          /\ wc'.proc[r].pc \in {"lookup", "looked"} => wc'.proc[r].ended
                          /\ wc'.preparing.req = r /\ ~wc'.preparing.marker => wc'.preparing.ended
        OBVIOUS
      <3>1. r \in told \/ (r \in S /\ wc.proc[r].pc # "new")
        OBVIOUS
      <3>2. wc.proc[r].pc # "new" /\ (wc.proc[r].pc = "waiting" => r \in S)
        BY <1>1, <3>1 DEF ToldInv
      <3>3. wc.proc[r].pc \in {"lookup", "looked"} => m.proc[r].ended
        BY <1>1, <1>5, <3>1 DEF ToldInv
      <3>4. m.preparing.req = r /\ ~m.preparing.marker => m.preparing.ended
        BY <1>1, <1>4, <3>1 DEF ToldInv
      <3>5. m.proc[r].pc \notin {"new", "waiting"}
            /\ (m.proc[r].pc \in {"lookup", "looked"} => m.proc[r].ended)
        BY <1>5, <3>2, <3>3
      <3> QED BY <1>7, <3>4, <3>5
    <2>2. wc'.slot.status = "awaiting" => wc'.slot.req \notin U
      BY <1>1, <1>7 DEF ToldInv
    <2> QED BY <2>1, <2>2 DEF ToldInv
  <1>9. Good(wc', notify, U, dead', passed', answers)
    <2> HIDE DEF U
    <2> QED BY <1>7, <1>8, ToldGrows
  <1> QED BY <1>2, <1>7, <1>9 DEF StoreInv

LEMMA SessionEndedKeeps ==
  ASSUME RequestsAssumption, StoreInv, NEW t \in Topics, SessionEnded(t)
  PROVE  StoreInv'
  <1>1. /\ dead' = dead \cup {t} /\ End({r \in Requests : r.topic = t})
        /\ UNCHANGED <<notify, hold, journal, onChain, answers, passed>>
    BY DEF SessionEnded, backend
  <1> DEFINE S == {r \in Requests : r.topic = t}
  <1>2. S \in SUBSET Requests /\ \A r \in S : r.topic \in dead'
    BY <1>1
  <1> HIDE DEF S
  <1>3. End(S)
    BY <1>1 DEF S
  <1> QED BY <1>1, <1>2, <1>3, EndKeeps

LEMMA RequestExpiredKeeps ==
  ASSUME RequestsAssumption, StoreInv, passed \subseteq Requests, NEW i, RequestExpired(i)
  PROVE  StoreInv'
  <1> DEFINE S == Expired(i)
  <1>1. End(S) /\ UNCHANGED <<notify, hold, journal, onChain, answers, dead, passed>>
    BY DEF RequestExpired, backend, relay
  <1>2. S \in SUBSET Requests /\ \A r \in S : r \in passed'
    BY <1>1 DEF Expired
  <1> HIDE DEF S
  <1> QED BY <1>1, <1>2, EndKeeps

LEMMA DeadlinePassesKeeps ==
  ASSUME RequestsAssumption, StoreInv, NEW r \in Requests, DeadlinePasses(r)
  PROVE  StoreInv'
  <1>1. /\ passed' = passed \cup {r}
        /\ UNCHANGED <<wc, notify, hold, journal, onChain, answers, dead, told>>
    BY DEF DeadlinePasses, backend
  <1>2. Good(wc, notify, told, dead, passed, answers) /\ HoldInv(wc, hold)
    BY DEF StoreInv
  <1>3. Good(wc, notify, told, dead, passed', answers)
    BY <1>1, <1>2, EndsGrow
  <1> QED BY <1>1, <1>2, <1>3, OwnStep

\* A store that has just been started is good.
LEMMA StartIsGood ==
  ASSUME RequestsAssumption, NEW ds, NEW ps, NEW as \in [Requests -> Seq({"result", "error"})],
         MaxChecks <= 1 => \A r \in Requests : Len(as[r]) <= 1
  PROVE  Good(Store0, [r \in Requests |-> 0], {}, ds, ps, as) /\ HoldInv(Store0, Nobody)
  <1> DEFINE ns == [r \in Requests |-> 0]
             w == Store0
  <1>1. /\ NoSlot \in Slots /\ NoPreparation \in Preparations /\ NotArrived \in Processes
        /\ Nobody \notin Requests
    BY Constants
  <1>2. /\ NoSlot.req = Nobody /\ NoSlot.status = "none" /\ ~NoSlot.local /\ ~NoSlot.ended
        /\ NoSlot.checks = 0 /\ NoPreparation.req = Nobody /\ ~NoPreparation.ended
        /\ NotArrived.pc = "new" /\ NotArrived.then = "stop"
    BY DEF NoSlot, NoPreparation, Preparation, NotArrived, At
  <1>3. /\ w.slot = NoSlot /\ w.preparing = NoPreparation /\ w.queue = <<>> /\ Len(w.queue) = 0
        /\ \A r \in Requests : w.proc[r] = NotArrived
    BY DEF Store0
  <1>4. w \in Shapes
    BY <1>1 DEF Store0, Shapes
  <1>5. ns \in [Requests -> Nat] /\ \A r \in Requests : ns[r] = 0
    OBVIOUS
  <1> HIDE DEF w, ns
  <1>6. SlotsInv(w) /\ OwnersInv(w) /\ NotifyInv(w, ns) /\ ToldInv(w, {}) /\ EndInv(w, ds, ps)
    BY <1>1, <1>2, <1>3, <1>5 DEF SlotsInv, OwnersInv, NotifyInv, ToldInv, EndInv
  <1>7. QueueInv(w, ns)
    BY <1>3 DEF QueueInv
  <1>8. AnsweredInv(w, as)
    <2>1. \A r \in Requests : ~Queues(w.queue, r)
      BY <1>3 DEF Queues
    <2> QED BY <1>1, <1>2, <1>3, <2>1 DEF AnsweredInv
  <1>9. OnceInv(w, ns, as)
    <2>1. ~(w.slot.checks > 0)
      BY <1>2, <1>3
    <2>2. \A r \in Requests : ~(ns[r] > 0)
      BY <1>5
    <2> QED BY <2>1, <2>2 DEF OnceInv
  <1>10. HoldInv(w, Nobody)
    BY <1>1 DEF HoldInv
  <1> QED BY <1>4, <1>5, <1>6, <1>7, <1>8, <1>9, <1>10 DEF Good, w, ns

LEMMA RestartKeeps ==
  ASSUME RequestsAssumption, StoreInv, Restart
  PROVE  StoreInv'
  <1>1. /\ wc' = Store0 /\ notify' = [r \in Requests |-> 0] /\ hold' = Nobody /\ told' = {}
        /\ UNCHANGED <<journal, onChain, answers, dead, passed>>
    BY DEF Restart, relay
  <1>2. answers \in [Requests -> Seq({"result", "error"})] /\ OnceInv(wc, notify, answers)
        /\ JournalFits(journal) /\ onChain \subseteq Requests
    BY DEF StoreInv, Good
  <1>3. MaxChecks <= 1 => \A r \in Requests : Len(answers[r]) <= 1
    BY <1>2 DEF OnceInv
  <1>4. Good(Store0, [r \in Requests |-> 0], {}, dead, passed, answers)
        /\ HoldInv(Store0, Nobody)
    BY <1>2, <1>3, StartIsGood
  <1> QED BY <1>1, <1>2, <1>4 DEF StoreInv, Someone

-----------------------------------------------------------------------------
(* The invariant.                                                          *)

\* The journal an earlier run may have left is of requests.
LEMMA InitKeeps ==
  ASSUME RequestsAssumption, Init
  PROVE  StoreInv /\ passed \subseteq Requests
  <1>1. /\ wc = Store0 /\ notify = [r \in Requests |-> 0] /\ hold = Nobody
        /\ answers = [r \in Requests |-> <<>>] /\ dead = {} /\ passed = {} /\ told = {}
    BY DEF Init
  <1>2. answers \in [Requests -> Seq({"result", "error"})]
        /\ \A r \in Requests : Len(answers[r]) <= 1
    BY <1>1
  <1>3. Good(Store0, [r \in Requests |-> 0], {}, dead, passed, answers)
        /\ HoldInv(Store0, Nobody)
    BY <1>2, StartIsGood
  <1>4. \E S \in SUBSET Earlier : \E state \in [S -> J!States] :
          /\ journal = [k \in {Key(r) : r \in S} |->
                          LET r == CHOOSE q \in S : Key(q) = k IN RecordOf(r, state[r])]
          /\ \E C \in SUBSET S : onChain = C \cup {r \in S : state[r] = "published"}
    BY DEF Init
  <1>s. PICK S \in SUBSET Earlier : \E state \in [S -> J!States] :
          /\ journal = [k \in {Key(r) : r \in S} |->
                          LET r == CHOOSE q \in S : Key(q) = k IN RecordOf(r, state[r])]
          /\ \E C \in SUBSET S : onChain = C \cup {r \in S : state[r] = "published"}
    BY <1>4
  <1>5. PICK state \in [S -> J!States] :
          /\ journal = [k \in {Key(r) : r \in S} |->
                          LET r == CHOOSE q \in S : Key(q) = k IN RecordOf(r, state[r])]
          /\ \E C \in SUBSET S : onChain = C \cup {r \in S : state[r] = "published"}
    BY <1>s
  <1>6. S \subseteq Requests
    BY DEF RequestsAssumption
  <1>7. onChain \subseteq Requests
    BY <1>5, <1>6
  <1>8. JournalFits(journal)
    <2> DEFINE D == {Key(r) : r \in S}
               own(k) == CHOOSE q \in S : Key(q) = k
    <2>1. D \in SUBSET {Key(r) : r \in Requests}
      BY <1>6
    <2>2. \A k \in D : own(k) \in S
      OBVIOUS
    <2>3. \A q \in S :
            RecordOf(q, state[q]) \in [intent : {J!IntentOf(r) : r \in Requests}, state : J!States]
      BY <1>6 DEF RecordOf
    <2>4. journal = [k \in D |-> RecordOf(own(k), state[own(k)])]
      BY <1>5
    <2> HIDE DEF own, D
    <2>5. journal \in [D -> [intent : {J!IntentOf(r) : r \in Requests}, state : J!States]]
      BY <2>2, <2>3, <2>4
    <2> QED BY <2>1, <2>5 DEF JournalFits
  <1> QED BY <1>1, <1>3, <1>7, <1>8 DEF StoreInv, Someone

LEMMA HandlerKeeps ==
  ASSUME RequestsAssumption, StoreInv, NEW r \in Requests, Handler(r)
  PROVE  StoreInv'
  BY LookupRunsKeeps, LookupAnsweredKeeps, RetryFailedLookupKeeps, FailAnsweredKeeps,
     RefusedKeeps, PrepareRunsKeeps, PrepareAnsweredKeeps, CancelPreparedKeeps,
     ReplayDeliveredKeeps, ReplayFailsKeeps, ConfirmRunsKeeps, ConfirmAnsweredKeeps,
     CancelPendingKeeps, ToldKeeps DEF Handler

LEMMA UserKeeps ==
  ASSUME RequestsAssumption, BoundsAssumption, StoreInv, User
  PROVE  StoreInv'
  BY ApproveRequestKeeps, RejectRequestKeeps, RetryPublishedResponseKeeps,
     ReconcileRequestKeeps, AcknowledgeRecoveredKeeps, ClearPublishedRequestKeeps,
     WalletLockedKeeps, UpdateAccountKeeps DEF User

LEMMA StutterKeeps ==
  ASSUME StoreInv, UNCHANGED vars
  PROVE  StoreInv'
  <1>1. UNCHANGED <<wc, notify, hold, journal, onChain, answers, dead, passed, told>>
    BY DEF vars, backend, relay
  <1> QED BY <1>1 DEF StoreInv

\* Deadlines pass for requests only.
LEMMA PassedKeeps ==
  ASSUME passed \subseteq Requests, [Next]_vars
  PROVE  passed' \subseteq Requests
  <1>1. CASE \E r \in Requests : DeadlinePasses(r)
    BY <1>1 DEF DeadlinePasses
  <1>2. CASE UNCHANGED passed
    BY <1>2
  <1>3. (\E r \in Requests : DeadlinePasses(r)) \/ UNCHANGED passed
    <2>1. CASE UNCHANGED vars
      BY <2>1 DEF vars, relay
    <2>2. CASE \E r \in Requests : HandleRequest(r) \/ Handler(r) \/ Notification(r)
      BY <2>2 DEF HandleRequest, Handler, Notification, Notified, NotifyFails, LookupRuns,
                  LookupAnswered, RetryFailedLookup, FailAnswered, Refused, PrepareRuns,
                  PrepareAnswered, CancelPrepared, ReplayDelivered, ReplayFails, ConfirmRuns,
                  ConfirmAnswered, CancelPending, Told, relay
    <2>3. CASE User \/ Reconciled \/ ReconcileFails
      BY <2>3 DEF User, Reconciled, ReconcileFails, ApproveRequest, RejectRequest,
                  RetryPublishedResponse, ReconcileRequest, AcknowledgeRecovered,
                  ClearPublishedRequest, WalletLocked, UpdateAccount, relay
    <2>4. CASE \/ \E t \in Topics : SessionEnded(t)
               \/ \E i \in {r.id : r \in Requests} : RequestExpired(i)
               \/ Restart
      BY <2>4 DEF SessionEnded, RequestExpired, Restart, relay
    <2> QED BY <2>1, <2>2, <2>3, <2>4 DEF Next
  <1> QED BY <1>1, <1>2, <1>3

\* Every step keeps the invariant.
LEMMA NextKeeps ==
  ASSUME RequestsAssumption, BoundsAssumption, StoreInv, passed \subseteq Requests, [Next]_vars
  PROVE  StoreInv'
  <1>1. CASE UNCHANGED vars
    BY <1>1, StutterKeeps
  <1>2. ASSUME NEW r \in Requests,
               HandleRequest(r) \/ Handler(r) \/ Notification(r) \/ DeadlinePasses(r)
        PROVE  StoreInv'
    BY <1>2, HandleRequestKeeps, HandlerKeeps, NotifiedKeeps, NotifyFailsKeeps,
       DeadlinePassesKeeps DEF Notification
  <1>3. CASE User \/ Reconciled \/ ReconcileFails
    BY <1>3, UserKeeps, ReconciledKeeps, ReconcileFailsKeeps
  <1>4. CASE \/ \E t \in Topics : SessionEnded(t)
             \/ \E i \in {r.id : r \in Requests} : RequestExpired(i)
             \/ Restart
    BY <1>4, SessionEndedKeeps, RequestExpiredKeeps, RestartKeeps
  <1> QED BY <1>1, <1>2, <1>3, <1>4 DEF Next

\* The inductive invariant: the slots, the queue, the handlers, the notifications
\* and the answers of walletconnect.ts fit together after any steps.
THEOREM StoreInvariant ==
  ASSUME RequestsAssumption, BoundsAssumption
  PROVE  Spec => []StoreInv
  <1> DEFINE Inv == StoreInv /\ passed \subseteq Requests
  <1>1. Init => Inv
    BY InitKeeps
  <1>2. Inv /\ [Next]_vars => Inv'
    BY NextKeeps, PassedKeeps
  <1>3. Inv => StoreInv
    OBVIOUS
  <1> HIDE DEF Inv
  <1> QED BY <1>1, <1>2, <1>3, PTL DEF Spec

\* The store's state, its module-level maps and the backend keep their types
\* (walletconnect.ts:246-256).
THEOREM StoreTypes ==
  ASSUME RequestsAssumption, BoundsAssumption
  PROVE  Spec => []TypeOK
  <1>1. ASSUME StoreInv PROVE TypeOK
    <2>1. /\ wc \in Shapes /\ notify \in [Requests -> Nat] /\ SlotsInv(wc) /\ JournalFits(journal)
          /\ hold \in Someone /\ onChain \subseteq Requests
      BY <1>1 DEF StoreInv, Good
    <2>2. /\ wc.slot.status \in Statuses /\ wc.slot.req \in Someone
          /\ wc.preparing.req \in Someone /\ \A r \in Requests : wc.proc[r].pc \in Pcs
      BY <2>1 DEF Shapes, Slots, Preparations, Processes
    <2>3. \A k \in DOMAIN journal : journal[k].state \in J!States
      BY <2>1 DEF JournalFits
    <2> QED BY <2>1, <2>2, <2>3 DEF TypeOK, SlotsInv, Statuses, Someone, Pcs
  <1> QED BY <1>1, StoreInvariant, PTL

\* Every hold is one the dialog shows, or one whose handler is about to show or
\* release it: no end, lock, switch, refusal or restart strands it
\* (cancelPrepared and closeRequest's callers in walletconnect.ts).
THEOREM HoldsNeverStranded ==
  ASSUME RequestsAssumption, BoundsAssumption
  PROVE  Spec => []NoStrandedHold
  <1>1. StoreInv => NoStrandedHold
    BY DEF StoreInv, HoldInv, NoStrandedHold
  <1> QED BY <1>1, StoreInvariant, PTL

\* A request whose end the store was told is never up for approval, whatever
\* await the news fell into (walletconnect.ts:80-84).
THEOREM EndedNeverApproved ==
  ASSUME RequestsAssumption, BoundsAssumption
  PROVE  Spec => []EndedNeverApprovable
  <1>1. StoreInv => EndedNeverApprovable
    BY DEF StoreInv, Good, ToldInv, EndedNeverApprovable
  <1> QED BY <1>1, StoreInvariant, PTL

\* A request is ended only by its own session or its own deadline, although
\* request ids collide between sessions (walletconnect.ts:135-145).
THEOREM EndsAreOwn ==
  ASSUME RequestsAssumption, BoundsAssumption
  PROVE  Spec => []OnlyOwnEnd
  <1>1. StoreInv => OnlyOwnEnd
    BY DEF StoreInv, Good, EndInv, OnlyOwnEnd
  <1> QED BY <1>1, StoreInvariant, PTL

\* While "Check outcome" is pressed once at a time, no request is answered twice,
\* although replays, retries and notifications of one request may follow each
\* other (walletconnect.ts:1077-1078).
THEOREM AnsweredOnce ==
  ASSUME RequestsAssumption, BoundsAssumption, MaxChecks <= 1
  PROVE  Spec => []OneAnswer
  <1>1. ASSUME StoreInv PROVE OneAnswer
    <2>1. OnceInv(wc, notify, answers)
      BY <1>1 DEF StoreInv, Good
    <2> QED BY <2>1 DEF OnceInv, OneAnswer
  <1> QED BY <1>1, StoreInvariant, PTL

-----------------------------------------------------------------------------
(* The journal's records and the store.  Another request for the same      *)
(* transfer may be answered from r's record, delete it, or be prepared     *)
(* when it is gone; the results below are about requests no two of which   *)
(* ask for the same transfer.                                              *)

OwnIntents == \A q, r \in Requests : J!IntentOf(q) = J!IntentOf(r) => q = r

\* r's own record is in the journal j.
Journaled(j, r) == Key(r) \in DOMAIN j /\ j[Key(r)].intent = J!IntentOf(r)

\* The requests whose block is not on chain and not journaled, those that are
\* journaled, and those whose key no other request's record has taken.
Unpublished(j, chain) == {r \in Requests : r \notin chain /\ ~Journaled(j, r)}
Recorded(j) == {r \in Requests : Journaled(j, r)}
Unclaimed(j) == {r \in Requests : Key(r) \in DOMAIN j => Journaled(j, r)}

\* A handler that may still refuse r, or publish it, finds it unpublished, and
\* one that may replay r finds its record; A are the requests that arrived.
ProcFair(r, k, U, R, C, A) ==
  /\ k.pc # "new" <=> r \in A
  /\ k.pc # "refuse"
  /\ k.pc = "looked" => k.out # "duplicate"
  /\ k.pc = "prepared" => k.out \in {"prepare", "error"}
  /\ k.pc \in {"fail", "prepare", "prepared", "cancelPrepared", "confirm", "cancel", "tell"} =>
       r \in U
  /\ k.pc = "looked" /\ k.out \in {"none", "conflict"} => r \in U
  /\ k.pc = "confirmed" => r \in (IF k.out = "error" THEN U ELSE R)
  /\ k.pc \in {"prepare", "prepared", "cancelPrepared", "confirm", "confirmed"} => r \in C
  /\ k.pc = "looked" /\ k.out = "none" => r \in C
  /\ \/ k.pc = "deliver"
     \/ k.pc = "looked" /\ k.out \in {"published", "unknown"}
     => r \in R /\ k.key = Key(r)
  /\ k.pc = "prepared" /\ k.out = "prepare" => k.key = Key(r)

\* The same of the dialog, which shows no record but of a request.
SlotFair(s, U, R, C, A) ==
  /\ ~s.local /\ s.status # "recovered"
  /\ s.req \in Requests => s.req \in C \cap A /\ s.key = Key(s.req)
  /\ s.status \in {"awaiting", "error"} => s.req \in U
  /\ s.status \notin {"none", "awaiting", "publishing", "error"} => s.req \in R

EntryFair(e, R, A) == ~e.local /\ e.req \in R \cap A /\ e.key = Key(e.req)

Fair(w, ns, U, R, C, A) ==
  /\ w \in Shapes /\ R \subseteq C /\ R \subseteq Requests
  /\ \A r \in Requests : ProcFair(r, w.proc[r], U, R, C, A)
  /\ SlotFair(w.slot, U, R, C, A)
  /\ \A i \in 1..Len(w.queue) : EntryFair(w.queue[i], R, A)
  /\ \A r \in Requests : ns[r] > 0 => r \in C \cap A

Arrived(w) == {r \in Requests : w.proc[r].pc # "new"}

Erred(as, r) == \E i \in 1..Len(as[r]) : as[r][i] = "error"

KeptInv ==
  /\ Fair(wc, notify, Unpublished(journal, onChain), Recorded(journal), Unclaimed(journal),
          Arrived(wc))
  /\ \A q, r \in Arrived(wc) : Key(q) = Key(r) => q = r
  /\ \A k \in DOMAIN journal : \E r \in Requests : Key(r) = k /\ Journaled(journal, r)
  /\ hold # Nobody => hold \in Unpublished(journal, onChain) /\ Key(hold) \notin DOMAIN journal
  /\ \A r \in Requests : Erred(answers, r) => r \in Unpublished(journal, onChain)
  /\ \A r \in onChain : ~Answered(answers, r) => Journaled(journal, r)

\* What a store that fits the records may do and still fit them: the setters, the
\* queue, and the operators of walletconnect.ts built from them.
LEMMA FairProc ==
  ASSUME NEW w, NEW ns, NEW U, NEW R, NEW C, NEW A, Fair(w, ns, U, R, C, A),
         NEW r \in Requests, NEW k \in Processes, ProcFair(r, k, U, R, C, A)
  PROVE  Fair(SetProc(w, r, k), ns, U, R, C, A)
  <1> DEFINE u == SetProc(w, r, k)
  <1>1. /\ u \in Shapes /\ u.proc[r] = k /\ \A x \in Requests \ {r} : u.proc[x] = w.proc[x]
        /\ u.slot = w.slot /\ u.preparing = w.preparing /\ u.queue = w.queue
    BY ProcSet DEF Fair
  <1> HIDE DEF u
  <1> QED BY <1>1 DEF Fair, u

LEMMA FairSlot ==
  ASSUME NEW w, NEW ns, NEW U, NEW R, NEW C, NEW A, Fair(w, ns, U, R, C, A),
         NEW s \in Slots, SlotFair(s, U, R, C, A)
  PROVE  Fair(SetSlot(w, s), ns, U, R, C, A)
  <1> DEFINE u == SetSlot(w, s)
  <1>1. /\ u \in Shapes /\ u.slot = s
        /\ u.preparing = w.preparing /\ u.queue = w.queue /\ u.proc = w.proc
    BY SlotSet DEF Fair
  <1> HIDE DEF u
  <1> QED BY <1>1 DEF Fair, u

LEMMA FairPreparing ==
  ASSUME NEW w, NEW ns, NEW U, NEW R, NEW C, NEW A, Fair(w, ns, U, R, C, A),
         NEW p \in Preparations
  PROVE  Fair(SetPreparing(w, p), ns, U, R, C, A)
  <1> DEFINE u == SetPreparing(w, p)
  <1>1. u \in Shapes /\ u.slot = w.slot /\ u.queue = w.queue /\ u.proc = w.proc
    BY PreparingSet DEF Fair
  <1> HIDE DEF u
  <1> QED BY <1>1 DEF Fair, u

LEMMA FairQueue ==
  ASSUME NEW w, NEW ns, NEW U, NEW R, NEW C, NEW A, Fair(w, ns, U, R, C, A),
         NEW q \in Seq(Waiting), \A i \in 1..Len(q) : EntryFair(q[i], R, A)
  PROVE  Fair([w EXCEPT !.queue = q], ns, U, R, C, A)
  <1> DEFINE u == [w EXCEPT !.queue = q]
  <1>1. u \in Shapes /\ u.queue = q /\ u.slot = w.slot /\ u.proc = w.proc
    BY QueueSet DEF Fair
  <1> HIDE DEF u
  <1> QED BY <1>1 DEF Fair, u

LEMMA FairWithout ==
  ASSUME NEW w, NEW ns, NEW U, NEW R, NEW C, NEW A, Fair(w, ns, U, R, C, A), NEW gone
  PROVE  LET p == Without(w.queue, gone)
         IN  p \in Seq(Waiting) /\ \A i \in 1..Len(p) : EntryFair(p[i], R, A)
  <1> DEFINE p == Without(w.queue, gone)
  <1>1. w.queue \in Seq(Waiting) /\ \A i \in 1..Len(w.queue) : EntryFair(w.queue[i], R, A)
    BY DEF Fair, Shapes
  <1>2. p \in Seq(Waiting) /\ PartOf(p, w.queue, gone)
    BY <1>1, WithoutParts
  <1> HIDE DEF p
  <1>3. PICK at \in [1..Len(p) -> 1..Len(w.queue)] :
          \A i \in 1..Len(p) : p[i] = w.queue[at[i]]
    BY <1>2 DEF PartOf
  <1>4. \A i \in 1..Len(p) : EntryFair(p[i], R, A)
    BY <1>1, <1>3
  <1> QED BY <1>2, <1>4 DEF p

LEMMA FairEnqueue ==
  ASSUME NEW w, NEW ns, NEW U, NEW R, NEW C, NEW A, Fair(w, ns, U, R, C, A),
         NEW e \in Waiting, EntryFair(e, R, A)
  PROVE  Fair(Enqueue(w, e), ns, U, R, C, A)
  <1> DEFINE same == {x \in Queued(w.queue) : EntryAt(x) = EntryAt(e)}
             p == Without(w.queue, same)
             q == Append(p, e)
  <1>1. Enqueue(w, e) = [w EXCEPT !.queue = q]
    BY DEF Enqueue
  <1> HIDE DEF same
  <1>2. p \in Seq(Waiting) /\ \A i \in 1..Len(p) : EntryFair(p[i], R, A)
    BY FairWithout
  <1> HIDE DEF p
  <1>3. q \in Seq(Waiting) /\ \A i \in 1..Len(q) : q[i] = e \/ (i \in 1..Len(p) /\ q[i] = p[i])
    BY <1>2
  <1> HIDE DEF q
  <1>4. \A i \in 1..Len(q) : EntryFair(q[i], R, A)
    BY <1>2, <1>3
  <1> QED BY <1>1, <1>3, <1>4, FairQueue

LEMMA FairFinish ==
  ASSUME RequestsAssumption,
         NEW w, NEW ns, NEW U, NEW R, NEW C, NEW A, Fair(w, ns, U, R, C, A),
         NEW r \in Requests, r \in A
  PROVE  Fair(Finish(w, r), ns, U, R, C, A)
  <1>1. Settled \in Processes /\ ProcFair(r, Settled, U, R, C, A)
    BY Constants DEF ProcFair, Settled, At
  <1> QED BY <1>1, FairProc DEF Finish

LEMMA FairShow ==
  ASSUME NEW w, NEW ns, NEW U, NEW R, NEW C, NEW A, Fair(w, ns, U, R, C, A),
         NEW e \in Entries, ~e.local, e.req \in C \cap A, e.req \in Requests, e.key = Key(e.req),
         NEW t \in Statuses, t \in {"unknown", "delivery-error", "awaiting"},
         t # "awaiting" => e.req \in R,
         t = "awaiting" => e.req \in U,
         NEW ended \in BOOLEAN
  PROVE  Fair(Show(w, e, t, ended), ns, U, R, C, A)
  <1> DEFINE s == [req |-> e.req, key |-> e.key, status |-> t, ended |-> ended,
                   local |-> e.local, checks |-> 0]
  <1>1. Show(w, e, t, ended) = SetSlot(w, s) /\ s \in Slots
    BY ShowFrame DEF Fair
  <1>2. s.req = e.req /\ s.key = e.key /\ s.status = t /\ (s.local <=> e.local)
    OBVIOUS
  <1> HIDE DEF s
  <1>3. SlotFair(s, U, R, C, A)
    BY <1>2 DEF SlotFair
  <1> QED BY <1>1, <1>3, FairSlot

LEMMA FairDelivery ==
  ASSUME RequestsAssumption,
         NEW w, NEW ns, NEW U, NEW R, NEW C, NEW A, Fair(w, ns, U, R, C, A),
         NEW r \in Requests, r \in R \cap A, NEW then \in Thens
  PROVE  Fair(BeginDelivery(w, r, Key(r), then), ns, U, R, C, A)
  <1> DEFINE k == At("deliver", Key(r), then)
             d == SetProc(w, r, k)
             p == Preparation(r, TRUE)
  <1>1. k \in Processes /\ k.pc = "deliver" /\ k.key = Key(r) /\ p \in Preparations
    BY Constants DEF At, Pcs
  <1>2. BeginDelivery(w, r, Key(r), then) \in {d, SetPreparing(d, p)}
    BY DEF BeginDelivery
  <1> HIDE DEF k, p
  <1>3. ProcFair(r, k, U, R, C, A)
    BY <1>1 DEF ProcFair
  <1>4. Fair(d, ns, U, R, C, A)
    BY <1>1, <1>3, FairProc
  <1>5. Fair(SetPreparing(d, p), ns, U, R, C, A)
    BY <1>1, <1>4, FairPreparing
  <1> QED BY <1>2, <1>4, <1>5

LEMMA FairDrain ==
  ASSUME RequestsAssumption,
         NEW w, NEW ns, NEW U, NEW R, NEW C, NEW A, Fair(w, ns, U, R, C, A)
  PROVE  Fair(Drain(w), ns, U, R, C, A)
  <1>1. CASE Busy(w) \/ w.queue = <<>>
    BY <1>1 DEF Drain
  <1>2. CASE ~Busy(w) /\ w.queue # <<>>
    <2> DEFINE q == w.queue
               e == Head(q)
               rest == [w EXCEPT !.queue = Tail(q)]
    <2>1. q \in Seq(Waiting) /\ q # <<>> /\ \A i \in 1..Len(q) : EntryFair(q[i], R, A)
      BY <1>2 DEF Fair, Shapes
    <2>2. Drain(w) = IF e.out = "published" THEN BeginDelivery(rest, e.req, e.key, "drain")
                     ELSE Show(rest, e, "unknown", FALSE)
      BY <1>2 DEF Drain
    <2>3. e \in Waiting /\ EntryFair(e, R, A) /\ Tail(q) \in Seq(Waiting)
          /\ \A i \in 1..Len(Tail(q)) : EntryFair(Tail(q)[i], R, A)
      <3> HIDE DEF q
      <3>1. e = q[1] /\ 1 \in 1..Len(q) /\ e \in Waiting /\ Tail(q) \in Seq(Waiting)
            /\ \A i \in 1..Len(Tail(q)) : i + 1 \in 1..Len(q) /\ Tail(q)[i] = q[i + 1]
        BY <2>1
      <3> QED BY <2>1, <3>1
    <2>4. Fair(rest, ns, U, R, C, A)
      <3> DEFINE p == Tail(q)
      <3>1. p \in Seq(Waiting) /\ \A i \in 1..Len(p) : EntryFair(p[i], R, A)
        BY <2>3
      <3> HIDE DEF p
      <3>2. Fair([w EXCEPT !.queue = p], ns, U, R, C, A)
        BY <3>1, FairQueue
      <3> QED BY <3>2 DEF p
    <2> HIDE DEF q, e, rest
    <2>5. /\ ~e.local /\ e.req \in R \cap A /\ e.key = Key(e.req) /\ e.req \in Requests
          /\ e.req \in C \cap A /\ e \in Entries
      BY <2>3, WaitingEntries DEF EntryFair, Fair
    <2>6. Fair(BeginDelivery(rest, e.req, Key(e.req), "drain"), ns, U, R, C, A)
      BY <2>4, <2>5, FairDelivery DEF Thens
    <2>7. Fair(Show(rest, e, "unknown", FALSE), ns, U, R, C, A)
      BY <2>4, <2>5, FairShow DEF Statuses
    <2> QED BY <2>2, <2>5, <2>6, <2>7
  <1> QED BY <1>1, <1>2

LEMMA FairStatus ==
  ASSUME NEW w, NEW ns, NEW U, NEW R, NEW C, NEW A, Fair(w, ns, U, R, C, A),
         NEW t \in Statuses, t # "recovered",
         t \in {"awaiting", "error"} => w.slot.req \in U,
         t \notin {"none", "awaiting", "publishing", "error"} => w.slot.req \in R
  PROVE  Fair(SetStatus(w, t), ns, U, R, C, A)
  <1> DEFINE s == [w.slot EXCEPT !.status = t]
  <1>1. /\ SetStatus(w, t) = SetSlot(w, s) /\ s \in Slots /\ s.status = t
        /\ s.req = w.slot.req /\ s.key = w.slot.key /\ (s.local <=> w.slot.local)
    BY StatusSet DEF Fair
  <1> HIDE DEF s
  <1>2. SlotFair(s, U, R, C, A)
    BY <1>1 DEF Fair, SlotFair
  <1> QED BY <1>1, <1>2, FairSlot

LEMMA FairGoto ==
  ASSUME NEW w, NEW ns, NEW U, NEW R, NEW C, NEW A, Fair(w, ns, U, R, C, A),
         NEW r \in Requests, r \in A,
         NEW pc \in Pcs, pc \in {"lookup", "waiting", "fail", "cancelPrepared", "tell"},
         pc \in {"fail", "cancelPrepared", "tell"} => r \in U,
         pc = "cancelPrepared" => r \in C
  PROVE  Fair(Goto(w, r, pc), ns, U, R, C, A)
  <1> DEFINE k == [w.proc[r] EXCEPT !.pc = pc]
  <1>1. w.proc[r] \in Processes
    BY DEF Fair, Shapes
  <1>2. k \in Processes /\ k.pc = pc
    BY <1>1, PcSet
  <1>3. Goto(w, r, pc) = SetProc(w, r, k)
    BY DEF Goto
  <1> HIDE DEF k
  <1>4. ProcFair(r, k, U, R, C, A)
    BY <1>2 DEF ProcFair
  <1> QED BY <1>2, <1>3, <1>4, FairProc

LEMMA FairRelease ==
  ASSUME RequestsAssumption,
         NEW w, NEW ns, NEW U, NEW R, NEW C, NEW A, Fair(w, ns, U, R, C, A), NEW r
  PROVE  Fair(Release(w, r), ns, U, R, C, A)
  <1>1. NoPreparation \in Preparations
    BY Constants
  <1>2. Fair(SetPreparing(w, NoPreparation), ns, U, R, C, A)
    BY <1>1, FairPreparing
  <1>3. Fair(Drain(SetPreparing(w, NoPreparation)), ns, U, R, C, A)
    BY <1>2, FairDrain
  <1> QED BY <1>3 DEF Release

LEMMA FairLeave ==
  ASSUME RequestsAssumption,
         NEW w, NEW ns, NEW U, NEW R, NEW C, NEW A, Fair(w, ns, U, R, C, A),
         NEW r \in Requests, r \in A
  PROVE  Fair(Leave(w, r), ns, U, R, C, A)
  <1>1. Fair(Finish(w, r), ns, U, R, C, A)
    BY FairFinish
  <1>2. Fair(Release(Finish(w, r), r), ns, U, R, C, A)
    BY <1>1, FairRelease
  <1> QED BY <1>1, <1>2 DEF Leave

LEMMA FairAfterDelivery ==
  ASSUME RequestsAssumption,
         NEW w, NEW ns, NEW U, NEW R, NEW C, NEW A, Fair(w, ns, U, R, C, A),
         NEW r \in Requests, r \in A, NEW then
  PROVE  Fair(AfterDelivery(w, r, then), ns, U, R, C, A)
  <1>1. Fair(Finish(w, r), ns, U, R, C, A)
    BY FairFinish
  <1>2. Fair(Release(Finish(w, r), r), ns, U, R, C, A) /\ Fair(Drain(Finish(w, r)), ns, U, R, C, A)
    BY <1>1, FairRelease, FairDrain
  <1> QED BY <1>1, <1>2 DEF AfterDelivery

LEMMA FairClear ==
  ASSUME RequestsAssumption,
         NEW w, NEW ns, NEW U, NEW R, NEW C, NEW A, Fair(w, ns, U, R, C, A)
  PROVE  Fair(SetSlot(w, NoSlot), ns, U, R, C, A)
  <1>1. NoSlot \in Slots /\ SlotFair(NoSlot, U, R, C, A)
    BY Constants DEF SlotFair, NoSlot
  <1> QED BY <1>1, FairSlot

LEMMA FairClose ==
  ASSUME RequestsAssumption,
         NEW w, NEW ns, NEW U, NEW R, NEW C, NEW A, Fair(w, ns, U, R, C, A),
         w.slot.req \in Requests, w.slot.req \in U,
         NEW then \in Thens
  PROVE  Fair(Close(w, then), ns, U, R, C, A)
  <1> DEFINE k == At("cancel", Nobody, then)
             v == SetSlot(w, NoSlot)
             r == w.slot.req
  <1>1. k \in Processes /\ k.pc = "cancel"
    BY Constants DEF At, Pcs
  <1>2. Fair(v, ns, U, R, C, A)
    BY FairClear
  <1>3. Close(w, then) = SetProc(v, r, k) /\ r \in Requests /\ r \in A /\ r \in U
    BY DEF Close, Fair, SlotFair
  <1> HIDE DEF k, v, r
  <1>4. ProcFair(r, k, U, R, C, A)
    BY <1>1, <1>3 DEF ProcFair
  <1> QED BY <1>1, <1>2, <1>3, <1>4, FairProc

LEMMA FairUnmarked ==
  ASSUME RequestsAssumption,
         NEW w, NEW ns, NEW U, NEW R, NEW C, NEW A, Fair(w, ns, U, R, C, A), NEW r
  PROVE  Fair(Unmarked(w, r), ns, U, R, C, A)
  <1>1. NoPreparation \in Preparations
    BY Constants
  <1>2. Fair(SetPreparing(w, NoPreparation), ns, U, R, C, A)
    BY <1>1, FairPreparing
  <1> QED BY <1>2 DEF Unmarked

LEMMA FairCut ==
  ASSUME NEW w, NEW ns, NEW U, NEW R, NEW C, NEW A, Fair(w, ns, U, R, C, A)
  PROVE  Fair(CutPreparation(w), ns, U, R, C, A) /\ CutPreparation(w).slot = w.slot
  <1> DEFINE p == [w.preparing EXCEPT !.cancelled = TRUE]
  <1>1. w \in Shapes /\ w.preparing \in Preparations
    BY DEF Fair, Shapes
  <1>2. p \in Preparations
    BY <1>1 DEF Preparations
  <1>3. [w EXCEPT !.preparing.cancelled = TRUE] = SetPreparing(w, p)
    BY <1>1 DEF SetPreparing, Shapes, Preparations
  <1> HIDE DEF p
  <1>4. Fair(SetPreparing(w, p), ns, U, R, C, A) /\ SetPreparing(w, p).slot = w.slot
    BY <1>1, <1>2, FairPreparing, PreparingSet
  <1> QED BY <1>3, <1>4 DEF CutPreparation

LEMMA FairChecks ==
  ASSUME NEW w, NEW ns, NEW U, NEW R, NEW C, NEW A, Fair(w, ns, U, R, C, A), NEW c \in Nat
  PROVE  /\ Fair([w EXCEPT !.slot.checks = c], ns, U, R, C, A)
         /\ [w EXCEPT !.slot.checks = c].slot.req = w.slot.req
  <1> DEFINE s == [w.slot EXCEPT !.checks = c]
  <1>1. w \in Shapes
    BY DEF Fair
  <1>2. /\ [w EXCEPT !.slot.checks = c] = SetSlot(w, s) /\ s \in Slots /\ s.req = w.slot.req
        /\ (s.local <=> w.slot.local) /\ s.status = w.slot.status /\ s.key = w.slot.key
    BY <1>1, ChecksSet
  <1> HIDE DEF s
  <1>3. SlotFair(s, U, R, C, A)
    BY <1>2 DEF Fair, SlotFair
  <1>4. Fair(SetSlot(w, s), ns, U, R, C, A) /\ SetSlot(w, s).slot = s
    BY <1>1, <1>2, <1>3, FairSlot, SlotSet
  <1> QED BY <1>2, <1>4

-----------------------------------------------------------------------------
(* The records through each action.                                        *)

\* A store w and the notifications ns fit the journal and the chain as they are.
FairNow(w, ns) ==
  Fair(w, ns, Unpublished(journal, onChain), Recorded(journal), Unclaimed(journal), Arrived(wc))

\* What a lookup says of r, when no other request asks for its transfer.
LEMMA LookupSays ==
  ASSUME OwnIntents, KeptInv, NEW r \in Requests, NEW o \in J!Lookup(journal, r)
  PROVE  /\ o.outcome \in {"conflict", "published", "unknown", "none"}
         /\ o.outcome = "conflict" => ~Journaled(journal, r)
         /\ o.outcome = "none" => Key(r) \notin DOMAIN journal
         /\ o.outcome \in {"published", "unknown"} => Journaled(journal, r) /\ o.key = Key(r)
  <1> DEFINE k == Key(r)
             i == J!IntentOf(r)
             same == J!FindByIntent(journal, r.topic, i, k)
             other == J!FindByIntentAnyTopic(journal, i, k, r.topic)
  <1>1. \A x \in DOMAIN journal : journal[x].intent = i => x = k
    BY DEF OwnIntents, KeptInv, Journaled
  <1>2. same = {} /\ other = {}
    BY <1>1 DEF J!FindByIntent, J!FindByIntentAnyTopic
  <1>3. J!Lookup(journal, r) =
          CASE k \in DOMAIN journal /\ journal[k].intent # i ->
                 {[outcome |-> "conflict", key |-> k]}
            [] k \in DOMAIN journal /\ journal[k].intent = i ->
                 {[outcome |-> J!ReplayResult(journal[k]), key |-> k]}
            [] k \notin DOMAIN journal /\ same # {} ->
                 {[outcome |-> J!ReplayResult(journal[x]), key |-> x] : x \in same}
            [] k \notin DOMAIN journal /\ same = {} /\ other # {} ->
                 {[outcome |-> "duplicate", key |-> x] : x \in other}
            [] OTHER -> {[outcome |-> "none", key |-> k]}
    BY DEF J!Lookup, Key
  <1> HIDE DEF same, other, k, i
  <1>4. CASE k \in DOMAIN journal /\ journal[k].intent # i
    <2>1. o = [outcome |-> "conflict", key |-> k]
      BY <1>3, <1>4
    <2> QED BY <1>4, <2>1 DEF Journaled, k, i
  <1>5. CASE k \in DOMAIN journal /\ journal[k].intent = i
    <2>1. o = [outcome |-> J!ReplayResult(journal[k]), key |-> k]
      BY <1>3, <1>5
    <2> QED BY <1>5, <2>1 DEF Journaled, k, i, J!ReplayResult
  <1>6. CASE k \notin DOMAIN journal
    <2>1. o = [outcome |-> "none", key |-> k]
      BY <1>2, <1>3, <1>6
    <2> QED BY <1>6, <2>1 DEF k
  <1> QED BY <1>4, <1>5, <1>6

\* Neither record nor block: r may still be refused.
LEMMA UnjournaledIsUnpublished ==
  ASSUME RequestsAssumption, StoreInv, KeptInv, NEW r \in Requests,
         wc.proc[r].pc \notin {"new", "done"}, ~Journaled(journal, r)
  PROVE  r \in Unpublished(journal, onChain)
  <1>1. ~Answered(answers, r)
    BY ActiveIsFree DEF StoreInv
  <1> QED BY <1>1 DEF KeptInv, Unpublished

\* A step that leaves the records, the chain and who arrived.
LEMMA KeptStep ==
  ASSUME StoreInv, KeptInv, UNCHANGED <<journal, onChain>>, FairNow(wc', notify'),
         hold' # Nobody =>
           hold' \in Unpublished(journal, onChain) /\ Key(hold') \notin DOMAIN journal,
         \A r \in Requests :
           /\ Erred(answers', r) => Erred(answers, r) \/ r \in Unpublished(journal, onChain)
           /\ Answered(answers, r) => Answered(answers', r)
  PROVE  KeptInv'
  <1> DEFINE U == Unpublished(journal, onChain)
             R == Recorded(journal)
             C == Unclaimed(journal)
             A == Arrived(wc)
  <1>1. U' = U /\ R' = R /\ C' = C
    BY DEF Unpublished, Recorded, Unclaimed, Journaled
  <1>2. Fair(wc', notify', U, R, C, A)
    BY DEF FairNow
  <1>3. Arrived(wc') = A
    BY <1>2 DEF Fair, ProcFair, Arrived
  <1>4. Fair(wc, notify, U, R, C, A)'
    BY <1>1, <1>2, <1>3
  <1>5. (\A q, r \in Arrived(wc) : Key(q) = Key(r) => q = r)'
    BY <1>3 DEF KeptInv
  <1>6. (\A k \in DOMAIN journal : \E r \in Requests : Key(r) = k /\ Journaled(journal, r))'
    BY DEF KeptInv, Journaled
  <1>7. (hold # Nobody => hold \in U /\ Key(hold) \notin DOMAIN journal)'
    BY <1>1
  <1>8. (\A r \in Requests : Erred(answers, r) => r \in U)'
    BY <1>1 DEF KeptInv
  <1>9. (\A r \in onChain : ~Answered(answers, r) => Journaled(journal, r))'
    <2>1. onChain \subseteq Requests
      BY DEF StoreInv
    <2>2. \A r \in onChain : ~Answered(answers', r) => Journaled(journal, r)
      BY <2>1 DEF KeptInv
    <2> QED BY <2>2 DEF Journaled, Answered
  <1> QED BY <1>4, <1>5, <1>6, <1>7, <1>8, <1>9 DEF KeptInv

LEMMA FairStep ==
  ASSUME StoreInv, KeptInv, UNCHANGED <<journal, onChain, answers>>, hold' \in {hold, Nobody},
         FairNow(wc', notify')
  PROVE  KeptInv'
  <1>1. hold' # Nobody =>
          hold' \in Unpublished(journal, onChain) /\ Key(hold') \notin DOMAIN journal
    BY DEF KeptInv
  <1>2. \A r \in Requests : /\ Erred(answers', r) => Erred(answers, r)
                            /\ Answered(answers, r) => Answered(answers', r)
    BY DEF Erred, Answered
  <1> QED BY <1>1, <1>2, KeptStep

LEMMA AnswerAdds ==
  ASSUME StoreInv, NEW r \in Requests, NEW what \in {"result", "error"},
         Answers(r, what) \/ UNCHANGED answers
  PROVE  \A x \in Requests :
           /\ Erred(answers', x) => Erred(answers, x) \/ (x = r /\ what = "error")
           /\ Answered(answers, x) => Answered(answers', x)
  <1>1. answers \in [Requests -> Seq({"result", "error"})]
    BY DEF StoreInv, Good
  <1>2. CASE UNCHANGED answers
    BY <1>2 DEF Erred, Answered
  <1>3. CASE answers' = [answers EXCEPT ![r] = Append(@, what)]
    <2> DEFINE s == answers[r]
               t == Append(s, what)
    <2>1. s \in Seq({"result", "error"})
      BY <1>1
    <2>2. /\ Len(t) = Len(s) + 1 /\ Len(s) \in Nat /\ t # <<>>
          /\ \A i \in 1..Len(t) : t[i] = IF i = Len(s) + 1 THEN what ELSE s[i]
      BY <2>1
    <2>3. \A x \in Requests : answers'[x] = IF x = r THEN t ELSE answers[x]
      BY <1>1, <1>3
    <2> HIDE DEF t
    <2>4. Erred(answers', r) => Erred(answers, r) \/ what = "error"
      BY <2>2, <2>3 DEF Erred
    <2> QED BY <2>2, <2>3, <2>4 DEF Erred, Answered
  <1> QED BY <1>2, <1>3 DEF Answers

LEMMA HandleRequestFair ==
  ASSUME RequestsAssumption, StoreInv, KeptInv, NEW r \in Requests, HandleRequest(r)
  PROVE  KeptInv'
  <1> DEFINE U == Unpublished(journal, onChain)
             R == Recorded(journal)
             C == Unclaimed(journal)
             A == Arrived(wc)
             B == A \cup {r}
             k == [wc.proc[r] EXCEPT !.pc = "lookup"]
  <1>1. wc.proc[r].pc = "new" /\ wc' = SetProc(wc, r, k)
        /\ UNCHANGED <<notify, hold, journal, onChain, answers>>
    BY DEF HandleRequest, Goto, backend, relay
  <1>2. k \in Processes /\ k.pc = "lookup"
    <2>1. wc.proc[r] \in Processes
      BY DEF StoreInv, Good, Shapes
    <2> QED BY <2>1, PcSet DEF Pcs
  <1> HIDE DEF k
  <1>3. Fair(wc, notify, U, R, C, A)
    BY DEF KeptInv
  <1>4. wc.slot.req # r
    BY <1>1, <1>3 DEF Fair, SlotFair, Arrived
  <1>5. /\ wc' \in Shapes /\ wc'.proc[r] = k
        /\ \A x \in Requests \ {r} : wc'.proc[x] = wc.proc[x]
        /\ wc'.slot = wc.slot /\ wc'.preparing = wc.preparing /\ wc'.queue = wc.queue
    BY <1>1, <1>2, <1>3, ProcSet DEF Fair
  <1>6. Arrived(wc') = B
    BY <1>2, <1>5 DEF Arrived
  <1>7. ProcFair(r, k, U, R, C, B)
    BY <1>2 DEF ProcFair
  <1>8. \A x \in Requests \ {r} : ProcFair(x, wc.proc[x], U, R, C, B)
    BY <1>3 DEF Fair, ProcFair
  <1>9. Fair(wc', notify, U, R, C, B)
    BY <1>3, <1>5, <1>7, <1>8 DEF Fair, SlotFair, EntryFair
  <1>10. U' = U /\ R' = R /\ C' = C
    BY <1>1 DEF Unpublished, Recorded, Unclaimed, Journaled
  <1>11. Fair(wc, notify, U, R, C, Arrived(wc))'
    BY <1>1, <1>6, <1>9, <1>10
  <1>12. (\A q, x \in Arrived(wc) : Key(q) = Key(x) => q = x)'
    <2>1. \A q \in A : Key(q) # Key(r)
      BY DEF HandleRequest, Arrived
    <2> QED BY <1>6, <2>1 DEF KeptInv
  <1> HIDE DEF U, R, C, A
  <1>13. /\ \A q \in DOMAIN journal : \E x \in Requests : Key(x) = q /\ Journaled(journal, x)
         /\ hold # Nobody => hold \in U /\ Key(hold) \notin DOMAIN journal
         /\ \A x \in Requests : Erred(answers, x) => x \in U
         /\ \A x \in onChain : ~Answered(answers, x) => Journaled(journal, x)
    BY DEF KeptInv, U
  <1>14. (/\ \A q \in DOMAIN journal : \E x \in Requests : Key(x) = q /\ Journaled(journal, x)
          /\ hold # Nobody => hold \in U /\ Key(hold) \notin DOMAIN journal
          /\ \A x \in Requests : Erred(answers, x) => x \in U
          /\ \A x \in onChain : ~Answered(answers, x) => Journaled(journal, x))'
    BY <1>1, <1>10, <1>13 DEF Journaled, Erred, Answered
  <1> QED BY <1>11, <1>12, <1>14 DEF KeptInv, U, R, C

LEMMA LookupRunsFair ==
  ASSUME RequestsAssumption, OwnIntents, StoreInv, KeptInv, NEW r \in Requests, LookupRuns(r)
  PROVE  KeptInv'
  <1> DEFINE U == Unpublished(journal, onChain)
             R == Recorded(journal)
             C == Unclaimed(journal)
             A == Arrived(wc)
             p == wc.proc[r]
  <1>1. Fair(wc, notify, U, R, C, A) /\ JournalFits(journal)
    BY DEF KeptInv, StoreInv
  <1>2. p.pc = "lookup" /\ UNCHANGED <<notify, hold, journal, onChain, answers>>
    BY DEF LookupRuns, backend, relay
  <1>3. r \in A /\ p \in Processes
    BY <1>1, <1>2 DEF Fair, Shapes, Arrived
  <1>4. ~Journaled(journal, r) => r \in U
    BY <1>2, UnjournaledIsUnpublished
  <1>5. ASSUME NEW out \in Outs, NEW key \in Keys, Answer(r, "looked", out, key),
               out # "duplicate", out \in {"none", "conflict"} => r \in U,
               out = "none" => r \in C,
               out \in {"published", "unknown"} => r \in R /\ key = Key(r)
        PROVE  KeptInv'
    <2> DEFINE k == Reply(p, "looked", out, key)
    <2>1. k \in Processes /\ k.pc = "looked" /\ k.out = out /\ k.key = key
      BY <1>3 DEF Reply, Processes, Pcs
    <2>2. wc' = SetProc(wc, r, k)
      BY <1>5 DEF Answer, Reply
    <2> HIDE DEF k, U, R, C, A
    <2>3. ProcFair(r, k, U, R, C, A)
      BY <1>3, <1>5, <2>1 DEF ProcFair
    <2>4. Fair(wc', notify', U, R, C, A)
      BY <1>1, <1>2, <2>1, <2>2, <2>3, FairProc
    <2> QED BY <1>2, <2>4, FairStep DEF FairNow, U, R, C, A
  <1>6. ASSUME NEW o \in J!Lookup(journal, r), Answer(r, "looked", o.outcome, o.key)
        PROVE  KeptInv'
    <2>1. o.outcome \in Outcomes /\ o.key \in Keys
      BY <1>1, LookupAnswers
    <2>2. /\ o.outcome \in {"conflict", "published", "unknown", "none"}
          /\ o.outcome = "conflict" => ~Journaled(journal, r)
          /\ o.outcome = "none" => Key(r) \notin DOMAIN journal
          /\ o.outcome \in {"published", "unknown"} => Journaled(journal, r) /\ o.key = Key(r)
      BY LookupSays
    <2>3. o.outcome = "none" => ~Journaled(journal, r) /\ r \in C
      BY <2>2 DEF Journaled, Unclaimed
    <2>4. o.outcome \in {"published", "unknown"} => r \in R
      BY <2>2 DEF Recorded
    <2> HIDE DEF U, R, C, A
    <2> QED BY <1>4, <1>5, <1>6, <2>1, <2>2, <2>3, <2>4 DEF Outcomes, Outs
  <1>7. CASE Answer(r, "looked", "failed", Nobody)
    BY <1>5, <1>7, Constants DEF Outs
  <1> QED BY <1>6, <1>7 DEF LookupRuns

LEMMA RetryFailedLookupFair ==
  ASSUME RequestsAssumption, StoreInv, KeptInv, NEW r \in Requests, RetryFailedLookup(r)
  PROVE  KeptInv'
  <1>1. FairNow(wc, notify) /\ r \in Arrived(wc)
    BY DEF KeptInv, FairNow, RetryFailedLookup, Arrived
  <1>2. UNCHANGED <<notify, hold, journal, onChain, answers>>
        /\ wc' \in {Finish(wc, r), Goto(wc, r, "lookup")}
    BY DEF RetryFailedLookup, backend, relay
  <1>3. FairNow(Finish(wc, r), notify)
    BY <1>1, FairFinish DEF FairNow
  <1>4. FairNow(Goto(wc, r, "lookup"), notify)
    BY <1>1, FairGoto DEF FairNow, Pcs
  <1> QED BY <1>2, <1>3, <1>4, FairStep

LEMMA FailAnsweredFair ==
  ASSUME RequestsAssumption, StoreInv, KeptInv, NEW r \in Requests, FailAnswered(r)
  PROVE  KeptInv'
  <1>1. FairNow(wc, notify) /\ r \in Arrived(wc) /\ r \in Unpublished(journal, onChain)
    BY DEF KeptInv, FairNow, FailAnswered, Arrived, Fair, ProcFair
  <1>2. /\ UNCHANGED <<notify, hold, journal, onChain>> /\ wc' = Leave(wc, r)
        /\ Answers(r, "error") \/ UNCHANGED answers
    BY DEF FailAnswered, backend
  <1>3. FairNow(wc', notify')
    BY <1>1, <1>2, FairLeave DEF FairNow
  <1>4. \A x \in Requests :
          /\ Erred(answers', x) => Erred(answers, x) \/ x = r
          /\ Answered(answers, x) => Answered(answers', x)
    BY <1>2, AnswerAdds
  <1>5. hold' # Nobody =>
          hold' \in Unpublished(journal, onChain) /\ Key(hold') \notin DOMAIN journal
    BY <1>2 DEF KeptInv
  <1> QED BY <1>1, <1>2, <1>3, <1>4, <1>5, KeptStep

\* A duplicate is never refused: it would be another request for the same transfer.
LEMMA RefusedFair ==
  ASSUME KeptInv, NEW r \in Requests, Refused(r)
  PROVE  KeptInv'
  <1>1. wc.proc[r].pc # "refuse"
    BY DEF KeptInv, Fair, ProcFair
  <1> QED BY <1>1 DEF Refused

LEMMA LookupAnsweredFair ==
  ASSUME RequestsAssumption, StoreInv, KeptInv, NEW r \in Requests, LookupAnswered(r)
  PROVE  KeptInv'
  <1> DEFINE U == Unpublished(journal, onChain)
             R == Recorded(journal)
             C == Unclaimed(journal)
             A == Arrived(wc)
             p == wc.proc[r]
             f == Finish(wc, r)
             e == [req |-> r, key |-> p.key, out |-> p.out, local |-> FALSE]
             q == Preparation(r, FALSE)
             k == At("prepare", Nobody, "release")
  <1>1. Fair(wc, notify, U, R, C, A)
    BY DEF KeptInv
  <1>2. p.pc = "looked" /\ wc' \in AfterLookup(r, p)
        /\ UNCHANGED <<notify, hold, journal, onChain, answers>>
    BY DEF LookupAnswered, backend, relay
  <1>3. r \in A /\ p \in Processes /\ p.out \in Outcomes \cup {"failed"}
    BY <1>1, <1>2 DEF Fair, Shapes, Arrived, StoreInv, Good, OwnersInv
  <1>4. /\ p.out # "duplicate" /\ (p.out \in {"none", "conflict"} => r \in U)
        /\ p.out = "none" => r \in C
        /\ p.out \in {"published", "unknown"} => r \in R /\ p.key = Key(r)
    BY <1>1, <1>2 DEF Fair, ProcFair
  <1>5. R \subseteq C
    BY <1>1 DEF Fair
  <1>6. p.key \in Keys /\ p.out \in Outs
    BY <1>3 DEF Processes
  <1> HIDE DEF U, R, C, A, p
  <1>7. Fair(f, notify, U, R, C, A)
    BY <1>1, <1>3, FairFinish
  <1>8. Fair(Goto(wc, r, "waiting"), notify, U, R, C, A)
    BY <1>1, <1>3, FairGoto DEF Pcs
  <1>9. p.out \in {"none", "conflict"} => Fair(Goto(wc, r, "fail"), notify, U, R, C, A)
    BY <1>1, <1>3, <1>4, FairGoto DEF Pcs
  <1>10. p.out = "published" => Fair(BeginDelivery(wc, r, p.key, "stop"), notify, U, R, C, A)
    BY <1>1, <1>3, <1>4, FairDelivery DEF Thens
  <1>11. p.out = "unknown" => /\ Fair(Enqueue(f, e), notify, U, R, C, A)
                              /\ Fair(Show(f, e, "unknown", FALSE), notify, U, R, C, A)
    <2>1. SUFFICES ASSUME p.out = "unknown"
                   PROVE  /\ Fair(Enqueue(f, e), notify, U, R, C, A)
                          /\ Fair(Show(f, e, "unknown", FALSE), notify, U, R, C, A)
      OBVIOUS
    <2>2. e \in Waiting /\ e \in Entries /\ ~e.local /\ e.req = r /\ e.key = p.key
      BY <1>6, <2>1 DEF Waiting, Entries, Someone
    <2> HIDE DEF e, f
    <2>3. EntryFair(e, R, A)
      BY <1>3, <1>4, <2>1, <2>2 DEF EntryFair
    <2>4. Fair(Enqueue(f, e), notify, U, R, C, A)
      BY <1>7, <2>2, <2>3, FairEnqueue
    <2>5. Fair(Show(f, e, "unknown", FALSE), notify, U, R, C, A)
      BY <1>3, <1>4, <1>5, <1>7, <2>1, <2>2, FairShow DEF Statuses
    <2> QED BY <2>4, <2>5
  <1>12. p.out = "none" => Fair(SetProc(SetPreparing(wc, q), r, k), notify, U, R, C, A)
    <2>1. q \in Preparations /\ k \in Processes /\ k.pc = "prepare"
      BY Constants DEF At, Pcs, Thens
    <2> HIDE DEF q, k
    <2>2. Fair(SetPreparing(wc, q), notify, U, R, C, A)
      BY <1>1, <2>1, FairPreparing
    <2>3. p.out = "none" => ProcFair(r, k, U, R, C, A)
      BY <1>3, <1>4, <2>1 DEF ProcFair
    <2> QED BY <2>1, <2>2, <2>3, FairProc
  <1> HIDE DEF f, e, q, k
  <1>13. Fair(wc', notify', U, R, C, A)
    <2>1. CASE p.ended
      BY <1>2, <1>7, <2>1 DEF AfterLookup, f
    <2>2. CASE ~p.ended
      <3>1. wc' \in Resolve(r, p)
        BY <1>2, <2>2 DEF AfterLookup
      <3>2. CASE p.out = "failed"
        BY <1>2, <1>7, <1>8, <3>1, <3>2 DEF Resolve, f
      <3>3. CASE p.out = "conflict"
        BY <1>2, <1>9, <3>1, <3>3 DEF Resolve
      <3>5. CASE p.out = "published"
        BY <1>2, <1>10, <3>1, <3>5 DEF Resolve
      <3>6. CASE p.out = "unknown"
        BY <1>2, <1>11, <3>1, <3>6 DEF Resolve, f, e
      <3>7. CASE p.out = "none"
        BY <1>2, <1>9, <1>12, <3>1, <3>7 DEF Resolve, q, k
      <3> QED BY <1>3, <1>4, <3>2, <3>3, <3>5, <3>6, <3>7 DEF Outcomes
    <2> QED BY <2>1, <2>2
  <1> QED BY <1>2, <1>13, FairStep DEF FairNow, U, R, C, A

LEMMA PrepareRunsFair ==
  ASSUME RequestsAssumption, OwnIntents, StoreInv, KeptInv, NEW r \in Requests, PrepareRuns(r)
  PROVE  KeptInv'
  <1> DEFINE U == Unpublished(journal, onChain)
             R == Recorded(journal)
             C == Unclaimed(journal)
             A == Arrived(wc)
             p == wc.proc[r]
  <1>1. Fair(wc, notify, U, R, C, A)
    BY DEF KeptInv
  <1>2. p.pc = "prepare" /\ UNCHANGED <<notify, journal, onChain, answers>>
    BY DEF PrepareRuns, relay
  <1>3. r \in A /\ p \in Processes /\ r \in U /\ r \in C
    BY <1>1, <1>2 DEF Fair, ProcFair, Shapes, Arrived
  <1>4. ASSUME NEW out \in {"prepare", "error"}, NEW key \in Keys, Answer(r, "prepared", out, key),
               out = "prepare" => key = Key(r)
        PROVE  FairNow(wc', notify')
    <2> DEFINE k == Reply(p, "prepared", out, key)
    <2>1. k \in Processes /\ k.pc = "prepared" /\ k.out = out /\ k.key = key
      BY <1>3 DEF Reply, Processes, Pcs, Outs
    <2>2. wc' = SetProc(wc, r, k)
      BY <1>4 DEF Answer, Reply
    <2> HIDE DEF k, U, R, C, A
    <2>3. ProcFair(r, k, U, R, C, A)
      BY <1>3, <1>4, <2>1 DEF ProcFair
    <2> QED BY <1>1, <1>2, <2>1, <2>2, <2>3, FairProc DEF FairNow, U, R, C, A
  <1>5. \A x \in Requests : /\ Erred(answers', x) => Erred(answers, x)
                            /\ Answered(answers, x) => Answered(answers', x)
    BY <1>2 DEF Erred, Answered
  <1>6. CASE J!Fresh(journal, r) /\ hold' = r /\ Answer(r, "prepared", "prepare", Key(r))
    <2>1. PICK o \in J!Lookup(journal, r) : o.outcome = "none"
      BY <1>6 DEF J!Fresh
    <2>2. Key(r) \notin DOMAIN journal
      BY <2>1, LookupSays
    <2>3. FairNow(wc', notify')
      BY <1>4, <1>6, Constants
    <2> QED BY <1>2, <1>3, <1>5, <1>6, <2>2, <2>3, KeptStep
  <1>7. CASE /\ \E o \in J!Lookup(journal, r) : o.outcome \notin {"none", "conflict"}
             /\ UNCHANGED hold
    <2>1. PICK o \in J!Lookup(journal, r) : o.outcome \notin {"none", "conflict"}
      BY <1>7
    <2>2. Journaled(journal, r)
      BY <2>1, LookupSays
    <2> QED BY <1>3, <2>2 DEF Unpublished
  <1>8. CASE Answer(r, "prepared", "error", Nobody) /\ UNCHANGED hold
    <2>1. FairNow(wc', notify')
      BY <1>4, <1>8, Constants
    <2> QED BY <1>2, <1>8, <2>1, FairStep
  <1> QED BY <1>6, <1>7, <1>8 DEF PrepareRuns

LEMMA PrepareAnsweredFair ==
  ASSUME RequestsAssumption, StoreInv, KeptInv, NEW r \in Requests, PrepareAnswered(r)
  PROVE  KeptInv'
  <1> DEFINE U == Unpublished(journal, onChain)
             R == Recorded(journal)
             C == Unclaimed(journal)
             A == Arrived(wc)
             p == wc.proc[r]
             e == [req |-> r, key |-> p.key, out |-> p.out, local |-> FALSE]
             cut == wc.preparing.ended \/ wc.preparing.cancelled
  <1>1. Fair(wc, notify, U, R, C, A)
    BY DEF KeptInv
  <1>2. p.pc = "prepared" /\ wc' = AfterPrepare(r, p)
        /\ UNCHANGED <<notify, hold, journal, onChain, answers>>
    BY DEF PrepareAnswered, backend, relay
  <1>3. r \in A /\ p \in Processes
    BY <1>1, <1>2 DEF Fair, Shapes, Arrived
  <1>4. /\ r \in U /\ r \in C /\ p.out \in {"prepare", "error"}
        /\ p.out = "prepare" => p.key = Key(r)
    BY <1>1, <1>2 DEF Fair, ProcFair
  <1>5. p.key \in Keys /\ p.out \in Outs
    BY <1>3 DEF Processes
  <1> HIDE DEF U, R, C, A, p
  <1>6. e \in Entries /\ ~e.local /\ e.req = r /\ e.key = p.key
    BY <1>5 DEF Entries, Someone
  <1>7. Fair(Leave(wc, r), notify, U, R, C, A)
    BY <1>1, <1>3, FairLeave
  <1>8. Fair(Goto(wc, r, "fail"), notify, U, R, C, A)
    BY <1>1, <1>3, <1>4, FairGoto DEF Pcs
  <1>9. Fair(Goto(wc, r, "cancelPrepared"), notify, U, R, C, A)
    BY <1>1, <1>3, <1>4, FairGoto DEF Pcs
  <1> HIDE DEF e, cut
  <1>10. p.out = "prepare" => Fair(Leave(Show(wc, e, "awaiting", FALSE), r), notify, U, R, C, A)
    <2>1. p.out = "prepare" => Fair(Show(wc, e, "awaiting", FALSE), notify, U, R, C, A)
      BY <1>1, <1>3, <1>4, <1>6, FairShow DEF Statuses
    <2> QED BY <1>3, <2>1, FairLeave
  <1>11. Fair(wc', notify', U, R, C, A)
    <2>1. CASE p.out = "prepare"
      <3>1. wc' = IF cut THEN Cut(r) ELSE Leave(Show(wc, e, "awaiting", FALSE), r)
        BY <1>2, <2>1 DEF AfterPrepare, cut, e
      <3> QED BY <1>2, <1>9, <1>10, <2>1, <3>1 DEF Cut
    <2>2. CASE p.out = "error"
      BY <1>2, <1>7, <1>8, <2>2 DEF AfterPrepare
    <2> QED BY <1>4, <2>1, <2>2
  <1> QED BY <1>2, <1>11, FairStep DEF FairNow, U, R, C, A

LEMMA CancelPreparedFair ==
  ASSUME RequestsAssumption, StoreInv, KeptInv, NEW r \in Requests, CancelPrepared(r)
  PROVE  KeptInv'
  <1>1. FairNow(wc, notify) /\ r \in Arrived(wc) /\ r \in Unpublished(journal, onChain)
    BY DEF KeptInv, FairNow, CancelPrepared, Arrived, Fair, ProcFair
  <1>2. /\ wc' \in {Leave(wc, r), Goto(wc, r, "fail")} /\ hold' \in {hold, Nobody}
        /\ UNCHANGED <<notify, journal, onChain, answers>>
    BY DEF CancelPrepared, CancelHold, relay
  <1>3. FairNow(Leave(wc, r), notify)
    BY <1>1, FairLeave DEF FairNow
  <1>4. FairNow(Goto(wc, r, "fail"), notify)
    BY <1>1, FairGoto DEF FairNow, Pcs
  <1> QED BY <1>2, <1>3, <1>4, FairStep

LEMMA ReplayFailsFair ==
  ASSUME RequestsAssumption, StoreInv, KeptInv, NEW r \in Requests, ReplayFails(r)
  PROVE  KeptInv'
  <1> DEFINE U == Unpublished(journal, onChain)
             R == Recorded(journal)
             C == Unclaimed(journal)
             A == Arrived(wc)
             p == wc.proc[r]
             mine == wc.preparing.marker /\ wc.preparing.req = r
             w == Unmarked(wc, r)
             e == [req |-> r, key |-> p.key, out |-> "published", local |-> FALSE]
             ended == mine /\ wc.preparing.ended
             kept == IF Busy(w) THEN Enqueue(w, e) ELSE Show(w, e, "delivery-error", ended)
  <1>1. Fair(wc, notify, U, R, C, A)
    BY DEF KeptInv
  <1>2. p.pc = "deliver" /\ wc' = AfterDelivery(kept, r, p.then)
        /\ UNCHANGED <<notify, hold, journal, onChain, answers>>
    BY DEF ReplayFails, Unmarked, backend, relay
  <1>3. r \in A /\ p \in Processes /\ wc.preparing \in Preparations
    BY <1>1, <1>2 DEF Fair, Shapes, Arrived
  <1>4. r \in R /\ p.key = Key(r) /\ R \subseteq C
    BY <1>1, <1>2 DEF Fair, ProcFair
  <1>5. p.key \in Keys /\ ended \in BOOLEAN
    BY <1>3 DEF Processes, Preparations
  <1> HIDE DEF U, R, C, A, p, ended
  <1>6. e \in Waiting /\ e \in Entries /\ ~e.local /\ e.req = r /\ e.key = p.key
    BY <1>5 DEF Waiting, Entries, Someone, Outs
  <1>7. Fair(w, notify, U, R, C, A)
    BY <1>1, FairUnmarked
  <1> HIDE DEF w, e
  <1>8. EntryFair(e, R, A)
    BY <1>3, <1>4, <1>6 DEF EntryFair
  <1>9. Fair(Enqueue(w, e), notify, U, R, C, A)
    BY <1>6, <1>7, <1>8, FairEnqueue
  <1>10. Fair(Show(w, e, "delivery-error", ended), notify, U, R, C, A)
    BY <1>3, <1>4, <1>5, <1>6, <1>7, FairShow DEF Statuses
  <1>11. Fair(kept, notify, U, R, C, A)
    BY <1>9, <1>10
  <1> HIDE DEF kept
  <1>12. Fair(AfterDelivery(kept, r, p.then), notify, U, R, C, A)
    BY <1>3, <1>11, FairAfterDelivery
  <1> QED BY <1>2, <1>12, FairStep DEF FairNow, U, R, C, A

-----------------------------------------------------------------------------
(* The records through the dialog.                                         *)

LEMMA FairNotifyMore ==
  ASSUME NEW w, NEW ns \in [Requests -> Nat], NEW U, NEW R, NEW C, NEW A, Fair(w, ns, U, R, C, A),
         NEW r \in Requests, r \in C \cap A
  PROVE  Fair(w, [ns EXCEPT ![r] = @ + 1], U, R, C, A)
  <1> DEFINE ms == [ns EXCEPT ![r] = @ + 1]
  <1>1. \A x \in Requests : x # r => ms[x] = ns[x]
    OBVIOUS
  <1> HIDE DEF ms
  <1> QED BY <1>1 DEF Fair

LEMMA FairNotifyLess ==
  ASSUME NEW w, NEW ns \in [Requests -> Nat], NEW U, NEW R, NEW C, NEW A, Fair(w, ns, U, R, C, A),
         NEW r \in Requests, ns[r] > 0
  PROVE  Fair(w, [ns EXCEPT ![r] = @ - 1], U, R, C, A)
  <1> DEFINE ms == [ns EXCEPT ![r] = @ - 1]
  <1>1. \A x \in Requests : ms[x] > 0 => ns[x] > 0
    OBVIOUS
  <1> HIDE DEF ms
  <1> QED BY <1>1 DEF Fair

\* A displayed request that has its record is told its result.
LEMMA FairTelling ==
  ASSUME NEW w, NEW U, NEW R, NEW C, NEW A, Fair(w, notify, U, R, C, A),
         notify \in [Requests -> Nat], w.slot.req \in R, DeliverPublished(w)
  PROVE  Fair(wc', notify', U, R, C, A)
  <1>1. Fair(SetStatus(w, "notifying"), notify, U, R, C, A)
        /\ Fair(SetStatus(w, "delivery-error"), notify, U, R, C, A)
    BY FairStatus DEF Statuses
  <1>2. w.slot.req \in Requests /\ w.slot.req \in C \cap A
    BY DEF Fair, SlotFair
  <1>3. Fair(SetStatus(w, "notifying"), [notify EXCEPT ![w.slot.req] = @ + 1], U, R, C, A)
    BY <1>1, <1>2, FairNotifyMore
  <1> QED BY <1>1, <1>3 DEF DeliverPublished

\* What the dialog shows is a request's, of whose record the status tells.
LEMMA ShownIs ==
  ASSUME RequestsAssumption, StoreInv, KeptInv, wc.slot.status # "none"
  PROVE  /\ wc.slot.req \in Requests /\ wc.slot.req \in Unclaimed(journal) \cap Arrived(wc)
         /\ wc.slot.key = Key(wc.slot.req)
         /\ wc.slot.status \in {"awaiting", "error"} =>
              wc.slot.req \in Unpublished(journal, onChain)
         /\ wc.slot.status \notin {"awaiting", "publishing", "error"} =>
              wc.slot.req \in Recorded(journal)
  <1>1. SlotFair(wc.slot, Unpublished(journal, onChain), Recorded(journal), Unclaimed(journal),
                 Arrived(wc))
    BY DEF KeptInv, Fair
  <1>2. wc.slot.req \in Someone /\ SlotsInv(wc)
    BY DEF StoreInv, Good, Shapes, Slots
  <1>3. wc.slot.req \in Requests
    BY <1>1, <1>2 DEF SlotFair, SlotsInv, Someone
  <1> QED BY <1>1, <1>3 DEF SlotFair

LEMMA ApproveRequestFair ==
  ASSUME RequestsAssumption, StoreInv, KeptInv, ApproveRequest
  PROVE  KeptInv'
  <1> DEFINE U == Unpublished(journal, onChain)
             R == Recorded(journal)
             C == Unclaimed(journal)
             A == Arrived(wc)
             r == wc.slot.req
             k == At("confirm", Nobody, "stop")
             w == SetStatus(wc, "publishing")
  <1>1. Fair(wc, notify, U, R, C, A)
    BY DEF KeptInv
  <1>2. r \in Requests /\ r \in U /\ r \in C /\ r \in A
    BY ShownIs DEF ApproveRequest
  <1>3. wc' \in {Close(wc, "silent"), SetProc(w, r, k)}
        /\ UNCHANGED <<notify, hold, journal, onChain, answers>>
    BY DEF ApproveRequest, backend, relay
  <1>4. k \in Processes /\ k.pc = "confirm"
    BY Constants DEF At, Pcs, Thens
  <1> HIDE DEF U, R, C, A, k
  <1>5. Fair(Close(wc, "silent"), notify, U, R, C, A)
    BY <1>1, <1>2, FairClose DEF Thens
  <1>6. Fair(w, notify, U, R, C, A)
    BY <1>1, FairStatus DEF Statuses
  <1> HIDE DEF w, r
  <1>7. ProcFair(r, k, U, R, C, A)
    BY <1>2, <1>4 DEF ProcFair
  <1>8. Fair(SetProc(w, r, k), notify, U, R, C, A)
    BY <1>2, <1>4, <1>6, <1>7, FairProc
  <1> QED BY <1>3, <1>5, <1>8, FairStep DEF FairNow, U, R, C, A

LEMMA ConfirmAnsweredFair ==
  ASSUME RequestsAssumption, StoreInv, KeptInv, NEW r \in Requests, ConfirmAnswered(r)
  PROVE  KeptInv'
  <1> DEFINE U == Unpublished(journal, onChain)
             R == Recorded(journal)
             C == Unclaimed(journal)
             A == Arrived(wc)
             p == wc.proc[r]
             w == Finish(wc, r)
             k == At("cancel", Nobody, "silent")
  <1>1. Fair(wc, notify, U, R, C, A) /\ wc.slot.req = r /\ notify \in [Requests -> Nat]
    BY DEF KeptInv, StoreInv, Good, OwnersInv, ConfirmAnswered
  <1>2. p.pc = "confirmed" /\ UNCHANGED <<hold, journal, onChain, answers>>
    BY DEF ConfirmAnswered, backend, relay
  <1>3. r \in A /\ (p.out = "error" => r \in U) /\ (p.out # "error" => r \in R)
    BY <1>1, <1>2 DEF Fair, ProcFair, Arrived
  <1>4. \/ p.out = "published" /\ DeliverPublished(w)
        \/ p.out = "unknown" /\ wc' = SetStatus(w, "unknown") /\ UNCHANGED notify
        \/ /\ p.out = "error" /\ UNCHANGED notify
           /\ wc' \in {SetProc(w, r, k), SetStatus(w, "error")}
    BY DEF ConfirmAnswered
  <1>5. k \in Processes /\ k.pc = "cancel"
    BY Constants DEF At, Pcs, Thens
  <1>6. wc \in Shapes
    BY <1>1 DEF Fair
  <1> HIDE DEF U, R, C, A, p, k
  <1>7. Fair(w, notify, U, R, C, A) /\ w.slot.req = r
    BY <1>1, <1>3, <1>6, FairFinish, FinishFrame
  <1> HIDE DEF w
  <1>8. Fair(wc', notify', U, R, C, A)
    <2>1. CASE p.out = "published" /\ DeliverPublished(w)
      BY <1>1, <1>3, <1>7, <2>1, FairTelling
    <2>2. CASE p.out = "unknown" /\ wc' = SetStatus(w, "unknown") /\ UNCHANGED notify
      BY <1>3, <1>7, <2>2, FairStatus DEF Statuses
    <2>3. CASE p.out = "error" /\ UNCHANGED notify /\ wc' = SetStatus(w, "error")
      BY <1>3, <1>7, <2>3, FairStatus DEF Statuses
    <2>4. CASE p.out = "error" /\ UNCHANGED notify /\ wc' = SetProc(w, r, k)
      <3>1. ProcFair(r, k, U, R, C, A)
        BY <1>3, <1>5, <2>4 DEF ProcFair
      <3> QED BY <1>5, <1>7, <2>4, <3>1, FairProc
    <2> QED BY <1>4, <2>1, <2>2, <2>3, <2>4
  <1> QED BY <1>2, <1>8, FairStep DEF FairNow, U, R, C, A

LEMMA NotifyFailsFair ==
  ASSUME RequestsAssumption, StoreInv, KeptInv, NEW r \in Requests, NotifyFails(r)
  PROVE  KeptInv'
  <1> DEFINE U == Unpublished(journal, onChain)
             R == Recorded(journal)
             C == Unclaimed(journal)
             A == Arrived(wc)
             ns == [notify EXCEPT ![r] = @ - 1]
  <1>1. Fair(wc, notify, U, R, C, A) /\ notify \in [Requests -> Nat] /\ NotifyInv(wc, notify)
    BY DEF KeptInv, StoreInv, Good
  <1>2. /\ notify[r] > 0 /\ notify' = ns
        /\ wc' = IF wc.slot.req = r THEN SetStatus(wc, "delivery-error") ELSE wc
        /\ UNCHANGED <<hold, journal, onChain, answers>>
    BY DEF NotifyFails, backend, relay
  <1>3. wc.slot.req = r => r \in R
    <2>1. wc.slot.req = r => wc.slot.status \notin {"none", "awaiting", "publishing", "error"}
      <3>1. SlotsInv(wc) /\ Nobody # r
        BY DEF StoreInv, Good, RequestsAssumption
      <3> QED BY <1>1, <1>2, <3>1 DEF NotifyInv, SlotsInv
    <2> QED BY <2>1, ShownIs
  <1> HIDE DEF U, R, C, A
  <1>4. Fair(wc, ns, U, R, C, A)
    BY <1>1, <1>2, FairNotifyLess
  <1> HIDE DEF ns
  <1>5. wc.slot.req = r => Fair(SetStatus(wc, "delivery-error"), ns, U, R, C, A)
    BY <1>3, <1>4, FairStatus DEF Statuses
  <1> QED BY <1>2, <1>4, <1>5, FairStep DEF FairNow, U, R, C, A

LEMMA RetryPublishedResponseFair ==
  ASSUME RequestsAssumption, StoreInv, KeptInv, RetryPublishedResponse
  PROVE  KeptInv'
  <1>1. FairNow(wc, notify) /\ notify \in [Requests -> Nat]
    BY DEF KeptInv, FairNow, StoreInv, Good
  <1>2. wc.slot.status = "delivery-error" /\ DeliverPublished(wc)
        /\ UNCHANGED <<hold, journal, onChain, answers>>
    BY DEF RetryPublishedResponse, backend, relay
  <1>3. wc.slot.req \in Recorded(journal)
    BY <1>2, ShownIs
  <1>4. FairNow(wc', notify')
    BY <1>1, <1>2, <1>3, FairTelling DEF FairNow
  <1> QED BY <1>2, <1>4, FairStep

LEMMA ReconcileRequestFair ==
  ASSUME RequestsAssumption, BoundsAssumption, StoreInv, KeptInv, ReconcileRequest
  PROVE  KeptInv'
  <1>1. FairNow(wc, notify) /\ wc \in Shapes
    BY DEF KeptInv, FairNow, StoreInv, Good
  <1>2. wc' = [wc EXCEPT !.slot.checks = @ + 1]
        /\ UNCHANGED <<notify, hold, journal, onChain, answers>>
    BY DEF ReconcileRequest, backend, relay
  <1>3. wc.slot.checks + 1 \in Nat
    BY <1>1 DEF Shapes, Slots
  <1>4. FairNow([wc EXCEPT !.slot.checks = wc.slot.checks + 1], notify)
    BY <1>1, <1>3, FairChecks DEF FairNow
  <1>5. wc' = [wc EXCEPT !.slot.checks = wc.slot.checks + 1]
    BY <1>1, <1>2 DEF Shapes, Slots
  <1> QED BY <1>2, <1>4, <1>5, FairStep

LEMMA ReconcileFailsFair ==
  ASSUME RequestsAssumption, StoreInv, KeptInv, ReconcileFails
  PROVE  KeptInv'
  <1>1. FairNow(wc, notify) /\ wc \in Shapes /\ SlotsInv(wc)
    BY DEF KeptInv, FairNow, StoreInv, Good
  <1>2. wc.slot.checks > 0 /\ wc' = SetStatus([wc EXCEPT !.slot.checks = @ - 1], "unknown")
        /\ UNCHANGED <<notify, hold, journal, onChain, answers>>
    BY DEF ReconcileFails, backend, relay
  <1> DEFINE w == [wc EXCEPT !.slot.checks = wc.slot.checks - 1]
  <1>3. wc.slot.checks - 1 \in Nat
    BY <1>1, <1>2 DEF Shapes, Slots
  <1>4. FairNow(w, notify) /\ w.slot.req = wc.slot.req
    BY <1>1, <1>3, FairChecks DEF FairNow
  <1>5. wc' = SetStatus(w, "unknown")
    BY <1>1, <1>2 DEF Shapes, Slots
  <1>6. wc.slot.req \in Recorded(journal)
    BY <1>1, <1>2, ShownIs DEF SlotsInv
  <1> HIDE DEF w
  <1>7. FairNow(wc', notify)
    BY <1>4, <1>5, <1>6, FairStatus DEF FairNow, Statuses
  <1> QED BY <1>2, <1>7, FairStep

\* No record of an ended session is shown for recovery.
LEMMA AcknowledgeRecoveredFair ==
  ASSUME KeptInv, AcknowledgeRecovered
  PROVE  KeptInv'
  <1>1. wc.slot.status # "recovered"
    BY DEF KeptInv, Fair, SlotFair
  <1> QED BY <1>1 DEF AcknowledgeRecovered

LEMMA ClearPublishedRequestFair ==
  ASSUME RequestsAssumption, StoreInv, KeptInv, ClearPublishedRequest
  PROVE  KeptInv'
  <1>1. FairNow(wc, notify)
    BY DEF KeptInv, FairNow
  <1>2. wc' = Drain(SetSlot(wc, NoSlot)) /\ UNCHANGED <<notify, hold, journal, onChain, answers>>
    BY DEF ClearPublishedRequest, backend, relay
  <1>3. FairNow(Drain(SetSlot(wc, NoSlot)), notify)
    BY <1>1, FairClear, FairDrain DEF FairNow
  <1> QED BY <1>2, <1>3, FairStep

LEMMA RejectRequestFair ==
  ASSUME RequestsAssumption, StoreInv, KeptInv, RejectRequest
  PROVE  KeptInv'
  <1>1. FairNow(wc, notify) /\ wc.slot.req \in Requests
        /\ wc.slot.req \in Unpublished(journal, onChain)
    BY ShownIs DEF KeptInv, FairNow, RejectRequest
  <1>2. wc' = Close(wc, "tell") /\ UNCHANGED <<notify, hold, journal, onChain, answers>>
    BY DEF RejectRequest, backend, relay
  <1>3. FairNow(wc', notify)
    BY <1>1, <1>2, FairClose DEF FairNow, Thens
  <1> QED BY <1>2, <1>3, FairStep

LEMMA CancelPendingFair ==
  ASSUME RequestsAssumption, StoreInv, KeptInv, NEW r \in Requests, CancelPending(r)
  PROVE  KeptInv'
  <1> DEFINE w == IF wc.slot.req = r THEN SetSlot(wc, NoSlot) ELSE wc
  <1>1. FairNow(wc, notify) /\ r \in Arrived(wc) /\ r \in Unpublished(journal, onChain)
    BY DEF KeptInv, FairNow, CancelPending, Arrived, Fair, ProcFair
  <1>2. /\ wc' \in {Drain(Finish(w, r)), Goto(w, r, "tell")} /\ hold' \in {hold, Nobody}
        /\ UNCHANGED <<notify, journal, onChain, answers>>
    BY DEF CancelPending, CancelHold, relay
  <1>3. FairNow(w, notify)
    BY <1>1, FairClear DEF FairNow
  <1> HIDE DEF w
  <1>4. FairNow(Drain(Finish(w, r)), notify)
    BY <1>1, <1>3, FairFinish, FairDrain DEF FairNow
  <1>5. FairNow(Goto(w, r, "tell"), notify)
    BY <1>1, <1>3, FairGoto DEF FairNow, Pcs
  <1> QED BY <1>2, <1>4, <1>5, FairStep

LEMMA ToldFair ==
  ASSUME RequestsAssumption, StoreInv, KeptInv, NEW r \in Requests, Told(r)
  PROVE  KeptInv'
  <1>1. FairNow(wc, notify) /\ r \in Arrived(wc) /\ r \in Unpublished(journal, onChain)
    BY DEF KeptInv, FairNow, Told, Arrived, Fair, ProcFair
  <1>2. /\ UNCHANGED <<notify, hold, journal, onChain>>
        /\ wc' \in {Drain(Finish(wc, r)), Finish(wc, r)}
        /\ Answers(r, "error") \/ UNCHANGED answers
    BY DEF Told, backend
  <1>3. FairNow(Drain(Finish(wc, r)), notify) /\ FairNow(Finish(wc, r), notify)
    BY <1>1, FairFinish, FairDrain DEF FairNow
  <1>4. \A x \in Requests :
          /\ Erred(answers', x) => Erred(answers, x) \/ x = r
          /\ Answered(answers, x) => Answered(answers', x)
    BY <1>2, AnswerAdds
  <1>5. hold' # Nobody =>
          hold' \in Unpublished(journal, onChain) /\ Key(hold') \notin DOMAIN journal
    BY <1>2 DEF KeptInv
  <1>6. FairNow(wc', notify')
    BY <1>2, <1>3
  <1> QED BY <1>1, <1>2, <1>4, <1>5, <1>6, KeptStep

-----------------------------------------------------------------------------
(* The records through what is pushed in between.                          *)

LEMMA WalletLockedFair ==
  ASSUME RequestsAssumption, StoreInv, KeptInv, WalletLocked
  PROVE  KeptInv'
  <1> DEFINE w == CutPreparation(wc)
  <1>1. FairNow(wc, notify)
    BY DEF KeptInv, FairNow
  <1>2. FairNow(w, notify) /\ w.slot = wc.slot
    BY <1>1, FairCut DEF FairNow
  <1>3. /\ wc' = IF wc.slot.status \in {"awaiting", "error"} THEN Close(w, "tell") ELSE w
        /\ UNCHANGED <<notify, hold, journal, onChain, answers>>
    BY DEF WalletLocked, backend, relay
  <1> HIDE DEF w
  <1>4. wc.slot.status \in {"awaiting", "error"} => FairNow(Close(w, "tell"), notify)
    BY <1>2, ShownIs, FairClose DEF FairNow, Thens
  <1> QED BY <1>2, <1>3, <1>4, FairStep

LEMMA UpdateAccountFair ==
  ASSUME RequestsAssumption, StoreInv, KeptInv, UpdateAccount
  PROVE  KeptInv'
  <1> DEFINE w == CutPreparation(wc)
  <1>1. FairNow(wc, notify)
    BY DEF KeptInv, FairNow
  <1>2. FairNow(w, notify) /\ w.slot = wc.slot
    BY <1>1, FairCut DEF FairNow
  <1>3. /\ wc' = IF wc.slot.status \in {"awaiting", "error"} THEN Close(w, "tellAnyway")
                 ELSE Drain(w)
        /\ UNCHANGED <<notify, hold, journal, onChain, answers>>
    BY DEF UpdateAccount, backend, relay
  <1> HIDE DEF w
  <1>4. wc.slot.status \in {"awaiting", "error"} => FairNow(Close(w, "tellAnyway"), notify)
    BY <1>2, ShownIs, FairClose DEF FairNow, Thens
  <1>5. FairNow(Drain(w), notify)
    BY <1>2, FairDrain DEF FairNow
  <1> QED BY <1>3, <1>4, <1>5, FairStep

LEMMA FairEndProc ==
  ASSUME RequestsAssumption, NEW U, NEW R, NEW C, NEW A, NEW r \in Requests,
         NEW k \in Processes, ProcFair(r, k, U, R, C, A)
  PROVE  ProcFair(r, EndProc(k), U, R, C, A)
  <1> DEFINE e == EndProc(k)
  <1>1. /\ k.pc # "waiting" => e.pc = k.pc /\ e.out = k.out /\ e.key = k.key
        /\ k.pc = "waiting" => e.pc = "done"
    BY EndedProcess
  <1> HIDE DEF e
  <1>2. k.pc # "waiting" => ProcFair(r, e, U, R, C, A)
    BY <1>1 DEF ProcFair
  <1>3. k.pc = "waiting" => ProcFair(r, e, U, R, C, A)
    BY <1>1 DEF ProcFair
  <1> QED BY <1>2, <1>3 DEF e

LEMMA MarkedFair ==
  ASSUME RequestsAssumption,
         NEW ns, NEW U, NEW R, NEW C, NEW A, Fair(wc, ns, U, R, C, A), NEW S \in SUBSET Requests
  PROVE  Fair(Marked(S), ns, U, R, C, A) /\ Marked(S).slot = wc.slot
  <1> DEFINE p == [wc.preparing EXCEPT !.ended = @ \/ wc.preparing.req \in S]
             gone == {e \in Queued(wc.queue) : ~e.local /\ e.req \in S}
             q == Without(wc.queue, gone)
             f == [r \in Requests |-> IF r \in S THEN EndProc(wc.proc[r]) ELSE wc.proc[r]]
             m == Marked(S)
  <1>1. wc \in Shapes /\ wc.proc \in [Requests -> Processes] /\ wc.slot \in Slots
        /\ wc.preparing \in Preparations
    BY DEF Fair, Shapes
  <1>2. p \in Preparations
    BY <1>1 DEF Preparations
  <1>3. m = [slot |-> wc.slot, preparing |-> p, queue |-> q, proc |-> f]
    BY DEF Marked
  <1> HIDE DEF p, gone
  <1>4. q \in Seq(Waiting) /\ \A i \in 1..Len(q) : EntryFair(q[i], R, A)
    BY FairWithout
  <1> HIDE DEF q
  <1>5. f \in [Requests -> Processes]
    BY <1>1, EndedProcess
  <1>6. \A r \in Requests : ProcFair(r, f[r], U, R, C, A)
    <2>1. \A r \in Requests : ProcFair(r, wc.proc[r], U, R, C, A)
      BY DEF Fair
    <2>2. \A r \in Requests : f[r] \in {wc.proc[r], EndProc(wc.proc[r])}
      OBVIOUS
    <2> HIDE DEF f
    <2> QED BY <1>1, <2>1, <2>2, FairEndProc
  <1> HIDE DEF f, m
  <1>7. m \in Shapes /\ m.slot = wc.slot /\ m.queue = q /\ m.proc = f
    BY <1>1, <1>2, <1>3, <1>4, <1>5 DEF Shapes
  <1> QED BY <1>4, <1>6, <1>7 DEF Fair, m

LEMMA EndFair ==
  ASSUME RequestsAssumption, StoreInv, KeptInv, NEW S \in SUBSET Requests, End(S),
         UNCHANGED <<notify, hold, journal, onChain, answers>>
  PROVE  KeptInv'
  <1> DEFINE U == Unpublished(journal, onChain)
             R == Recorded(journal)
             C == Unclaimed(journal)
             A == Arrived(wc)
             m == Marked(S)
             s == [m.slot EXCEPT !.ended = TRUE]
  <1>1. Fair(wc, notify, U, R, C, A)
    BY DEF KeptInv
  <1>2. wc' = IF wc.slot.req \notin S THEN m
              ELSE IF wc.slot.status \in {"awaiting", "error"} THEN Close(m, "silent")
              ELSE [m EXCEPT !.slot.ended = TRUE]
    BY DEF End
  <1>3. wc.slot.status \in {"awaiting", "error"} => wc.slot.req \in Requests /\ wc.slot.req \in U
    BY ShownIs
  <1> HIDE DEF U, R, C, A
  <1>4. Fair(m, notify, U, R, C, A) /\ m.slot = wc.slot
    BY <1>1, MarkedFair
  <1> HIDE DEF m
  <1>5. wc.slot.status \in {"awaiting", "error"} =>
          Fair(Close(m, "silent"), notify, U, R, C, A)
    BY <1>3, <1>4, FairClose DEF Thens
  <1>6. Fair([m EXCEPT !.slot.ended = TRUE], notify, U, R, C, A)
    <2>1. m \in Shapes /\ m.slot \in Slots
      BY <1>4 DEF Fair, Shapes
    <2>2. [m EXCEPT !.slot.ended = TRUE] = SetSlot(m, s)
      BY <2>1 DEF SetSlot, Shapes, Slots
    <2>3. /\ s \in Slots /\ s.req = m.slot.req /\ s.status = m.slot.status
          /\ (s.local <=> m.slot.local) /\ s.key = m.slot.key
      BY <2>1 DEF Slots
    <2> HIDE DEF s
    <2>4. SlotFair(s, U, R, C, A)
      BY <1>4, <2>3 DEF Fair, SlotFair
    <2>5. Fair(SetSlot(m, s), notify, U, R, C, A)
      BY <1>4, <2>3, <2>4, FairSlot
    <2> QED BY <2>2, <2>5
  <1>7. Fair(wc', notify', U, R, C, A)
    BY <1>2, <1>4, <1>5, <1>6
  <1> QED BY <1>7, FairStep DEF FairNow, U, R, C, A

LEMMA SessionEndedFair ==
  ASSUME RequestsAssumption, StoreInv, KeptInv, NEW t \in Topics, SessionEnded(t)
  PROVE  KeptInv'
  <1> DEFINE S == {r \in Requests : r.topic = t}
  <1>1. End(S) /\ UNCHANGED <<notify, hold, journal, onChain, answers>>
    BY DEF SessionEnded, backend
  <1>2. S \in SUBSET Requests
    OBVIOUS
  <1> HIDE DEF S
  <1> QED BY <1>1, <1>2, EndFair

LEMMA RequestExpiredFair ==
  ASSUME RequestsAssumption, StoreInv, passed \subseteq Requests, KeptInv, NEW i, RequestExpired(i)
  PROVE  KeptInv'
  <1>1. End(Expired(i)) /\ UNCHANGED <<notify, hold, journal, onChain, answers>>
    BY DEF RequestExpired, backend, relay
  <1>2. Expired(i) \in SUBSET Requests
    BY DEF Expired
  <1> QED BY <1>1, <1>2, EndFair

\* A deadline, or nothing at all, passes.
LEMMA StoreStandsFair ==
  ASSUME StoreInv, KeptInv, UNCHANGED <<wc, notify, hold, journal, onChain, answers>>
  PROVE  KeptInv'
  <1>1. FairNow(wc', notify')
    BY DEF KeptInv, FairNow
  <1> QED BY <1>1, FairStep

LEMMA DeadlinePassesFair ==
  ASSUME StoreInv, KeptInv, NEW r \in Requests, DeadlinePasses(r)
  PROVE  KeptInv'
  BY StoreStandsFair DEF DeadlinePasses, backend

\* A store that starts again has nobody's request yet.
LEMMA FairStart ==
  ASSUME RequestsAssumption, NEW U, NEW R, NEW C, R \subseteq C, R \subseteq Requests
  PROVE  Fair(Store0, [r \in Requests |-> 0], U, R, C, {}) /\ Arrived(Store0) = {}
  <1> DEFINE ns == [r \in Requests |-> 0]
             ds == {}
             as == [r \in Requests |-> <<>>]
  <1>1. Store0 \in Shapes
    <2>1. as \in [Requests -> Seq({"result", "error"})] /\ \A r \in Requests : Len(as[r]) <= 1
      OBVIOUS
    <2> HIDE DEF as
    <2> QED BY <2>1, StartIsGood DEF Good
  <1>2. /\ Store0.slot = NoSlot /\ Store0.queue = <<>>
        /\ \A r \in Requests : Store0.proc[r] = NotArrived
    BY DEF Store0
  <1>3. NotArrived.pc = "new" /\ SlotFair(NoSlot, U, R, C, {})
    BY Constants DEF NotArrived, At, SlotFair, NoSlot
  <1>4. \A r \in Requests : ProcFair(r, NotArrived, U, R, C, {})
    BY <1>3 DEF ProcFair
  <1> QED BY <1>1, <1>2, <1>3, <1>4 DEF Fair, Arrived

LEMMA RestartFair ==
  ASSUME RequestsAssumption, StoreInv, KeptInv, Restart
  PROVE  KeptInv'
  <1> DEFINE U == Unpublished(journal, onChain)
             R == Recorded(journal)
             C == Unclaimed(journal)
  <1>1. /\ wc' = Store0 /\ notify' = [r \in Requests |-> 0] /\ hold' = Nobody
        /\ UNCHANGED <<journal, onChain, answers>>
    BY DEF Restart, relay
  <1>2. R \subseteq C /\ R \subseteq Requests
    BY DEF Recorded, Unclaimed
  <1> HIDE DEF U, R, C
  <1>3. Fair(wc', notify', U, R, C, {}) /\ Arrived(wc') = {}
    BY <1>1, <1>2, FairStart
  <1>4. U' = U /\ R' = R /\ C' = C
    BY <1>1 DEF U, R, C, Unpublished, Recorded, Unclaimed, Journaled
  <1>5. (Fair(wc, notify, U, R, C, Arrived(wc)))'
    BY <1>3, <1>4
  <1>6. /\ \A k \in DOMAIN journal : \E x \in Requests : Key(x) = k /\ Journaled(journal, x)
        /\ \A x \in Requests : Erred(answers, x) => x \in U
        /\ \A x \in onChain : ~Answered(answers, x) => Journaled(journal, x)
    BY DEF KeptInv, U
  <1>7. (/\ \A k \in DOMAIN journal : \E x \in Requests : Key(x) = k /\ Journaled(journal, x)
         /\ \A x \in Requests : Erred(answers, x) => x \in U
         /\ \A x \in onChain : ~Answered(answers, x) => Journaled(journal, x))'
    BY <1>1, <1>4, <1>6 DEF Journaled, Erred, Answered
  <1> QED BY <1>1, <1>3, <1>5, <1>7 DEF KeptInv, U, R, C

-----------------------------------------------------------------------------
(* The records where the journal changes.                                  *)

\* The outcome is found: the records keep their requests, and what is found on
\* chain is journaled.
LEMMA ReconciledFair ==
  ASSUME RequestsAssumption, StoreInv, KeptInv, Reconciled
  PROVE  KeptInv'
  <1> DEFINE U == Unpublished(journal, onChain)
             R == Recorded(journal)
             C == Unclaimed(journal)
             A == Arrived(wc)
             k == wc.slot.key
             w == [wc EXCEPT !.slot.checks = wc.slot.checks - 1]
             found == {r \in Requests : Key(r) = k /\ J!IntentOf(r) = journal[k].intent}
  <1>1. Fair(wc, notify, U, R, C, A) /\ notify \in [Requests -> Nat] /\ wc \in Shapes
        /\ SlotsInv(wc) /\ ~wc.slot.local /\ JournalFits(journal)
    BY DEF KeptInv, StoreInv, Good, Fair, SlotFair
  <1>2. /\ wc.slot.checks > 0 /\ k \in DOMAIN journal
        /\ journal' = J!MarkPublished(journal, k) /\ onChain' = onChain \cup found
        /\ UNCHANGED <<hold, answers>>
    BY DEF Reconciled, relay
  <1>3. DeliverPublished(w)
    <2>1. [wc EXCEPT !.slot.checks = @ - 1] = w
      BY <1>1 DEF Shapes, Slots
    <2> QED BY <1>1, <2>1 DEF Reconciled
  <1>4. wc.slot.checks - 1 \in Nat
    BY <1>1, <1>2 DEF Shapes, Slots
  <1>5. wc.slot.req \in R
    BY <1>1, <1>2, ShownIs DEF SlotsInv
  <1>6. /\ DOMAIN journal' = DOMAIN journal
        /\ \A x \in DOMAIN journal : journal'[x].intent = journal[x].intent
    <2>1. PICK D \in SUBSET {Key(x) : x \in Requests} :
            journal \in [D -> [intent : {J!IntentOf(x) : x \in Requests}, state : J!States]]
      BY <1>1 DEF JournalFits
    <2> QED BY <1>2, <2>1 DEF J!MarkPublished
  <1>7. \A r \in Requests : Journaled(journal', r) <=> Journaled(journal, r)
    BY <1>6 DEF Journaled
  <1>8. found \subseteq Requests /\ \A r \in found : Journaled(journal, r)
    BY <1>2 DEF Journaled
  <1> HIDE DEF found
  <1>9. /\ Unpublished(journal', onChain') = U /\ Recorded(journal') = R
        /\ Unclaimed(journal') = C
    BY <1>2, <1>6, <1>7, <1>8 DEF Unpublished, Recorded, Unclaimed
  <1>10. Fair(wc', notify', U, R, C, A)
    <2> HIDE DEF U, R, C, A
    <2>1. Fair(w, notify, U, R, C, A) /\ w.slot.req = wc.slot.req
      BY <1>1, <1>4, FairChecks
    <2> HIDE DEF w
    <2> QED BY <1>1, <1>3, <1>5, <2>1, FairTelling
  <1>11. Arrived(wc') = A
    BY <1>10 DEF Fair, ProcFair, Arrived
  <1>12. /\ \A q, r \in A : Key(q) = Key(r) => q = r
         /\ \A x \in DOMAIN journal : \E r \in Requests : Key(r) = x /\ Journaled(journal, r)
         /\ hold # Nobody => hold \in U /\ Key(hold) \notin DOMAIN journal
         /\ \A r \in Requests : Erred(answers, r) => r \in U
         /\ \A r \in onChain : ~Answered(answers, r) => Journaled(journal, r)
    BY DEF KeptInv
  <1> HIDE DEF U, R, C, A
  <1>13. (/\ Fair(wc, notify, Unpublished(journal, onChain), Recorded(journal),
                  Unclaimed(journal), Arrived(wc))
          /\ \A q, r \in Arrived(wc) : Key(q) = Key(r) => q = r)'
    BY <1>9, <1>10, <1>11, <1>12
  <1>14. (/\ \A x \in DOMAIN journal : \E r \in Requests : Key(r) = x /\ Journaled(journal, r)
          /\ hold # Nobody =>
               hold \in Unpublished(journal, onChain) /\ Key(hold) \notin DOMAIN journal)'
    BY <1>2, <1>6, <1>7, <1>9, <1>12
  <1>15. (\A r \in Requests : Erred(answers, r) => r \in Unpublished(journal, onChain))'
    BY <1>2, <1>9, <1>12 DEF Erred
  <1>16. (\A r \in onChain : ~Answered(answers, r) => Journaled(journal, r))'
    <2>1. onChain \subseteq Requests
      BY DEF StoreInv
    <2> QED BY <1>2, <1>7, <1>8, <1>12, <2>1 DEF Answered
  <1> QED BY <1>13, <1>14, <1>15, <1>16 DEF KeptInv

\* r is over and its record deleted.
LEMMA FairDeleted ==
  ASSUME NEW w, NEW ns, NEW U, NEW R, NEW C, NEW A, Fair(w, ns, U, R, C, A),
         NEW r \in Requests, w.proc[r].pc \in {"new", "done"}, w.slot.req # r,
         ~Queues(w.queue, r),
         NEW V, NEW Q, NEW D, U \subseteq V, Q \subseteq R, R \ {r} \subseteq Q, C \subseteq D
  PROVE  Fair(w, ns, V, Q, D, A)
  <1>1. \A x \in Requests : ProcFair(x, w.proc[x], U, R, C, A)
    BY DEF Fair
  <1>2. ProcFair(r, w.proc[r], V, Q, D, A)
    BY <1>1 DEF ProcFair
  <1>3. ASSUME NEW x \in Requests, x # r
        PROVE  ProcFair(x, w.proc[x], V, Q, D, A)
    BY <1>1, <1>3 DEF ProcFair
  <1>4. SlotFair(w.slot, V, Q, D, A)
    <2>1. SlotFair(w.slot, U, R, C, A)
      BY DEF Fair
    <2> QED BY <2>1 DEF SlotFair
  <1>5. \A i \in 1..Len(w.queue) : EntryFair(w.queue[i], Q, A)
    BY DEF Fair, EntryFair, Queues
  <1>6. /\ w \in Shapes /\ Q \subseteq D /\ Q \subseteq Requests
        /\ \A x \in Requests : ns[x] > 0 => x \in D \cap A
    BY DEF Fair
  <1> QED BY <1>2, <1>3, <1>4, <1>5, <1>6 DEF Fair

\* The dapp has r's result, and r's record is deleted or stays.
LEMMA DeliveredFair ==
  ASSUME RequestsAssumption, OwnIntents, StoreInv, StoreInv', KeptInv, NEW r \in Requests,
         r \in Unclaimed(journal), FairNow(wc', notify'), Answers(r, "result"),
         journal' \in {journal, J!DeletePublished(journal, Key(r))}, UNCHANGED <<hold, onChain>>
  PROVE  KeptInv'
  <1> DEFINE U == Unpublished(journal, onChain)
             R == Recorded(journal)
             C == Unclaimed(journal)
             A == Arrived(wc)
  <1>1. \A x \in Requests :
          /\ Erred(answers', x) => Erred(answers, x)
          /\ Answered(answers, x) => Answered(answers', x)
    BY AnswerAdds
  <1>2. Answered(answers', r)
    <2>1. answers \in [Requests -> Seq({"result", "error"})]
      BY DEF StoreInv, Good
    <2>2. answers'[r] = Append(answers[r], "result") /\ answers[r] \in Seq({"result", "error"})
      BY <2>1 DEF Answers
    <2>3. Append(answers[r], "result") # <<>>
      BY <2>2
    <2> QED BY <2>2, <2>3 DEF Answered
  <1>3. CASE journal' = journal
    <2>1. hold' # Nobody => hold' \in U /\ Key(hold') \notin DOMAIN journal
      BY DEF KeptInv
    <2> QED BY <1>1, <1>3, <2>1, KeptStep
  <1>4. CASE journal' # journal
    <2>1. /\ Key(r) \in DOMAIN journal /\ DOMAIN journal' = DOMAIN journal \ {Key(r)}
          /\ \A x \in DOMAIN journal' : journal'[x] = journal[x]
      BY <1>4 DEF J!DeletePublished, J!CanDelete, J!Restrict, Restrict
    <2>2. Journaled(journal, r)
      BY <2>1 DEF Unclaimed
    <2>3. \A x \in Requests : x # r /\ Journaled(journal, x) => Key(x) # Key(r)
      BY <2>2 DEF Journaled, OwnIntents
    <2>4. \A x \in Requests : Journaled(journal', x) <=> Journaled(journal, x) /\ x # r
      BY <2>1, <2>3 DEF Journaled
    <2> DEFINE V == Unpublished(journal', onChain')
               Q == Recorded(journal')
               D == Unclaimed(journal')
    <2>5. U \subseteq V
      BY <2>4 DEF Unpublished
    <2>6. Q \subseteq R /\ R \ {r} \subseteq Q
      BY <2>4 DEF Recorded
    <2>7. C \subseteq D
      BY <2>1, <2>4 DEF Unclaimed
    <2>8. Fair(wc', notify', U, R, C, A)
      BY DEF FairNow
    <2>9. wc'.proc[r].pc \in {"new", "done"} /\ wc'.slot.req # r /\ ~Queues(wc'.queue, r)
      <3>1. AnsweredInv(wc', answers')
        BY DEF StoreInv, Good
      <3> QED BY <1>2, <3>1 DEF AnsweredInv
    <2> HIDE DEF U, R, C, A, V, Q, D
    <2>10. Fair(wc', notify', V, Q, D, A)
      BY <2>5, <2>6, <2>7, <2>8, <2>9, FairDeleted
    <2>11. Arrived(wc') = A
      BY <2>10 DEF Fair, ProcFair, Arrived, A
    <2>12. /\ \A q, x \in A : Key(q) = Key(x) => q = x
           /\ \A k \in DOMAIN journal : \E x \in Requests : Key(x) = k /\ Journaled(journal, x)
           /\ hold # Nobody => hold \in U /\ Key(hold) \notin DOMAIN journal
           /\ \A x \in Requests : Erred(answers, x) => x \in U
           /\ \A x \in onChain : ~Answered(answers, x) => Journaled(journal, x)
      BY DEF KeptInv, U, A
    <2>13. (Fair(wc, notify, Unpublished(journal, onChain), Recorded(journal),
                 Unclaimed(journal), Arrived(wc)))'
      BY <2>10, <2>11 DEF V, Q, D
    <2>14. (\A q, x \in Arrived(wc) : Key(q) = Key(x) => q = x)'
      BY <2>11, <2>12
    <2>15. (\A k \in DOMAIN journal : \E x \in Requests : Key(x) = k /\ Journaled(journal, x))'
      BY <2>1, <2>4, <2>12
    <2>16. (hold # Nobody =>
              hold \in Unpublished(journal, onChain) /\ Key(hold) \notin DOMAIN journal)'
      BY <2>1, <2>5, <2>12 DEF V
    <2>17. (\A x \in Requests : Erred(answers, x) => x \in Unpublished(journal, onChain))'
      <3>1. \A x \in Requests : Erred(answers', x) => x \in V
        BY <1>1, <2>5, <2>12
      <3> QED BY <3>1 DEF V, Erred
    <2>18. (\A x \in onChain : ~Answered(answers, x) => Journaled(journal, x))'
      <3>1. onChain \subseteq Requests
        BY DEF StoreInv
      <3>2. \A x \in onChain : ~Answered(answers', x) => Journaled(journal', x)
        BY <1>1, <1>2, <2>4, <2>12, <3>1
      <3> QED BY <3>2 DEF Answered
    <2> QED BY <2>13, <2>14, <2>15, <2>16, <2>17, <2>18 DEF KeptInv
  <1> QED BY <1>3, <1>4

LEMMA ReplayDeliveredFair ==
  ASSUME RequestsAssumption, OwnIntents, StoreInv, KeptInv, NEW r \in Requests, ReplayDelivered(r)
  PROVE  KeptInv'
  <1> DEFINE U == Unpublished(journal, onChain)
             R == Recorded(journal)
             C == Unclaimed(journal)
             A == Arrived(wc)
             p == wc.proc[r]
             w == Unmarked(wc, r)
  <1>1. Fair(wc, notify, U, R, C, A)
    BY DEF KeptInv
  <1>2. /\ p.pc = "deliver" /\ wc' = AfterDelivery(w, r, p.then) /\ Answers(r, "result")
        /\ journal' = J!DeletePublished(journal, p.key) \/ UNCHANGED journal
        /\ UNCHANGED <<notify, hold, onChain>>
    BY DEF ReplayDelivered, Unmarked
  <1>3. r \in A /\ r \in R /\ p.key = Key(r) /\ r \in C
    BY <1>1, <1>2 DEF Fair, ProcFair, Arrived
  <1>4. StoreInv'
    BY ReplayDeliveredKeeps
  <1> HIDE DEF U, R, C, A, p
  <1>5. Fair(w, notify, U, R, C, A)
    BY <1>1, FairUnmarked
  <1> HIDE DEF w
  <1>6. Fair(AfterDelivery(w, r, p.then), notify, U, R, C, A)
    BY <1>3, <1>5, FairAfterDelivery
  <1>7. FairNow(wc', notify')
    BY <1>2, <1>6 DEF FairNow, U, R, C, A
  <1>8. r \in Unclaimed(journal)
    BY <1>3 DEF C
  <1>9. journal' \in {journal, J!DeletePublished(journal, Key(r))}
    BY <1>2, <1>3
  <1> QED BY <1>2, <1>4, <1>7, <1>8, <1>9, DeliveredFair

LEMMA NotifiedFair ==
  ASSUME RequestsAssumption, OwnIntents, StoreInv, KeptInv, NEW r \in Requests, Notified(r)
  PROVE  KeptInv'
  <1> DEFINE U == Unpublished(journal, onChain)
             R == Recorded(journal)
             C == Unclaimed(journal)
             A == Arrived(wc)
             ns == [notify EXCEPT ![r] = @ - 1]
             w == IF wc.slot.req = r THEN SetSlot(wc, NoSlot) ELSE wc
             key == IF wc.slot.req = r THEN wc.slot.key ELSE Key(r)
  <1>1. Fair(wc, notify, U, R, C, A) /\ notify \in [Requests -> Nat]
    BY DEF KeptInv, StoreInv, Good
  <1>2. /\ notify[r] > 0 /\ notify' = ns /\ wc' = Drain(w) /\ Answers(r, "result")
        /\ journal' = J!DeletePublished(journal, key) \/ UNCHANGED journal
        /\ UNCHANGED <<hold, onChain>>
    BY DEF Notified
  <1>3. r \in C /\ key = Key(r)
    BY <1>1, <1>2 DEF Fair, SlotFair
  <1>4. StoreInv'
    BY NotifiedKeeps
  <1> HIDE DEF U, R, C, A, key
  <1>5. Fair(wc, ns, U, R, C, A)
    BY <1>1, <1>2, FairNotifyLess
  <1> HIDE DEF ns
  <1>6. Fair(w, ns, U, R, C, A)
    BY <1>5, FairClear
  <1> HIDE DEF w
  <1>7. Fair(Drain(w), ns, U, R, C, A)
    BY <1>6, FairDrain
  <1>8. FairNow(wc', notify')
    BY <1>2, <1>7 DEF FairNow, U, R, C, A
  <1>9. r \in Unclaimed(journal)
    BY <1>3 DEF C
  <1>10. journal' \in {journal, J!DeletePublished(journal, Key(r))}
    BY <1>2, <1>3
  <1> QED BY <1>2, <1>4, <1>8, <1>9, <1>10, DeliveredFair

\* r is signed, and no other request that arrived has its key.
LEMMA FairSigned ==
  ASSUME NEW w, NEW ns, NEW U, NEW R, NEW C, NEW A, Fair(w, ns, U, R, C, A),
         NEW r \in Requests, r \in A, w.proc[r].pc = "confirm",
         w.slot.req = r => w.slot.status = "publishing",
         NEW k \in Processes, k.pc = "confirmed", k.out # "error",
         NEW V, NEW Q, NEW D, U \ {r} \subseteq V, Q = R \cup {r}, C \cap A \subseteq D,
         Q \subseteq D
  PROVE  Fair(SetProc(w, r, k), ns, V, Q, D, A)
  <1> DEFINE u == SetProc(w, r, k)
  <1>1. /\ u \in Shapes /\ u.proc[r] = k /\ \A x \in Requests \ {r} : u.proc[x] = w.proc[x]
        /\ u.slot = w.slot /\ u.preparing = w.preparing /\ u.queue = w.queue
    BY ProcSet DEF Fair
  <1>2. \A x \in Requests : ProcFair(x, w.proc[x], U, R, C, A)
    BY DEF Fair
  <1>3. ProcFair(r, k, V, Q, D, A)
    BY DEF ProcFair
  <1>4. ASSUME NEW x \in Requests, x # r
        PROVE  ProcFair(x, w.proc[x], V, Q, D, A)
    BY <1>2, <1>4 DEF ProcFair
  <1>5. SlotFair(w.slot, V, Q, D, A)
    <2>1. SlotFair(w.slot, U, R, C, A)
      BY DEF Fair
    <2> QED BY <2>1 DEF SlotFair
  <1>6. \A i \in 1..Len(w.queue) : EntryFair(w.queue[i], Q, A)
    BY DEF Fair, EntryFair
  <1>7. Q \subseteq Requests /\ \A x \in Requests : ns[x] > 0 => x \in D \cap A
    BY DEF Fair
  <1> HIDE DEF u
  <1> QED BY <1>1, <1>3, <1>4, <1>5, <1>6, <1>7 DEF Fair, u

LEMMA ConfirmRunsFair ==
  ASSUME RequestsAssumption, OwnIntents, StoreInv, KeptInv, NEW r \in Requests, ConfirmRuns(r)
  PROVE  KeptInv'
  <1> DEFINE U == Unpublished(journal, onChain)
             R == Recorded(journal)
             C == Unclaimed(journal)
             A == Arrived(wc)
             p == wc.proc[r]
  <1>1. Fair(wc, notify, U, R, C, A) /\ OwnersInv(wc)
    BY DEF KeptInv, StoreInv, Good
  <1>2. p.pc = "confirm" /\ UNCHANGED <<notify, answers>>
    BY DEF ConfirmRuns, relay
  <1>3. r \in A /\ p \in Processes /\ r \in U /\ r \in C
    BY <1>1, <1>2 DEF Fair, ProcFair, Shapes, Arrived
  <1>4. CASE /\ Answer(r, "confirmed", "error", Nobody) /\ hold' \in {hold, Nobody}
             /\ UNCHANGED <<journal, onChain>>
    <2> DEFINE k == Reply(p, "confirmed", "error", Nobody)
    <2>1. k \in Processes /\ k.pc = "confirmed" /\ k.out = "error"
      BY <1>3, Constants DEF Reply, Processes, Pcs, Outs
    <2>2. wc' = SetProc(wc, r, k)
      BY <1>4 DEF Answer, Reply
    <2> HIDE DEF k, U, R, C, A
    <2>3. ProcFair(r, k, U, R, C, A)
      BY <1>3, <2>1 DEF ProcFair
    <2>4. Fair(wc', notify', U, R, C, A)
      BY <1>1, <1>2, <2>1, <2>2, <2>3, FairProc
    <2> QED BY <1>2, <1>4, <2>4, FairStep DEF FairNow, U, R, C, A
  <1>5. ASSUME NEW out \in {"unknown", "published"}, NEW state, hold = r, hold' = Nobody,
               Answer(r, "confirmed", out, Key(r)),
               journal' = J!Put(journal, Key(r), RecordOf(r, state)),
               onChain' \in {onChain, onChain \cup {r}}
        PROVE  KeptInv'
    <2> DEFINE k == Reply(p, "confirmed", out, Key(r))
               V == Unpublished(journal', onChain')
               Q == Recorded(journal')
               D == Unclaimed(journal')
    <2>1. k \in Processes /\ k.pc = "confirmed" /\ k.out # "error"
      BY <1>3, Constants DEF Reply, Processes, Pcs, Outs
    <2>2. wc' = SetProc(wc, r, k)
      BY <1>5 DEF Answer, Reply
    <2> HIDE DEF k
    <2>3. Key(r) \notin DOMAIN journal
      BY <1>5 DEF KeptInv, RequestsAssumption
    <2>4. /\ DOMAIN journal' = DOMAIN journal \cup {Key(r)}
          /\ journal'[Key(r)].intent = J!IntentOf(r)
          /\ \A x \in DOMAIN journal : journal'[x] = journal[x]
      BY <1>5, <2>3 DEF J!Put, RecordOf
    <2>5. Journaled(journal', r)
          /\ \A x \in Requests : Journaled(journal, x) => Journaled(journal', x)
      BY <2>4 DEF Journaled
    <2>6. \A x \in Requests : Journaled(journal', x) <=> Journaled(journal, x) \/ x = r
      BY <2>3, <2>4, <2>5 DEF Journaled, OwnIntents
    <2>7. Q = R \cup {r}
      BY <2>6 DEF Recorded
    <2>8. U \ {r} \subseteq V
      BY <1>5, <2>6 DEF Unpublished
    <2>9. C \cap A \subseteq D /\ Q \subseteq D
      <3>1. \A x \in A : Key(x) = Key(r) => x = r
        BY <1>3 DEF KeptInv
      <3>2. A \subseteq Requests
        BY DEF Arrived
      <3> HIDE DEF A
      <3> QED BY <2>4, <2>6, <3>1, <3>2 DEF Unclaimed, Recorded
    <2>10. wc.slot.req = r => wc.slot.status = "publishing"
      BY <1>1, <1>2 DEF OwnersInv
    <2> HIDE DEF U, R, C, A, V, Q, D, p
    <2>11. Fair(wc', notify', V, Q, D, A)
      <3>1. wc.proc[r].pc = "confirm"
        BY <1>2 DEF p
      <3> QED BY <1>1, <1>2, <1>3, <2>1, <2>2, <2>7, <2>8, <2>9, <2>10, <3>1, FairSigned
    <2>12. Arrived(wc') = A
      BY <2>11 DEF Fair, ProcFair, Arrived, A
    <2>13. /\ \A q, x \in A : Key(q) = Key(x) => q = x
           /\ \A c \in DOMAIN journal : \E x \in Requests : Key(x) = c /\ Journaled(journal, x)
           /\ \A x \in Requests : Erred(answers, x) => x \in U
           /\ \A x \in onChain : ~Answered(answers, x) => Journaled(journal, x)
      BY DEF KeptInv, U, A
    <2>14. ~Erred(answers, r)
      <3>1. ~Answered(answers, r)
        BY <1>2, ActiveIsFree DEF StoreInv, p
      <3> QED BY <3>1 DEF Answered, Erred
    <2>15. (Fair(wc, notify, Unpublished(journal, onChain), Recorded(journal),
                 Unclaimed(journal), Arrived(wc)))'
      BY <2>11, <2>12 DEF V, Q, D
    <2>16. (\A q, x \in Arrived(wc) : Key(q) = Key(x) => q = x)'
      BY <2>12, <2>13
    <2>17. (\A c \in DOMAIN journal : \E x \in Requests : Key(x) = c /\ Journaled(journal, x))'
      BY <2>4, <2>6, <2>13
    <2>18. (\A x \in Requests : Erred(answers, x) => x \in Unpublished(journal, onChain))'
      <3>1. \A x \in Requests : Erred(answers, x) => x \in V
        BY <2>8, <2>13, <2>14
      <3> QED BY <1>2, <3>1 DEF V, Erred
    <2>19. (\A x \in onChain : ~Answered(answers, x) => Journaled(journal, x))'
      <3>1. onChain \subseteq Requests
        BY DEF StoreInv
      <3>2. \A x \in onChain' : ~Answered(answers, x) => Journaled(journal', x)
        BY <1>5, <2>6, <2>13, <3>1
      <3> QED BY <1>2, <3>2 DEF Answered
    <2> QED BY <1>5, <2>15, <2>16, <2>17, <2>18, <2>19 DEF KeptInv
  <1> QED BY <1>4, <1>5 DEF ConfirmRuns

\* The journal an earlier run may have left has a record for each of its keys.
LEMMA InitFair ==
  ASSUME RequestsAssumption, Init
  PROVE  KeptInv
  <1>1. /\ wc = Store0 /\ notify = [r \in Requests |-> 0] /\ hold = Nobody
        /\ answers = [r \in Requests |-> <<>>]
    BY DEF Init
  <1>2. PICK S \in SUBSET Earlier :
          /\ \A q, r \in S : Key(q) = Key(r) => q = r
          /\ \E state \in [S -> J!States] :
               /\ journal = [k \in {Key(r) : r \in S} |->
                               LET r == CHOOSE q \in S : Key(q) = k IN RecordOf(r, state[r])]
               /\ \E C \in SUBSET S : onChain = C \cup {r \in S : state[r] = "published"}
    BY DEF Init
  <1>3. PICK state \in [S -> J!States] :
          /\ journal = [k \in {Key(r) : r \in S} |->
                          LET r == CHOOSE q \in S : Key(q) = k IN RecordOf(r, state[r])]
          /\ \E C \in SUBSET S : onChain = C \cup {r \in S : state[r] = "published"}
    BY <1>2
  <1>4. S \subseteq Requests
    BY DEF RequestsAssumption
  <1>5. \A r \in S : Key(r) \in DOMAIN journal /\ journal[Key(r)] = RecordOf(r, state[r])
    <2> DEFINE own(k) == CHOOSE q \in S : Key(q) = k
    <2>1. \A r \in S : own(Key(r)) = r
      BY <1>2
    <2>2. journal = [k \in {Key(r) : r \in S} |-> RecordOf(own(k), state[own(k)])]
      BY <1>3
    <2> HIDE DEF own
    <2> QED BY <2>1, <2>2
  <1>6. \A r \in S : Journaled(journal, r)
    <2>1. \A r \in S : RecordOf(r, state[r]).intent = J!IntentOf(r)
      BY DEF RecordOf
    <2> QED BY <1>5, <2>1 DEF Journaled
  <1>7. DOMAIN journal = {Key(r) : r \in S} /\ onChain \subseteq S
    BY <1>3
  <1>8. Recorded(journal) \subseteq Unclaimed(journal) /\ Recorded(journal) \subseteq Requests
    BY DEF Recorded, Unclaimed
  <1>9. /\ Fair(wc, notify, Unpublished(journal, onChain), Recorded(journal), Unclaimed(journal),
                {})
        /\ Arrived(wc) = {}
    BY <1>1, <1>8, FairStart
  <1>10. \A r \in Requests : ~Erred(answers, r)
    BY <1>1 DEF Erred
  <1> QED BY <1>1, <1>4, <1>6, <1>7, <1>9, <1>10 DEF KeptInv

LEMMA HandlerFair ==
  ASSUME RequestsAssumption, OwnIntents, StoreInv, KeptInv, NEW r \in Requests, Handler(r)
  PROVE  KeptInv'
  BY LookupRunsFair, LookupAnsweredFair, RetryFailedLookupFair, FailAnsweredFair, RefusedFair,
     PrepareRunsFair, PrepareAnsweredFair, CancelPreparedFair, ReplayDeliveredFair,
     ReplayFailsFair, ConfirmRunsFair, ConfirmAnsweredFair, CancelPendingFair, ToldFair
     DEF Handler

LEMMA UserFair ==
  ASSUME RequestsAssumption, BoundsAssumption, StoreInv, KeptInv, User
  PROVE  KeptInv'
  BY ApproveRequestFair, RejectRequestFair, RetryPublishedResponseFair, ReconcileRequestFair,
     AcknowledgeRecoveredFair, ClearPublishedRequestFair, WalletLockedFair, UpdateAccountFair
     DEF User

LEMMA NextFair ==
  ASSUME RequestsAssumption, BoundsAssumption, OwnIntents, StoreInv, passed \subseteq Requests,
         KeptInv, [Next]_vars
  PROVE  KeptInv'
  <1>1. CASE UNCHANGED vars
    BY <1>1, StoreStandsFair DEF vars, backend, relay
  <1>2. ASSUME NEW r \in Requests,
               HandleRequest(r) \/ Handler(r) \/ Notification(r) \/ DeadlinePasses(r)
        PROVE  KeptInv'
    BY <1>2, HandleRequestFair, HandlerFair, NotifiedFair, NotifyFailsFair, DeadlinePassesFair
       DEF Notification
  <1>3. CASE User \/ Reconciled \/ ReconcileFails
    BY <1>3, UserFair, ReconciledFair, ReconcileFailsFair
  <1>4. CASE \/ \E t \in Topics : SessionEnded(t)
             \/ \E i \in {r.id : r \in Requests} : RequestExpired(i)
             \/ Restart
    BY <1>4, SessionEndedFair, RequestExpiredFair, RestartFair
  <1> QED BY <1>1, <1>2, <1>3, <1>4 DEF Next

\* The journal and the store agree, when no two requests ask for the same
\* transfer: whatever may still be refused is neither journaled nor on chain, and
\* whatever is replayed or shown as open has its own record.
THEOREM RecordsInvariant ==
  ASSUME RequestsAssumption, BoundsAssumption, OwnIntents
  PROVE  Spec => []KeptInv
  <1> DEFINE Inv == StoreInv /\ passed \subseteq Requests /\ KeptInv
  <1>1. Init => Inv
    BY InitKeeps, InitFair
  <1>2. Inv /\ [Next]_vars => Inv'
    BY NextKeeps, PassedKeeps, NextFair
  <1>3. Inv => KeptInv
    OBVIOUS
  <1> HIDE DEF Inv
  <1> QED BY <1>1, <1>2, <1>3, PTL DEF Spec

\* A request whose own block is, or may be, on chain is never answered with an
\* error, before or after: neither the session's end, a lock, an account switch
\* nor a failed delivery turns into a rejection (walletconnect.ts:877-878).
THEOREM NeverRejectedOncePublished ==
  ASSUME RequestsAssumption, BoundsAssumption, OwnIntents
  PROVE  Spec => []PublishedNeverRejected
  <1>1. StoreInv /\ KeptInv => PublishedNeverRejected
    <2> SUFFICES ASSUME StoreInv, KeptInv, NEW r \in Requests,
                        "error" \in {answers[r][i] : i \in DOMAIN answers[r]}
                 PROVE  r \notin onChain /\ ~Journaled(journal, r)
      BY DEF PublishedNeverRejected, Journaled
    <2>1. answers[r] \in Seq({"result", "error"})
      BY DEF StoreInv, Good
    <2>2. Erred(answers, r)
      BY <2>1 DEF Erred
    <2> QED BY <2>2 DEF KeptInv, Unpublished
  <1> QED BY <1>1, StoreInvariant, RecordsInvariant, PTL

\* A published request that is still to be answered keeps its journal record, so
\* that it is replayed and never signed again (walletconnect.ts:990-991).
THEOREM RecordsKept ==
  ASSUME RequestsAssumption, BoundsAssumption, OwnIntents
  PROVE  Spec => []PublishedKeepsRecord
  <1>1. KeptInv => PublishedKeepsRecord
    BY DEF KeptInv, PublishedKeepsRecord, Journaled, Answered
  <1> QED BY <1>1, RecordsInvariant, PTL

\* A request shown as unresolved has the journal record that reconciliation
\* needs (walletconnect.ts:88-91: the journal is the source of truth).
THEOREM UnresolvedHasRecord ==
  ASSUME RequestsAssumption, BoundsAssumption, OwnIntents
  PROVE  Spec => []UnknownHasRecord
  <1>1. StoreInv /\ KeptInv => UnknownHasRecord
    BY ShownIs DEF UnknownHasRecord, Recorded, Journaled
  <1> QED BY <1>1, StoreInvariant, RecordsInvariant, PTL
=============================================================================
