---------------------------- MODULE TxServiceInv ----------------------------
(***************************************************************************)
(* The inductive invariants behind the theorems of TxServiceProofs and     *)
(* TxJournalProofs, in layers: each is inductive given the ones before it. *)
(***************************************************************************)
EXTENDS TxService

\* A hold whose template, sender and chain are settled.
Settled(h) == h.from \in Accounts /\ h.effect \in Effects /\ h.chain \in Chains

(* 1. Types, and which fields are meaningful at which point. *)

HoldInv == HoldOK /\ (pending.id # 0 => Settled(pending))

CallTyped(x) ==
  /\ x \in Call
  /\ x.pc # "idle" => x.hold.effect \in Effects
  /\ x.pc \in {"rpc", "hold", "attach"} => Settled(x.hold)
  /\ x.pc = "attach" => x.hold.req # NoRequest

CallsInv == calls \in [Callers -> Call] /\ \A c \in Callers : CallTyped(calls[c])

\* Where a worker holds the hash of a signed block.
HasHash == {"recheck", "journal", "publish", "mark", "query"}

WorkerTyped(op, w) ==
  /\ w \in Worker
  /\ op = "confirm" /\ w.pc # "idle" => Settled(w.snap)
  /\ op = "confirm" /\ w.pc = "pow" => w.acct \in Accounts
  /\ op = "confirm" /\ w.pc = "journal" => w.snap.req # NoRequest
  /\ op = "receive" /\ w.pc = "send" => w.acct \in Accounts /\ w.snap.chain \in Chains
  /\ w.pc \in HasHash => w.hash \in 1..Len(blocks)

WorkersInv == WorkersOK /\ \A op \in Ops : WorkerTyped(op, worker[op])

RecordsTyped == JournalOK /\ \A k \in DOMAIN journal : journal[k].hash \in 1..Len(blocks)

TypeInv ==
  EnvOK /\ HoldInv /\ CallsInv /\ WorkersInv /\ RecordsTyped /\ LedgerOK /\ GhostsOK

(* 2. The latch and the previews. *)

\* Ids are handed out once; a cancelled one is neither held nor latched.
CancelInv ==
  /\ pending.id <= holdCounter
  /\ cancelled \subseteq 1..holdCounter
  /\ pending.id \notin cancelled
  /\ confirm.pc # "idle" => confirm.snap.id \in 1..holdCounter
  /\ Latched => publishingHold = confirm.snap.id /\ confirm.snap.id \notin cancelled

\* What was shown under an id is what is held, and confirmed, under that id.
PreviewInv ==
  /\ DOMAIN previews \subseteq 1..holdCounter
  /\ pending.id \in DOMAIN previews => previews[pending.id] = PreviewOf(pending)
  /\ \A c \in Callers : calls[c].pc = "attach" =>
       /\ calls[c].hold.id \in 1..holdCounter
       /\ pending.id = calls[c].hold.id => PreviewOf(pending) = PreviewOf(calls[c].hold)
  /\ confirm.pc # "idle" =>
       /\ confirm.asked \in DOMAIN previews
       /\ previews[confirm.asked] = PreviewOf(confirm.snap)
  /\ confirm.pc \in HasHash => blocks[confirm.hash].chain = confirm.snap.chain
  /\ confirm.pc \in {"journal", "publish"} => Matches(blocks[confirm.hash], confirm.snap)

(* 3. The publications and the journal. *)

\* Only the holder of publishMu has anything in progress.
Exclusive == \A op \in Ops : op # publishMu => worker[op] = Idle

\* Each record is of a block signed for its request, handed over if published.
RecordsInv ==
  \A k \in DOMAIN journal :
    LET b == journal[k].hash
    IN  /\ blocks[b].req # NoRequest
        /\ KeyOf(blocks[b].req) = k
        /\ IntentOf(blocks[b].req) = journal[k].intent
        /\ journal[k].state = "published" => b \in sent

Records(k, b) ==
  k \in DOMAIN journal /\ journal[k].hash = b /\ journal[k].state = "signed"

\* The block a publication has in hand answers the request it works for, is new
\* to the network until it is journaled, and its record is there, unresolved,
\* while it is handed over and marked.
InHand(w) ==
  /\ w.pc \in HasHash => blocks[w.hash].req = w.snap.req
  /\ w.pc \in {"recheck", "journal"} => w.hash \notin sent
  /\ w.pc \in {"query", "publish", "mark"} /\ w.snap.req # NoRequest =>
       Records(KeyOf(w.snap.req), w.hash)
  /\ w.pc = "mark" => w.hash \in sent

\* Where a publication has yet to sign its block.
BeforeSigning == {"latch", "session", "key", "pow", "guard", "chain", "send"}

WorkerInv ==
  /\ \A op \in Ops : InHand(worker[op])
  /\ receive.snap.req = NoRequest
  /\ reconcile.pc # "idle" =>
       reconcile.pc \in {"query", "publish", "mark"} /\ reconcile.snap.req # NoRequest
  /\ onChain \subseteq sent
  /\ Len(blocks) <= MaxBlocks
  /\ \A op \in Ops : worker[op].pc \in BeforeSigning => Len(blocks) < MaxBlocks

PublicationInv == Exclusive /\ RecordsInv /\ WorkerInv

(* 4. One request at a time, given that prepares come from the store's slot. *)

\* Nothing is retained for this request: what Lookup answers "none" to.
Unknown(r) ==
  /\ KeyOf(r) \notin DOMAIN journal
  /\ \A k \in DOMAIN journal : journal[k].intent # IntentOf(r)

\* While a call prepares a request nothing else is on its way for any request.
CallsSlot ==
  \A c \in Callers : calls[c].hold.req # NoRequest =>
    /\ Unknown(calls[c].hold.req)
    /\ pending.req = NoRequest /\ confirm.snap.req = NoRequest
    /\ \A d \in Callers : calls[d].hold.req # NoRequest => c = d

\* A held request is unknown to the journal, or is the one being confirmed.
HoldSlot ==
  pending.req # NoRequest =>
    /\ confirm.snap.req = NoRequest => Unknown(pending.req)
    /\ confirm.snap.req # NoRequest => pending = confirm.snap

\* A request being confirmed is unknown until its block is journaled.
ConfirmSlot ==
  confirm.snap.req # NoRequest /\ confirm.pc \notin {"publish", "mark"} =>
    Unknown(confirm.snap.req)

OneRecordPerIntent ==
  \A j, k \in DOMAIN journal : journal[j].intent = journal[k].intent => j = k

SlotInv == CallsSlot /\ HoldSlot /\ ConfirmSlot /\ OneRecordPerIntent

(* 5. The node a publication works with, the consent, and the frontier. *)

\* Where a worker holds a client it has read from the node.
HasClient == HasHash \cup {"pow", "guard", "chain", "send"}

\* Where the opt-in has been asked for a block.
PastGuard == {"journal", "publish", "chain", "send"}

\* While a client lives, the node it was read from is the one now connected, on
\* the chain that the publication has checked.
ClientInv(w) ==
  /\ w.pc \in HasClient => w.client <= node.conn /\ (w.client = node.conn => Connected)
  /\ w.pc \in {"pow", "send"} /\ Live(w.client) => node.chain = w.snap.chain
  /\ w.pc \in HasHash /\ Live(w.client) => node.chain = blocks[w.hash].chain
  /\ w.pc \in PastGuard /\ Live(w.client) /\ node.chain = "mainnet" => consent

\* Until it is handed over, a block extends its account's chain.
Extends(op, w) ==
  op \in {"confirm", "receive"} /\ w.pc \in {"recheck", "journal", "publish"} =>
    blocks[w.hash].prev = Frontier(blocks[w.hash].chain, blocks[w.hash].from)

NetworkInv ==
  /\ settings.optIn => consent
  /\ \A op \in Ops : ClientInv(worker[op]) /\ Extends(op, worker[op])
=============================================================================
