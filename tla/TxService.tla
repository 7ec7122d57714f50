------------------------------ MODULE TxService ------------------------------
(***************************************************************************)
(* TxService (app/tx_service.go, app/walletconnect.go): one held block at  *)
(* a time, prepared, shown, confirmed and published, for the wallet's own  *)
(* screens and for WalletConnect requests, against a wallet session, a     *)
(* node connection and settings that other goroutines change meanwhile.    *)
(*                                                                         *)
(* Every action is one critical section or one remote call of one method.  *)
(* Calls that prepare run concurrently (Callers); whatever publishes holds *)
(* publishMu, so one worker record stands for the confirm, the reconcile   *)
(* or the receive in progress.  A call that an early return ends without   *)
(* changing state is not a step.                                           *)
(***************************************************************************)
EXTENDS WCJournal, Sequences

CONSTANTS
  Accounts, NoAccount,
  Effects,            \* what a template moves or calls: to, token, amount, data
  NoEffect,           \* the effect of a receive block
  Sends,              \* effects the wallet's own screens prepare
  TestnetOnly,        \* effects whose hold carries the requireTestnet policy
  Requests,           \* WalletConnect requests: [topic, id, from, effect]
  NoRequest,
  Callers,            \* concurrent invocations of the prepare methods
  Networks,           \* the chains the nodes the user connects to are on
  ChainIDs, OptIns,   \* the chain ids and mainnet opt-ins the user configures
  OneAtATime,         \* TRUE: WalletConnect prepares come from the store's slot
  MaxGen, MaxConn, MaxHolds, MaxBlocks, MaxRestarts    \* bounds

Chains == {"mainnet", "testnet"}
NoChain == "none"

ASSUME ConstantsAssumption ==
  /\ Networks \subseteq Chains
  /\ ChainIDs \subseteq Chains /\ OptIns \subseteq BOOLEAN
  /\ NoAccount \notin Accounts
  /\ NoEffect \notin Effects
  /\ Sends \subseteq Effects /\ TestnetOnly \subseteq Effects
  /\ NoRequest \notin Requests
  /\ \A r \in Requests : r.from \in Accounts /\ r.effect \in Effects
  /\ OneAtATime \in BOOLEAN
  /\ {MaxGen, MaxConn, MaxHolds, MaxBlocks, MaxRestarts} \subseteq Nat

VARIABLES
  session,         \* WalletService: active account (NoAccount: locked), gen
  clearDue,        \* a session change holds selMu, its callback still to run
  node,            \* NodeService: connGen and the connected chain
  settings,        \* configured chain and AllowMainnetSend, on disk
  pending,         \* the hold slot, guarded by mu
  holdCounter,
  publishingHold,  \* the latch, guarded by mu
  calls,           \* progress of each prepare call
  publishMu,       \* the publication that holds publishMu, or "free"
  worker,          \* progress of each kind of publication
  journal,         \* the publication journal, on disk
  blocks,          \* every block ever signed; a block's hash is its index
  onChain,         \* hashes the network has accepted
  restarts,
  \* what happened, for the properties
  previews,        \* hold id -> what the preview returned to the caller showed
  cancelled,       \* holds a CancelPending discarded
  sent,            \* hashes handed to the node
  acked,           \* hashes whose record was acknowledged
  consent          \* opt-in seen on since the worker's last point of no consent

ghosts == <<previews, cancelled, sent, acked, consent>>
env == <<session, clearDue, node, settings, restarts>>
publishing == <<publishMu, worker>>
hold == <<pending, holdCounter, publishingHold>>
ledger == <<blocks, onChain>>
vars == <<env, hold, calls, publishing, journal, ledger, ghosts>>

-----------------------------------------------------------------------------
Keys == {KeyOf(r) : r \in Requests}

Hold == [id : Nat, from : Accounts \cup {NoAccount}, effect : Effects \cup {NoEffect},
         chain : Chains \cup {NoChain}, gen : Nat, req : Requests \cup {NoRequest}]
NoHold == [id |-> 0, from |-> NoAccount, effect |-> NoEffect, chain |-> NoChain,
           gen |-> 0, req |-> NoRequest]

Preview == [from : Accounts, effect : Effects, chain : Chains]
PreviewOf(h) == [from |-> h.from, effect |-> h.effect, chain |-> h.chain]

CallPcs == {"idle", "sender", "begin", "read", "rpc", "hold", "attach"}
\* A call in progress: its locals are the hold it is putting together.
Call == [pc : CallPcs, hold : Hold]
NoCall == [pc |-> "idle", hold |-> NoHold]

WorkerPcs == {"idle", "latch", "session", "key", "pow", "recheck", "journal",
              "publish", "mark", "guard", "chain", "send", "query"}
Ops == {"confirm", "receive", "reconcile"}
Worker == [pc : WorkerPcs, asked : Nat, snap : Hold, acct : Accounts \cup {NoAccount},
           client : Nat, hash : Nat]
Idle == [pc |-> "idle", asked |-> 0, snap |-> NoHold, acct |-> NoAccount,
         client |-> 0, hash |-> 0]

Block == [from : Accounts, effect : Effects \cup {NoEffect}, chain : Chains,
          prev : Nat, req : Requests \cup {NoRequest}]

Record == [intent : {IntentOf(r) : r \in Requests}, state : States, hash : Nat]

Locked == session.account = NoAccount
Connected == node.chain # NoChain

\* guardChain: a mainnet block needs the opt-in.
GuardChain(chain) == chain = "mainnet" => settings.optIn

\* The policy closure a governance hold carries.
Policy(effect) == effect \in TestnetOnly => node.chain # "mainnet"

\* A client read from the node is stopped by the next disconnect.
Live(client) == Connected /\ client = node.conn

\* The account's height on a chain: where a freshly prepared block is attached.
Frontier(chain, a) ==
  Cardinality({b \in onChain : blocks[b].chain = chain /\ blocks[b].from = a})

\* The node accepts a block that extends its account's chain.
Acceptable(b) ==
  blocks[b].chain = node.chain /\ blocks[b].prev = Frontier(blocks[b].chain, blocks[b].from)

-----------------------------------------------------------------------------
Init ==
  /\ session = [account |-> NoAccount, gen |-> 0]
  /\ clearDue = FALSE
  /\ node = [conn |-> 0, chain |-> NoChain]
  /\ settings \in [chain : ChainIDs, optIn : OptIns]
  /\ pending = NoHold /\ holdCounter = 0 /\ publishingHold = 0
  /\ calls = [c \in Callers |-> NoCall]
  /\ publishMu = "free" /\ worker = [op \in Ops |-> Idle]
  /\ journal = EmptyJournal
  /\ blocks = <<>> /\ onChain = {}
  /\ restarts = 0
  /\ previews = [h \in {} |-> {}] /\ cancelled = {} /\ sent = {} /\ acked = {}
  /\ consent = settings.optIn

-----------------------------------------------------------------------------
(* The wallet session.  Lock and account selection hold selMu until their   *)
(* onSessionChange callback has cleared the hold; Unlock has no callback.   *)

ChangeSession(account, callback) ==
  /\ ~clearDue
  /\ session.gen < MaxGen
  /\ session' = [account |-> account, gen |-> session.gen + 1]
  /\ clearDue' = callback
  /\ UNCHANGED <<node, settings, restarts, hold, calls, publishing, journal, ledger, ghosts>>

Unlock(a) == ChangeSession(a, FALSE)
Lock == ChangeSession(NoAccount, TRUE)
SelectAccount(a) == ~Locked /\ a # session.account /\ ChangeSession(a, TRUE)

ClearPending ==
  /\ clearDue
  /\ clearDue' = FALSE
  /\ pending' = NoHold
  /\ UNCHANGED <<session, node, settings, restarts, holdCounter, publishingHold,
                 calls, publishing, journal, ledger, ghosts>>

(* The node connection and the settings. *)

InstallConnection(chain) ==
  /\ ~Connected
  /\ node' = [node EXCEPT !.chain = chain]
  /\ UNCHANGED <<session, clearDue, settings, restarts, hold, calls, publishing,
                 journal, ledger, ghosts>>

Disconnect ==
  /\ Connected
  /\ node.conn < MaxConn
  /\ node' = [conn |-> node.conn + 1, chain |-> NoChain]
  /\ UNCHANGED <<session, clearDue, settings, restarts, hold, calls, publishing,
                 journal, ledger, ghosts>>

SetChainID(id) ==
  /\ settings' = [settings EXCEPT !.chain = id]
  /\ UNCHANGED <<session, clearDue, node, restarts, hold, calls, publishing, journal,
                 ledger, ghosts>>

SetAllowMainnetSend(v) ==
  /\ settings' = [settings EXCEPT !.optIn = v]
  /\ consent' = (consent \/ v)
  /\ UNCHANGED <<session, clearDue, node, restarts, hold, calls, publishing, journal,
                 ledger, previews, cancelled, sent, acked>>

-----------------------------------------------------------------------------
(* Preparing a hold. *)

Goto(c, pc) == calls' = [calls EXCEPT ![c].pc = pc]
Return(c) == calls' = [calls EXCEPT ![c] = NoCall]
OnlyCalls == UNCHANGED <<env, hold, publishing, journal, ledger, ghosts>>

\* PrepareSend and the prepare methods of NomService: guard, then the session
\* generation every later read is checked against.
PrepareSend(c, e) ==
  /\ calls[c].pc = "idle"
  /\ holdCounter < MaxHolds
  /\ GuardChain(node.chain) /\ Policy(e)
  /\ calls' = [calls EXCEPT ![c] =
       [pc |-> "read", hold |-> [NoHold EXCEPT !.effect = e, !.gen = session.gen]]]
  /\ OnlyCalls

\* The WalletConnect store asks for one request at a time: its slot is taken
\* from the prepare call until the request is answered.
SlotFree ==
  /\ \A c \in Callers : calls[c].hold.req = NoRequest
  /\ pending.req = NoRequest
  /\ \A op \in Ops : worker[op].snap.req = NoRequest

\* PrepareWalletConnectSend: a request the journal does not know goes on.
LookupWalletConnectPublication(c, r) ==
  /\ calls[c].pc = "idle"
  /\ holdCounter < MaxHolds
  /\ OneAtATime => SlotFree
  /\ Fresh(journal, r)
  /\ calls' = [calls EXCEPT ![c] =
       [pc |-> "sender", hold |-> [NoHold EXCEPT !.effect = r.effect, !.req = r]]]
  /\ OnlyCalls

\* The sender must be the active account and both chains mainnet.
WalletConnectBridgeTemplate(c) ==
  /\ calls[c].pc = "sender"
  /\ session.account = calls[c].hold.req.from
  /\ settings.chain = "mainnet" /\ node.chain = "mainnet"
  /\ Goto(c, "begin")
  /\ OnlyCalls

\* prepareCallWithEffectDecimals: the guard and the generation snapshot.
PrepareCall(c) ==
  /\ calls[c].pc = "begin"
  /\ GuardChain(node.chain)
  /\ calls' = [calls EXCEPT ![c].pc = "read", ![c].hold.gen = session.gen]
  /\ OnlyCalls

\* Client, key pair, sender and configured chain; then RequiresPoW is asked.
ReadSigner(c) ==
  /\ calls[c].pc = "read"
  /\ Connected /\ ~Locked
  /\ calls' = [calls EXCEPT ![c].pc = "rpc", ![c].hold.from = session.account,
                            ![c].hold.chain = settings.chain]
  /\ OnlyCalls

RecheckGen(c) ==
  /\ calls[c].pc = "rpc"
  /\ session.gen = calls[c].hold.gen
  /\ Goto(c, "hold")
  /\ OnlyCalls

\* holdPending.  A first-party call returns its preview; a WalletConnect call
\* still has to bind its identity to the hold.
HoldPending(c) ==
  LET h == [calls[c].hold EXCEPT !.id = holdCounter + 1, !.req = NoRequest]
      wc == calls[c].hold.req # NoRequest
  IN  /\ calls[c].pc = "hold"
      /\ pending.id = 0
      /\ holdCounter' = holdCounter + 1
      /\ pending' = h
      /\ IF wc THEN /\ calls' = [calls EXCEPT ![c].pc = "attach", ![c].hold.id = h.id]
                    /\ UNCHANGED previews
               ELSE /\ Return(c)
                    /\ previews' = [x \in DOMAIN previews \cup {h.id} |->
                                      IF x = h.id THEN PreviewOf(h) ELSE previews[x]]
      /\ UNCHANGED <<env, publishingHold, publishing, journal, ledger, cancelled, sent,
                     acked, consent>>

\* attachWalletConnectIdentity, only while the hold is still the current one.
AttachWalletConnectIdentity(c) ==
  LET h == calls[c].hold
  IN  /\ calls[c].pc = "attach"
      /\ IF pending.id = h.id
         THEN /\ pending' = [pending EXCEPT !.req = h.req]
              /\ previews' = [x \in DOMAIN previews \cup {h.id} |->
                                IF x = h.id THEN PreviewOf(h) ELSE previews[x]]
         ELSE UNCHANGED <<pending, previews>>
      /\ Return(c)
      /\ UNCHANGED <<env, holdCounter, publishingHold, publishing, journal, ledger,
                     cancelled, sent, acked, consent>>

\* A gate refuses, an RPC fails, or the slot is taken.
PrepareFails(c) ==
  /\ \/ calls[c].pc \in {"sender", "begin", "read", "rpc"}
     \/ calls[c].pc = "hold" /\ pending.id # 0
  /\ Return(c)
  /\ OnlyCalls

-----------------------------------------------------------------------------
(* ConfirmPublish, under publishMu from its first to its last step. *)

ClearIf(id) == pending' = IF pending.id = id THEN NoHold ELSE pending
At(op, pc) == worker[op].pc = pc

\* publishMu is taken for the whole of a publication.
Begin(op, w) == publishMu = "free" /\ publishMu' = op /\ worker' = [worker EXCEPT ![op] = w]
Advance(op, w) == worker' = [worker EXCEPT ![op] = w] /\ UNCHANGED publishMu
Step(op, pc) == Advance(op, [worker[op] EXCEPT !.pc = pc])
End(op) == worker' = [worker EXCEPT ![op] = Idle] /\ publishMu' = "free"

confirm == worker["confirm"]
receive == worker["receive"]
reconcile == worker["reconcile"]

\* The deferred latch reset and the release of publishMu.
Release == End("confirm") /\ publishingHold' = 0

\* The two ways a confirm gives up: the hold is dropped, or kept for a retry.
GiveUp == ClearIf(confirm.snap.id) /\ Release
RefuseLatched ==      \* Mutant: the latch stays on.
  UNCHANGED <<pending, publishingHold>> /\ End("confirm")
Refuse == UNCHANGED pending /\ Release

OnlyWorker == UNCHANGED <<env, holdCounter, calls, journal, ledger, ghosts>>

\* The session and the active account are still those of the preview.
SessionHolds(h) == ~Locked /\ session.gen = h.gen /\ session.account = h.from

\* assertMatches
Matches(b, h) == b.from = h.from /\ b.effect = h.effect

\* Mutant: whatever is held is published, not the hold the user was shown.
ConfirmWhatIsHeld(id) ==
  /\ Len(blocks) < MaxBlocks
  /\ GuardChain(node.chain)
  /\ pending.id # 0
  /\ Policy(pending.effect)
  /\ Begin("confirm", [Idle EXCEPT !.pc = "latch", !.asked = id, !.snap = pending])
  /\ UNCHANGED <<hold, env, calls, journal, ledger, ghosts>>

\* TryLock, the guard, the snapshot, the policy and the identity check.
ConfirmPublish(id) ==
  /\ Len(blocks) < MaxBlocks
  /\ GuardChain(node.chain)
  /\ pending.id # 0
  /\ Policy(pending.effect)
  /\ id = pending.id
  /\ Begin("confirm", [Idle EXCEPT !.pc = "latch", !.asked = id, !.snap = pending])
  /\ UNCHANGED <<hold, env, calls, journal, ledger, ghosts>>

\* Mutant: the latch is set without looking at the slot again.
LatchUnchecked ==
  /\ At("confirm", "latch")
  /\ Step("confirm", "session") /\ publishingHold' = confirm.snap.id
  /\ UNCHANGED pending
  /\ OnlyWorker

LatchHold ==
  /\ At("confirm", "latch")
  /\ IF pending.id = confirm.snap.id
     THEN Step("confirm", "session") /\ publishingHold' = confirm.snap.id
     ELSE Release
  /\ UNCHANGED pending
  /\ OnlyWorker

CheckSession ==
  /\ At("confirm", "session")
  /\ IF SessionHolds(confirm.snap)
     THEN Step("confirm", "key") /\ UNCHANGED <<pending, publishingHold>>
     ELSE GiveUp
  /\ OnlyWorker

\* Mutant: the key pair is used without asking whether the wallet is locked.
ReadKeyOfLocked ==
  /\ At("confirm", "key")
  /\ IF node.chain # confirm.snap.chain
     THEN Refuse
     ELSE /\ Advance("confirm", [confirm EXCEPT !.pc = "pow", !.acct = session.account,
                                               !.client = node.conn])
          /\ UNCHANGED <<pending, publishingHold>>
  /\ OnlyWorker

\* signingKeyPair, currentClient and the chain check before the work.
ReadKey ==
  /\ At("confirm", "key")
  /\ CASE Locked -> GiveUp
       [] ~Locked /\ node.chain # confirm.snap.chain -> Refuse
       [] OTHER ->
            /\ Advance("confirm", [confirm EXCEPT !.pc = "pow", !.acct = session.account,
                                                  !.client = node.conn])
            /\ UNCHANGED <<pending, publishingHold>>
  /\ OnlyWorker

\* PrepareBlock: autofill against the account's frontier, PoW, sign.
SignBlock(op, effect) ==
  LET w == worker[op]
      chain == w.snap.chain
  IN  /\ Live(w.client)
      /\ blocks' = Append(blocks,
           [from |-> w.acct, effect |-> effect, chain |-> chain,
            prev |-> Frontier(chain, w.acct), req |-> w.snap.req])

PrepareBlock ==
  /\ At("confirm", "pow")
  /\ SignBlock("confirm", confirm.snap.effect)
  /\ Advance("confirm", [confirm EXCEPT !.pc = "recheck", !.hash = Len(blocks) + 1])
  /\ consent' = settings.optIn
  /\ UNCHANGED <<env, hold, calls, journal, onChain, previews, cancelled, sent, acked>>

PrepareBlockFails ==
  /\ At("confirm", "pow")
  /\ GiveUp
  /\ OnlyWorker

\* Mutant: consent is not asked again after the work.
RecheckWithoutConsent ==
  LET b == blocks[confirm.hash]
  IN  /\ At("confirm", "recheck")
      /\ IF SessionHolds(confirm.snap) /\ Matches(b, confirm.snap) /\ b.chain = node.chain
         THEN /\ Step("confirm", IF confirm.snap.req = NoRequest THEN "publish" ELSE "journal")
              /\ UNCHANGED <<pending, publishingHold>>
         ELSE GiveUp
      /\ OnlyWorker

\* The checks repeated after the work, then the final consent check.
RecheckBuilt ==
  LET b == blocks[confirm.hash]
      sound == /\ SessionHolds(confirm.snap)
               /\ Matches(b, confirm.snap)
               /\ b.chain = node.chain
  IN  /\ At("confirm", "recheck")
      /\ CASE ~sound -> GiveUp
           [] sound /\ ~GuardChain(b.chain) -> Refuse
           [] OTHER ->
                /\ Step("confirm", IF confirm.snap.req = NoRequest
                                    THEN "publish" ELSE "journal")
                /\ UNCHANGED <<pending, publishingHold>>
      /\ OnlyWorker

\* A WalletConnect block is journaled before its first broadcast; a journal
\* that is full or cannot be written refuses the broadcast.
JournalSigned ==
  LET r == confirm.snap.req
  IN  /\ At("confirm", "journal")
      /\ CanPut(journal, KeyOf(r))
      /\ journal' = Put(journal, KeyOf(r), [intent |-> IntentOf(r), state |-> "signed",
                                            hash |-> confirm.hash])
      /\ Step("confirm", "publish")
      /\ UNCHANGED <<env, hold, calls, ledger, ghosts>>

JournalFails ==
  /\ At("confirm", "journal")
  /\ GiveUp
  /\ OnlyWorker

(* Handing a block to the node.  The reply can be lost after the block was  *)
(* accepted, and a block the account's chain has moved past is refused.     *)

Accepted(op) ==
  LET b == worker[op].hash
  IN  /\ Live(worker[op].client)
      /\ b \in onChain \/ Acceptable(b)
      /\ onChain' = onChain \cup {b}
      /\ sent' = sent \cup {b}

NoReply(op) ==
  LET b == worker[op].hash
      reached == Live(worker[op].client) /\ Acceptable(b)
  IN  /\ onChain' \in {onChain} \cup (IF reached THEN {onChain \cup {b}} ELSE {})
      /\ sent' = sent \cup {b}

OnlySubmit == UNCHANGED <<env, holdCounter, calls, journal, blocks, previews,
                          cancelled, acked, consent>>

Publish ==
  /\ At("confirm", "publish")
  /\ Accepted("confirm")
  /\ Step("confirm", "mark")
  /\ UNCHANGED <<pending, publishingHold>>
  /\ OnlySubmit

\* Mutant: a failed broadcast drops the record, as if the block had not left.
PublishFailsForgets ==
  /\ At("confirm", "publish")
  /\ NoReply("confirm")
  /\ journal' = Restrict(journal, DOMAIN journal \ {KeyOf(confirm.snap.req)})
  /\ GiveUp
  /\ UNCHANGED <<env, holdCounter, calls, blocks, previews, cancelled, acked, consent>>

PublishFails ==
  /\ At("confirm", "publish")
  /\ NoReply("confirm")
  /\ GiveUp
  /\ OnlySubmit

\* markPublished is best effort: its failure is ignored.
Marked(k) == journal' \in {journal, MarkPublished(journal, k)}

FinishConfirm ==
  LET r == confirm.snap.req
  IN  /\ At("confirm", "mark")
      /\ IF r = NoRequest THEN UNCHANGED journal ELSE Marked(KeyOf(r))
      /\ GiveUp
      /\ UNCHANGED <<env, holdCounter, calls, ledger, ghosts>>

\* CancelPending: refused while the latch is on the hold it names; 0 names
\* whatever is held.
CancelPending(id) ==
  /\ ~(publishingHold # 0 /\ id \in {0, publishingHold})
  /\ id \in {0, pending.id}
  /\ pending' = NoHold
  /\ cancelled' = cancelled \cup ({pending.id} \ {0})
  /\ UNCHANGED <<env, holdCounter, publishingHold, calls, publishing, journal, ledger,
                 previews, sent, acked, consent>>

-----------------------------------------------------------------------------
(* Receive blocks on publishMu; its guards are read after the client. *)

\* Mutant: a receive does not wait for the publication in progress.
ReceiveUnserialised ==
  /\ Len(blocks) < MaxBlocks
  /\ Connected
  /\ At("receive", "idle")
  /\ Advance("receive", [Idle EXCEPT !.pc = "guard", !.client = node.conn])
  /\ consent' = settings.optIn
  /\ UNCHANGED <<env, hold, calls, journal, ledger, previews, cancelled, sent, acked>>

Receive ==
  /\ Len(blocks) < MaxBlocks
  /\ Connected
  /\ Begin("receive", [Idle EXCEPT !.pc = "guard", !.client = node.conn])
  /\ consent' = settings.optIn
  /\ UNCHANGED <<env, hold, calls, journal, ledger, previews, cancelled, sent, acked>>

ReceiveGuard ==
  /\ At("receive", "guard")
  /\ IF GuardChain(node.chain) THEN Step("receive", "chain") ELSE End("receive")
  /\ UNCHANGED <<pending, publishingHold>>
  /\ OnlyWorker

\* Mutant: the node is taken to be on the configured chain.
ReceiveAnyChain ==
  /\ At("receive", "chain")
  /\ IF ~Locked
     THEN Advance("receive", [receive EXCEPT !.pc = "send", !.acct = session.account,
                                             !.snap.chain = settings.chain])
     ELSE End("receive")
  /\ UNCHANGED <<pending, publishingHold>>
  /\ OnlyWorker

ReceiveChain ==
  /\ At("receive", "chain")
  /\ IF settings.chain = node.chain /\ ~Locked
     THEN Advance("receive", [receive EXCEPT !.pc = "send", !.acct = session.account,
                                             !.snap.chain = settings.chain])
     ELSE End("receive")
  /\ UNCHANGED <<pending, publishingHold>>
  /\ OnlyWorker

\* The SDK's Send: prepare, then publish.
ReceiveSign ==
  /\ At("receive", "send")
  /\ SignBlock("receive", NoEffect)
  /\ Advance("receive", [receive EXCEPT !.pc = "publish", !.hash = Len(blocks) + 1])
  /\ UNCHANGED <<env, hold, calls, journal, onChain, ghosts>>

ReceiveFails ==
  /\ At("receive", "send")
  /\ End("receive")
  /\ UNCHANGED <<pending, publishingHold>>
  /\ OnlyWorker

ReceivePublish ==
  /\ At("receive", "publish")
  /\ Accepted("receive") \/ NoReply("receive")
  /\ End("receive")
  /\ UNCHANGED <<pending, publishingHold>>
  /\ OnlySubmit

-----------------------------------------------------------------------------
(* ReconcileWalletConnectPublication: query by hash, then rebroadcast the   *)
(* journaled block itself.                                                  *)

ReconcileWalletConnectPublication(k) ==
  /\ k \in DOMAIN journal
  /\ journal[k].state = "signed"
  /\ node.chain = blocks[journal[k].hash].chain
  /\ Begin("reconcile", [Idle EXCEPT !.pc = "query", !.client = node.conn,
                                     !.hash = journal[k].hash,
                                     !.snap.req = blocks[journal[k].hash].req])
  /\ consent' = settings.optIn
  /\ UNCHANGED <<env, hold, calls, journal, ledger, previews, cancelled, sent, acked>>

ReconcileFound ==
  /\ At("reconcile", "query")
  /\ Live(reconcile.client) /\ reconcile.hash \in onChain
  /\ Step("reconcile", "mark")
  /\ UNCHANGED <<pending, publishingHold>>
  /\ OnlyWorker

\* Mutant: a block the node does not know is not rebroadcast.
ReconcileGivesUp ==
  /\ At("reconcile", "query")
  /\ Live(reconcile.client)
  /\ End("reconcile")
  /\ UNCHANGED <<pending, publishingHold>>
  /\ OnlyWorker

\* The node does not know the block (it may lag behind the one that took it).
ReconcileNotFound ==
  /\ At("reconcile", "query")
  /\ Live(reconcile.client)
  /\ IF GuardChain(blocks[reconcile.hash].chain)
     THEN Step("reconcile", "publish") ELSE End("reconcile")
  /\ UNCHANGED <<pending, publishingHold>>
  /\ OnlyWorker

ReconcileQueryFails ==
  /\ At("reconcile", "query")
  /\ End("reconcile")
  /\ UNCHANGED <<pending, publishingHold>>
  /\ OnlyWorker

Rebroadcast ==
  /\ At("reconcile", "publish")
  /\ Accepted("reconcile")
  /\ Step("reconcile", "mark")
  /\ UNCHANGED <<pending, publishingHold>>
  /\ OnlySubmit

RebroadcastFails ==
  /\ At("reconcile", "publish")
  /\ NoReply("reconcile")
  /\ End("reconcile")
  /\ UNCHANGED <<pending, publishingHold>>
  /\ OnlySubmit

FinishReconcile ==
  /\ At("reconcile", "mark")
  /\ Marked(KeyOf(reconcile.snap.req))
  /\ End("reconcile")
  /\ UNCHANGED <<env, hold, calls, ledger, ghosts>>

\* Mutant: an unresolved record is acknowledged away.
AckUnresolved(k) ==
  /\ k \in DOMAIN journal
  /\ journal' = Restrict(journal, DOMAIN journal \ {k})
  /\ acked' = acked \cup {journal[k].hash}
  /\ UNCHANGED <<env, hold, calls, publishing, ledger, previews, cancelled, sent, consent>>

\* AckWalletConnectResult, refused while the outcome is unresolved.
AckWalletConnectResult(k) ==
  /\ CanDelete(journal, k)
  /\ journal' = DeletePublished(journal, k)
  /\ acked' = acked \cup {journal[k].hash}
  /\ UNCHANGED <<env, hold, calls, publishing, ledger, previews, cancelled, sent, consent>>

\* The process ends anywhere and starts again: the files and the network stay.
Restart ==
  /\ restarts < MaxRestarts
  /\ restarts' = restarts + 1
  /\ session' = [account |-> NoAccount, gen |-> 0]
  /\ clearDue' = FALSE
  /\ node' = [conn |-> 0, chain |-> NoChain]
  /\ pending' = NoHold /\ holdCounter' = 0 /\ publishingHold' = 0
  /\ calls' = [c \in Callers |-> NoCall]
  /\ publishMu' = "free" /\ worker' = [op \in Ops |-> Idle]
  /\ previews' = [h \in {} |-> {}] /\ cancelled' = {}
  /\ UNCHANGED <<settings, journal, ledger, sent, acked, consent>>

-----------------------------------------------------------------------------
Environment ==
  \/ \E a \in Accounts : Unlock(a) \/ SelectAccount(a)
  \/ Lock
  \/ ClearPending
  \/ \E chain \in Networks : InstallConnection(chain)
  \/ Disconnect
  \/ \E id \in ChainIDs : SetChainID(id)
  \/ \E v \in OptIns : SetAllowMainnetSend(v)
  \/ Restart

PrepareStep(c) ==
  \/ \E e \in Sends : PrepareSend(c, e)
  \/ \E r \in Requests : LookupWalletConnectPublication(c, r)
  \/ WalletConnectBridgeTemplate(c) \/ PrepareCall(c) \/ ReadSigner(c)
  \/ RecheckGen(c) \/ HoldPending(c) \/ AttachWalletConnectIdentity(c)
  \/ PrepareFails(c)

ConfirmStep ==
  \/ LatchHold \/ CheckSession \/ ReadKey
  \/ PrepareBlock \/ PrepareBlockFails \/ RecheckBuilt
  \/ JournalSigned \/ JournalFails
  \/ Publish \/ PublishFails \/ FinishConfirm

ReceiveStep ==
  ReceiveGuard \/ ReceiveChain \/ ReceiveSign \/ ReceiveFails \/ ReceivePublish

ReconcileStep ==
  \/ ReconcileFound \/ ReconcileNotFound \/ ReconcileQueryFails
  \/ Rebroadcast \/ RebroadcastFails \/ FinishReconcile

Next ==
  \/ Environment
  \/ \E c \in Callers : PrepareStep(c)
  \/ \E id \in DOMAIN previews : ConfirmPublish(id)
  \/ ConfirmStep
  \/ \E id \in {0} \cup DOMAIN previews : CancelPending(id)
  \/ Receive
  \/ ReceiveStep
  \/ \E k \in Keys : ReconcileWalletConnectPublication(k) \/ AckWalletConnectResult(k)
  \/ ReconcileStep

Spec == Init /\ [][Next]_vars

\* A publication that has begun runs on: a goroutine is scheduled and an RPC
\* returns or fails.
Scheduled == WF_vars(ConfirmStep) /\ WF_vars(ReceiveStep) /\ WF_vars(ReconcileStep)

\* The mark of a reconciled record that the disk accepts.
MarkReconciled == FinishReconcile /\ journal' = MarkPublished(journal, KeyOf(reconcile.snap.req))

\* A user who keeps checking an unknown outcome, on a node that comes back, that
\* answers some of the queries and rebroadcasts, and a disk that accepts some of
\* the writes.
KeepsChecking ==
  /\ WF_vars(InstallConnection("mainnet"))
  /\ \A k \in Keys : SF_vars(ReconcileWalletConnectPublication(k))
  /\ SF_vars(ReconcileFound) /\ SF_vars(ReconcileNotFound) /\ SF_vars(Rebroadcast)
  /\ SF_vars(MarkReconciled)

FairSpec == Spec /\ Scheduled /\ KeepsChecking

-----------------------------------------------------------------------------
(* Properties. *)

EnvOK ==
  /\ session \in [account : Accounts \cup {NoAccount}, gen : Nat]
  /\ clearDue \in BOOLEAN
  /\ node \in [conn : Nat, chain : Chains \cup {NoChain}]
  /\ settings \in [chain : Chains, optIn : BOOLEAN]
  /\ restarts \in Nat

HoldOK == pending \in Hold /\ holdCounter \in Nat /\ publishingHold \in Nat

WorkersOK == publishMu \in Ops \cup {"free"} /\ worker \in [Ops -> Worker]

JournalOK == DOMAIN journal \subseteq Keys /\ \A k \in DOMAIN journal : journal[k] \in Record

LedgerOK ==
  /\ blocks \in Seq(Block)
  /\ onChain \subseteq 1..Len(blocks)
  /\ sent \subseteq 1..Len(blocks)
  /\ acked \subseteq 1..Len(blocks)

GhostsOK ==
  /\ DOMAIN previews \subseteq Nat
  /\ \A h \in DOMAIN previews : previews[h] \in Preview
  /\ cancelled \subseteq Nat
  /\ consent \in BOOLEAN

\* Every variable stays in its type.
TypeOK ==
  /\ EnvOK /\ HoldOK /\ calls \in [Callers -> Call] /\ WorkersOK
  /\ JournalOK /\ LedgerOK /\ GhostsOK

\* A confirm that has latched its hold, and so may still broadcast it.
Latched == confirm.pc \notin {"idle", "latch"}

\* Exactly one of cancel and publish wins: once a cancel has discarded a hold,
\* no confirm goes on towards broadcasting it, however late it was snapshotted.
CancelWins == Latched => confirm.snap.id \notin cancelled

\* Confirm-what-you-sign: the block handed to the node is sent by the account,
\* moves the funds and is for the chain that the preview with the confirmed id
\* displayed, whatever locked, unlocked or switched accounts meanwhile.
ConfirmWhatYouSign ==
  At("confirm", "publish") =>
    /\ confirm.asked \in DOMAIN previews
    /\ LET b == blocks[confirm.hash]
       IN  previews[confirm.asked] = [from |-> b.from, effect |-> b.effect, chain |-> b.chain]

WalletConnectSent == {b \in sent : blocks[b].req # NoRequest}

\* A WalletConnect block that may be on chain is always in the journal under
\* its request until its result is acknowledged: not lost by a crash, evicted
\* by a full journal, or overwritten by another block.
SentIsJournaled ==
  \A b \in WalletConnectSent \ acked :
    LET k == KeyOf(blocks[b].req)
    IN  k \in DOMAIN journal /\ journal[k].hash = b

\* At most one unacknowledged block is out for a request or for an intent.
ExactlyOnce ==
  \A b1, b2 \in WalletConnectSent \ acked :
    b1 # b2 => /\ KeyOf(blocks[b1].req) # KeyOf(blocks[b2].req)
               /\ IntentOf(blocks[b1].req) # IntentOf(blocks[b2].req)

\* A block is about to be handed to a node that is still connected.
Delivering(op) == At(op, "publish") /\ Live(worker[op].client)

\* A confirm and a receive build no sibling of a block on chain, whatever they and
\* the rebroadcasts published in between: a block that one of them hands to a live
\* node extends its account's chain.  A rebroadcast hands over its record's block,
\* which may be superseded by then; the node refuses it.
NoSiblings ==
  \A op \in {"confirm", "receive"} : Delivering(op) =>
    LET b == blocks[worker[op].hash] IN b.prev = Frontier(b.chain, b.from)

\* A block goes only to a node of the chain it is for, although the client and
\* the chain identifier are read at different moments.
OwnNetwork ==
  \A op \in Ops : Delivering(op) => node.chain = blocks[worker[op].hash].chain

\* No mainnet block is handed over unless the opt-in was on at some moment
\* after its work was done (for a receive or a rebroadcast: since it began).
MainnetConsent ==
  \A op \in Ops : Delivering(op) /\ node.chain = "mainnet" => consent

\* The block that answers a WalletConnect request is sent by the account the
\* request names, on mainnet.
WalletConnectSender ==
  \A b \in WalletConnectSent :
    blocks[b].from = blocks[b].req.from /\ blocks[b].chain = "mainnet"

\* A confirm never leaves its latch on, which would refuse every cancel.
LatchReleased == []<>(publishingHold = 0)

Unresolved(k) == k \in DOMAIN journal /\ journal[k].state = "signed"

\* A journaled block its account's chain has moved past without it.
Superseded(b) ==
  b \notin onChain /\ blocks[b].prev # Frontier(blocks[b].chain, blocks[b].from)

\* Checking the outcome of a signed record resolves it in the end.
OutcomeResolved == \A k \in Keys : []<>~Unresolved(k)

\* ... unless a later block took its place on the account's chain.
ResolvedUnlessSuperseded ==
  \A k \in Keys : []<>(Unresolved(k) => Superseded(journal[k].hash))

\* When the journal is full, the oldest record makes room for a new one.
FullJournalAccepts == At("confirm", "journal") => CanPut(journal, KeyOf(confirm.snap.req))

-----------------------------------------------------------------------------
\* What the journal promises a dapp: see PublishOnce.
Promise == INSTANCE PublishOnce WITH
  Intents <- {IntentOf(r) : r \in Requests},
  Hashes <- 1..MaxBlocks,
  retained <- journal,
  handed <- WalletConnectSent

\* One signed block per request and per intent, whatever fails in between.
ImplementsPublishOnce == Promise!Spec

=============================================================================
