# go-syrius: a verification project

go-syrius is a desktop wallet for the Zenon Network: a Go backend (`app/`,
`internal/`) bound by Wails to a Vue front end (`frontend/src/`). This directory
models in TLA+ the backend's services and the front end's stores that drive
them, checks the models with TLC on small instances, and proves with TLAPS, for
every instance, the safety of the transaction path, of the settings and journal
files, of the wallet session, of the node connection, of the confirm dialog and
of WalletConnect's proposals.

Line numbers below are lines of the repository's files; paths are relative to
its root.

## 1. Inventory

### Backend

| Component | State | Operations | Correct when |
|---|---|---|---|
| **TxService** (`app/tx_service.go`) | the one held template with its expectation, generation, id and WalletConnect identity; `holdCounter`; the `publishingHold` latch (all under `mu`); `publishMu` | `PrepareSend`, `prepareCall…`, `ConfirmPublish`, `CancelPending`, `Receive`, session callback `clearPending` | one of cancel and publish wins; what is signed is what was shown; nothing goes to the wrong network or to mainnet without consent; no sibling blocks |
| **WalletConnect backend** (`app/walletconnect.go`) | none of its own | `LookupWalletConnectPublication`, `PrepareWalletConnectSend`, `ConfirmWalletConnectPublish`, `ReconcileWalletConnectPublication`, `AckWalletConnectResult` | one block per request and per intent, whatever is lost or redelivered |
| **Publication journal** (`app/walletconnect_journal.go`) | a JSON file of at most 32 records, keyed by topic and request id | `get`, `put`, `markPublished`, `findByIntent`, `findByIntentAnyTopic`, `deletePublished` | no possibly-published block is forgotten, also across a crash |
| **WalletService** (`app/wallet_service.go`) | decrypted keystore, active index, wallet name, session generation (`mu`); `selMu`; auto-lock watchdog; KDF semaphore | unlock, lock, select and add accounts, reveal the mnemonic, auto-lock | a session never outlives its lock; disk and memory agree on the account; an idle wallet locks |
| **Wallet files** (`wallet_manifest.go`, the file operations of `wallet_service.go`) | keystore files, the manifest (`manifestMu`) | create, import, rename, list, change password | every wallet is listed under its name; a keystore can always be decrypted |
| **NodeService** (`app/node_service.go`, `node_sync.go`) | client, connection generation, height, chain id, mode (`mu`); `opMu`; momentum loop, sync poller, auto-receive loop | connect, disconnect, set mode, apply URL, delete data, start and stop auto-receive, status | a superseded dial installs nothing; status events describe the current connection; a stall that is shown is one |
| **Embedded node** (`internal/embeddednode`) | the running node, the wedge latch | start, stop with a timeout | one node per data directory |
| **NomService** (`app/nom_*.go`, `governance_propose.go`) | none | queries; prepares of contract calls | every write goes through TxService's hold; governance never reaches mainnet; what may still be voted on is not missed |
| **ConfigService, contacts** (`app/config_service.go`, `contacts.go`) | one settings file, one mutex | get, set, read-modify-write, migration | no lost update, no torn file, no forgotten choice |
| **Pure helpers** (`decimals.go`, `tx_effect.go`, `dto.go`) | none | parse, format, decode | round trips; bounds |
| **App** (`app.go`) | the services | construct, startup, shutdown | callbacks wired before use; loops stopped on exit |

### Front end

| Component | State | Hard part |
|---|---|---|
| **WalletConnect store** (`stores/walletconnect.ts`) | sessions, proposals, the one active request, pending replays, delivery markers | redelivery, a slot held across awaits, results that cannot be delivered |
| **Tx store** (`stores/tx.ts`) | the dialog's preview and status | a cancel racing a confirm; late answers |
| **Wallet store, request epoch, shell** (`stores/wallet.ts`, `lib/requestEpoch.ts`, `components/AppShell.vue`) | the account on show | answers of superseded requests, fast picks |
| **Node store** (`stores/node.ts`) | the status on show | events against pulls |
| **Auto-receive store** (`stores/autoReceive.ts`) | toggle, account | awaits between stop and start |
| **Unreceived, txs** (`stores/unreceived.ts`, `stores/txs.ts`) | lists of the active account | loads that overlap, pages that move |
| **Sentinel, pillar** (`stores/sentinel.ts`, `stores/pillar.ts`, `components/panels/*Launch.vue`) | the step that waits to be credited | a wait that ends on another account's data |
| **Other stores, views, components, generated bindings** | cached data, presentation | not modelled |

### How they interact

* Every bound method runs on its own goroutine, so any two calls can interleave.
  The front end's discipline is not something the backend may rely on: comments
  throughout say the WebView is untrusted.
* TxService reads WalletService (active address, generation, key pair),
  NodeService (client, chain id) and ConfigService (chain id, opt-in) one call at
  a time, each under that service's own lock. Nothing holds them still across
  the seconds of proof of work: hence the generation, and every check twice.
* WalletService calls back into TxService (`onSessionChange = clearPending`)
  while holding `selMu` and not `mu`.
* `publishMu` serialises confirm (TryLock), reconcile (TryLock) and receive
  (Lock); `mu` protects the hold; the journal has its own mutex. `opMu` admits
  one node transition; `shutdown` stops the node without it. `selMu` admits one
  session change; key derivation runs outside it.
* A store's action suspends at every await, and the answer may arrive after
  anything else happened: that is where the front end's races are.
* The node is remote: a publish can be accepted and its reply lost; a query can
  miss a block another node has; a disconnect kills the client a call holds.

`PROJECT.json` lists the hard behaviours under `hazards`, each with its line and
the properties that cover it.

## 2. Modules

    WCJournal ──► TxService ──► TxServiceInv ──► TxServiceProofs
        │            └─ refinement ─► PublishOnce
        └─ INSTANCE ─► WalletConnectStore ──► WalletConnectStoreProofs
    AtomicFile ──► AtomicFileProofs              WalletSession ──► WalletSessionProofs
        └─ refinement ─► AtomicRegister              AccountStore ─ INSTANCE ─┘
                                                 WalletFiles ──► WalletFilesProofs
    NodeConnection ──► NodeServiceProofs         TxStore ──► TxStoreProofs
        AutoReceive ─ INSTANCE ─┤                    UnreceivedStore ─ INSTANCE ─┤
        SyncStatus ── INSTANCE ─┘                    TxHistory ─────── INSTANCE ─┤
                                                     NodeStore ─────── INSTANCE ─┘
    Paging ──► AcceleratorVotes                  WalletConnectProposals ──► WalletConnectProposalsProofs

`──►` is EXTENDS; theorems stand in the modules named `…Proofs` only.  The
modules for TLC extend one component and instantiate the others:

    MCTxService        TxService
    MCBackend          NodeConnection; SyncStatus, NodeStore, AutoReceive, AcceleratorVotes
    MCLiveBackend      AtomicFile; NodeConnection, WalletSession, TxService, AutoReceive,
                       AcceleratorVotes
    MCWallet           AtomicFile; WalletSession, WalletFiles, SettingsFile, AccountStore
    MCStores           WalletConnectProposals; TxStore, TxHistory, UnreceivedStore,
                       Registration, WalletConnectStore
    MCLiveFrontend     TxStore, TxHistory, UnreceivedStore, Registration, WalletConnectStore,
                       AccountStore

In every module an action is one critical section, one remote call or its
answer, or one continuation of a suspended function, with the code's guard and
its order. Variables named after a field are that field; variables whose comment
calls them a record of the model exist for the properties only.

### The transaction path

* **WCJournal**: the journal's value, a function from keys to records, and its
  operations as operators. `Lookup` gives a set of results because Go's map
  order picks any match.
* **TxService**: the core.

  | Code | Actions |
  |---|---|
  | `PrepareSend`, `prepareCall…` | `PrepareSend` / `PrepareCall`, `ReadSigner`, `RecheckGen`, `HoldPending`, `PrepareFails` |
  | `PrepareWalletConnectSend` | `LookupWalletConnectPublication`, `WalletConnectBridgeTemplate`, then the above, `AttachWalletConnectIdentity` |
  | `confirmPublishBlock` | `ConfirmPublish`, `LatchHold`, `CheckSession`, `ReadKey`, `PrepareBlock(Fails)`, `RecheckBuilt`, `JournalSigned`/`JournalFails`, `Publish`/`PublishFails`, `FinishConfirm` |
  | `CancelPending` | `CancelPending` |
  | `Receive` | `Receive`, `ReceiveGuard`, `ReceiveChain`, `ReceiveSign`, `ReceiveFails`, `ReceivePublish` |
  | `ReconcileWalletConnectPublication` | the action of that name, `ReconcileFound`/`NotFound`/`QueryFails`, `Rebroadcast(Fails)`, `FinishReconcile` |
  | `AckWalletConnectResult` | the action of that name |
  | WalletService, NodeService, ConfigService | `Unlock`, `Lock`, `SelectAccount`, `ClearPending`, `InstallConnection`, `Disconnect`, `SetChainID`, `SetAllowMainnetSend` |
  | process end | `Restart` |

  State: `session`, `node` and `settings` are the other services' fields that a
  transaction depends on; `pending`, `holdCounter` and `publishingHold` are
  TxService's; `calls` holds the locals of each prepare in progress; `worker`
  those of the publication that holds `publishMu`; `journal` is the file;
  `blocks` and `onChain` are the signed blocks and the network.
* **PublishOnce**: what the journal promises, without wallet, node or holds.
  TxService implements it under the refinement `Promise` (records are the
  retained blocks, broadcast hashes the handed ones).
* **TxServiceInv**: the layers of the inductive invariant.

### The node

* **NodeConnection**: `op` is the transition that holds `opMu` with its program
  counter (its waits for a call of another library, `Outside`, included); `client`, `connGen`, `chainID`, `height`, `stop` and `syncStop` are
  the fields under `mu`; `loop[g]` and `poller[g]` are the goroutines of
  generation `g`; `embedded`, `stopping` and `wedged` are the embedded node's
  handle, its stop in progress and its latch; `shown` is the last status event.
  Actions follow `SetNodeMode`, `SetNodeURL`, `Connect`, `Disconnect`,
  `DeleteEmbeddedData`, the dial (`BeginDial`, `InstallConnection`, the
  superseded case included), `DegradeConnection`, the momentum loop, the sync
  poller, `startEmbedded`/`stopEmbedded` with its timeout, and the quit.
* **SyncStatus**: `node_sync.go`'s tracker, the two stall clocks, the
  rate-based estimate, and pollers that supersede each other.
* **NodeStore**: events against pulls at each mount; `statusSeq` is the store's
  counter that a push bumps.
* **AutoReceive**: the backend's loop (claim, snapshot, subscribe, sweep, three
  stale rounds, signal) with the store's tasks that stop and start it.
* **Paging**, **AcceleratorVotes**: one `GetVotableForMyPillars` made of many
  requests while projects, phases and votes go on; `Paging` is the rule of
  `collectPaged` by which a collection ends.

### What the wallet keeps

* **AtomicFile**: load, change, temporary file, sync, rename under one mutex,
  as `config_service.go` and `walletconnect_journal.go` both do it; process
  crashes and power failures. **AtomicRegister** is what it promises.
* **WalletSession**: `selMu` is a record (which operation, how far); a watchdog
  is named by the generation it was started for; decrypting happens in a KDF
  slot outside every lock.
* **WalletFiles**: keystore files, one temporary file per keystore, manifest and
  its scan-and-reconcile, under overlapping calls, failed writes, crashes and a
  corrupted manifest.
* **SettingsFile**: what the file says: migration at every read, every setter,
  the address book with its spellings.
* **AccountStore**: the wallet store with its queue of one, the epoch, the
  shell's coalesced refresh and one store it loads, against WalletService behind
  an asynchronous binding.

### The stores

* **TxStore**: the dialog against the backend's hold slot and latch.
* **TxHistory**: the buffer of `txs.ts`, its `ensure` and `load`, whose fetches
  overlap.
* **UnreceivedStore**: the list, the receive of one row and of all rows.
* **Registration**: wizard, poll and settle of `sentinel.ts` and `pillar.ts`; what
  is `Offered` includes what the pillar's header leads back to.
* **WalletConnectStore**: a request's handler as a process that suspends at its
  awaits; slot, preparation slot, replay queue, delivery markers, and the
  session, expiry, lock and account events. Its backend is WCJournal.
* **WalletConnectProposals**: proposals, their expiry, approve and reject.

### Unions

Except for TxService's, the passing runs put the instances of several components *side by side*: a
variable `part`, chosen at the start, says which instance runs, and the
variables of the others stand still in one initial state. The state space is the
sum of the instances', not their product, and no component's behaviour is
changed; instances of one component share its variables. Fairness of an action is
stated of `part = "x" /\ Action`; where two components need strong fairness, one
conjunct (`Strong1`, …) stands for one action of each, which is the same, since
only one part ever runs.

### What is abstracted

* **TxService and WCJournal**: A template is an effect (a model value): destination, token, amount and data
  are only ever compared together (`assertMatches`, the intent hash). The ABI
  decoding of a dapp's request is left out. A block is its signer, effect,
  chain, the height it extends and, for a WalletConnect block, its request; its
  hash is its index among signed blocks. The node accepts a block that extends
  its account's chain, or that it has. An action that reads two services in a
  row does so in one step where the second read cannot invalidate what the first
  decided: the guards at the head of `ConfirmPublish` and of a prepare; the
  three journal scans of a lookup; the reads of `ReadKey` (a client that a
  disconnect outdates is dead, and the chain is compared again after the work).
  A confirm names the id of a preview some prepare returned. When the final
  consent check refuses, the code keeps the held template that `PrepareBlock`
  has filled in; the model's retry signs again against the current frontier.
* **NodeConnection**: A node is an endpoint with its chain and the heights it has yet to deliver.
  Platform calls (App Nap) are left out. `SetNodeMode` and its like wait for
  `opMu` as calls not yet made. A start that fails is undone by a `Stop` that may
  never return (`undo`); `shown` also keeps which loop emitted it, 0 for an emit
  under the lock.
* **SyncStatus**: Times are ticks, a gap of two is a sleep or a blocked call; percentages and
  estimates are in whole units; the peer count is left out.
* **NodeStore**: What the backend sends, events and answers, is taken to arrive in the order
  it is sent. The backend's status is its version number.
* **AutoReceive**: Entries of the backend's slot are named by their start, so `autoStop` is the
  start that owns it. The node's queue takes a block once, from its recipient.
  A record of the model, `upset`, keeps what came between since the toggle was last
  used on its own: actions that overlap, a lock during one, a lost connection, an
  unlock of another wallet than the one received for; `gaveUp`, in a loop's state,
  why its last sweep ended.
* **AcceleratorVotes**: A project or phase is its window and its votes; items are a set, since only
  membership and flags matter; the order of the list and its texts are left out.
* **AtomicFile**: A content is the set of updates in it, so updates only add. A failed write
  gives the mutex back and changes nothing. A power failure may truncate what was not synced and
  may undo a rename, because the directory is not synced.
* **WalletSession**: A wallet is a name; decryption succeeds or not. `DiskMayFail` lets any
  settings write fail. Settings are read and written in one step (that is
  AtomicFile's promise).
* **WalletFiles**: A keystore is its content under one password, or damaged. Creating one and
  scanning the directory are single steps. The manifest is the set of its
  entries: their order is only how a list is shown, two entries equal in id and
  name read alike, and a rename of an id that has two entries, which in the file
  changes the first, changes either. A record of the model, `torn`, names the
  wallets one of whose password changes damaged the file another had written.
* **SettingsFile**: `Others` stands for the fields that are set like `allowMainnetSend`. An
  address is an account and its spelling.
* **AccountStore**: Every unlock opens a distinct wallet, so that data of an earlier one is
  told apart. The epoch and `walletSession` are only compared with copies, so the
  model marks the copies that are out of date. One of the loaded stores stands
  for all that use `requestEpoch`.
* **TxStore**: A preview is its hold id. The page a user is on is a flow (`send` or `panel`).
* **TxHistory**: A chunk is its account and index; a page has one row; the epoch is a mark.
  The filter is chosen between fetches only. A record of the model, `mixed`, says
  that fetches of the active account overlapped since a load last landed alone.
* **UnreceivedStore**: A receive is one step; rows are received in any order; error texts are out.
* **Registration**: Amounts are reduced to whether a step is cleared; the dialog to its status and
  hold. The pillar's wizard is the sentinel's with one step more, `plasma`. A
  record of the model, `owed`, is the step published last, until its account's is
  credited or the wait is over for one of the reasons `Owes` names.
* **WalletConnectStore**: Requests of one kind (`znn_send`); a put and its broadcast's mark are one step
  of `ConfirmRuns`, and the outcome may still be unknown. `Earlier` are requests
  of which a previous run may have left a record. A deadline passes once, and
  its event may come at any time after. A check of an outcome is forgotten when
  its dialog is closed; what the backend's part of it would still do, a check
  that ends before the close does.
* **WalletConnectProposals**: A proposal is its id and whether it was flagged; its
  namespaces and texts are left out.

## 3. Runs

Eight runs pass, four show a disagreement (section 5). A property of a union is
often a conjunction: it is named for the question, and its conjuncts are the
component's own properties, each stated and explained in its module. Every
conjunct was broken on its own by one of the mutated forms the modules hold
(comments `Mutant: …`), and `PROJECT.json` names one of them for each property.

| Run | Module | Shows |
|---|---|---|
| `TxSession` | `MCTxService` | `TypeOK`, `CancelWins`, `ConfirmWhatYouSign` while two accounts come and go |
| `TxNetwork` | `MCTxService` | `OwnNetwork`, `MainnetConsent` while networks and the opt-in do |
| `TxJournal` | `MCTxService` | `SentIsJournaled`, `ExactlyOnce`, `NoSiblings`, and that TxService implements `PublishOnce` |
| `Backend` | `MCBackend` | `TypesOK`, `ConnectionAgrees` (mode, client, intent and loop), `OneEmbeddedNode`, `StepsStayTheirOwn` (a superseded loop neither ends nor lowers anything, a refused transition writes nothing), `ShownIsTrue` (the status between transitions, the store, stalls), `ReceivesAsAsked`, `NothingOwedIsMissed` |
| `Wallet` | `MCWallet` | `TypesOK`, `NoLostUpdate`, AtomicFile implements `AtomicRegister`, `SessionKept`, `WalletsKept` (keystores and passwords too), `SettingsKept`, `ShowsTheSigner`, `DataIsOwn` |
| `Stores` | `MCStores` | `TypesOK`, `HoldsAreShown`, `ListsAreOwn`, `StepsOnce`, `EndsRespected`, `PublishedAnswered`, `ProposalsReviewed` |
| `LiveBackend` | `MCLiveBackend` | `Readable` under power failures; `OutcomesResolve`, `NodeSettles`, `LocksWhenIdle`, `QueueDrains`, `CallsEnd` |
| `LiveFrontend` | `MCLiveFrontend` | `DialogsEnd`, `DataLands`, `AllReceived` |

A property that the code breaks in some interleaving is stated twice where it
matters. As the repository has it, it is a *claim*, which section 5
lists as violated. As the code keeps it, it is checked and proved in the very instances
that hold the interleaving, with a condition that names it: `RefreshedIsOwn` of
`DataOfActive`, `OrderRestored` and `MoreRestored` of `PagesInOrder` and
`MoreUnlessFailed`, `IntactUnlessTorn` of `KeystoreIntact`, `WaitsForCredit` of
`SettledForReal`, `OffMeansOff` and `FollowsActive` of `OffUnsubscribes` and
`OnReceives`, `QueueDrains` of `DrainsOrStalls`, `NodeSettles` of `StartReturns`,
`StatusHonest` of `DisconnectedUntilLands`.

### Bounds

The constants `Max…` bound what would grow without end (sessions, connections,
holds, blocks, restarts, transitions, polls, clicks, presses, faults). Each
appears in the guard of the action it caps, and nothing else is capped. The
journal's 32 records are `MaxRecords`.

* **TxSession, TxNetwork.** A hold can be stale in one way only, by another hold or another
  session after it: two holds and a switch away and back (unlock, switch,
  switch, lock) reach every relation of preview, hold and session. Two networks
  and two disconnects give a stale client, a stale chain read and a return.
* **TxJournal.** A duplicate needs two requests and two blocks; the third block
  is the receive that takes a height. The four requests are one transfer, the
  same under a new id, under a new session, and its id reused. One crash falls
  between any two steps.
* **Backend.** `modes` has three transitions over two remote nodes and the local
  one, so a superseded loop, a stop that times out and a start after it meet;
  `momentums` two, with momentums in both nodes' channels. The stall window is
  two ticks and a gap may skip one, so a stall can be missed, met and left; the
  numbers of `numbers` lie before, at and past the target. In `slot` two store
  actions overlap over three starts, with a lost connection and a failure; in
  `switched` two wallets, an account switch and a lock come between. Two projects
  on pages of one item move under the collection.
* **Wallet.** Two callers and three updates lose one another if any two steps of
  the file are swapped; two wallets, a failed write and an unlock over an
  unlocked wallet meet in three calls; four calls of two callers on two ids with
  two mishaps meet the import, the list, the rename, the crash, and two password
  changes of one wallet of which one fails; two spellings of two accounts fill the
  address book; three selections over three accounts overtake a queue of one. The
  data on show (`data`, `reopened`) follow three selections of two accounts, the
  one on show included, or two sessions, with failures and answers in any order.
* **Stores.** Three prepares against one slot, with a cancel and a session
  change; three chunks and a cap of four, with two turns of the page or with a
  turn and two accounts, so that turns, loads and switches overlap and fail; a
  block of each of two accounts and a switch away and back; a wizard of two
  accounts with two presses, two refreshes in any order and two of switch, leave
  and stop, and the pillar's three steps with three presses; two requests for one
  slot, one queue and one journal, which is what it takes to compete, and a
  restart; two proposals under one id.
* **Live runs.** The same components on the smallest instance in which what must
  end can be delayed by every fault: a sweep has four failures, one more than
  the rounds after which it gives up.

`CHECK_DEADLOCK FALSE` stands in the runs whose components may stop: a quit
process, a returned call, an exhausted bound. `TxSession`, `TxNetwork` and
`TxJournal` keep the check: the user can always cancel, so no state is terminal.

## 4. Fairness

Nothing is assumed about a user, except where the property is about one who
keeps asking, nor about a request's arrival, a crash, or a fault's absence,
except as strong fairness: what can fail any finite number of times does not
fail for ever.

| Component | Assumption | Why |
|---|---|---|
| TxService | weak fairness of a publication in progress; strong fairness of reconcile, rebroadcast and mark (`KeepsChecking`) | a publication is a goroutine whose every call returns or fails; the second is the retry the dialog offers (`walletconnect.go:347-348`) with some queries answered and some writes done |
| NodeConnection | weak fairness of the transition that holds `opMu`, except while it waits for a call of another library (`Outside`: dial, subscription, the embedded node's start, the `Stop` of a failed start), of the stop's mutex, of the quit | a goroutine goes on and the wait for a stop is bounded (`node_service.go:642`); those calls have no timeout around them (`embeddednode.go:76-84`, `node_service.go:272`), so nothing is assumed of them and `NodeSettles` excepts them |
| WalletSession | weak fairness of `selMu`'s holder and of the clock; strong of a caller with something in hand and of the watchdogs | Go's mutex is handed to a waiter; the watchdog's ticker fires |
| AtomicFile | strong fairness of each caller | the mutex is handed on |
| AutoReceive | weak fairness of the store's tasks and of each loop; receives and fetches fail finitely often, but often enough for a sweep to give up | answered calls; a sweep ends after three rounds without progress or a failed fetch, which `QueueDrains` excepts |
| AcceleratorVotes | weak fairness of the call, whose node lies about counts and time | every request returns or fails |
| TxStore, AccountStore, TxHistory, WalletConnectStore | weak fairness of calls, answers and continuations; of a request's deadline | the binding answers every call; timers fire |
| UnreceivedStore | the shell refreshes again and again and some loads succeed; the user keeps asking for all rows | `AppShell.vue` refreshes on every momentum; `AllReceived` is about such a user |
| Registration | strong fairness of the poll and of its reads | the timer fires, and some reads succeed |

## 5. Disagreements

Where the code does other than the repository says. The first four are runs that
expect a violation, quoted in `PROJECT.json`:

1. **Sender check before the generation** (`TxSender`): a request's sender is
   compared with the active account before the session generation is read; a
   switch in between publishes it from the other account.
2. **A shared temporary file** (`WalletClobber`): two password changes of one
   wallet write the same `<path>.tmp`, and a damaged one replaces the keystore.
3. **A request held again** (`WcHeldAgain`): a reissue's delivered answer deletes
   the original's record; redelivered after a restart, it is up for approval
   although its block is on chain.
4. **A stranded hold** (`StoreStranded`): leaving the page during a publication
   that is then refused for a retry leaves the backend's slot taken.

The others are states of the same kind: the properties are stated in the modules
and TLC finds each violated on the constants given (the ones that matter; others
as in the component's instance in its union). The first ten are the promises that
a run checks only up to the condition under which they hold; the condition is
part of that run's formula (section 3), not of its constants.

| Module, property | Constants | The code | The repository says |
|---|---|---|---|
| NodeConnection, `DisconnectedUntilLands` | 2 remotes, momentums | a loop composes a status, its connection is dropped, and "connected" is emitted after the transition's "disconnected" (`node_service.go:316`) | "the footer shows "Disconnected (<new mode>)" until the connect lands" (`node_service.go:441-445`) |
| NodeConnection, `StartReturns` | 1 remote, `FairSpec` | the `Stop` of a node whose start failed has no timeout, under the package mutex and `opMu` (`embeddednode.go:77`, `82`): every later transition waits | Start "returns once its WS RPC accepts a TCP connection (or a bounded timeout elapses)" (`embeddednode.go:60-61`) |
| AutoReceive, `DrainsOrStalls` | `MaxFailures = 1`, `FairSpec` | one failed read on a live connection ends the sweep (`node_service.go:998`, `1037`); nothing begins another before the next block, nor does an unlock after one that stalled while the wallet was locked | "retrying until the queue drains or stalls" (`node_service.go:987-988`) |
| AutoReceive, `OffUnsubscribes` | 2 tasks | a start between whose two awaits the toggle was switched off starts the loop all the same (`autoReceive.ts:49`) | "toggle off unsubscribes" (`docs/superpowers/specs/2026-06-20-phase-2-send-receive-design.md:62`) |
| AutoReceive, `OnReceives` | 2 wallets, 1 task | the store compares indices, not wallets (`autoReceive.ts:62`); a reconnect starts nothing (`node_service.go:340`), and overlapping actions record the index they were called with | "subscribe to … (ctx, active) and receive each arrival" (same line) |
| AccountStore, `DataOfActive` | `PicksActive` | selecting the account on show moves the epoch, so what was loading is dropped, and loads nothing (`wallet.ts:112`) | the trailing run "guarantees an account switch mid-refresh still lands its data" (`AppShell.vue:45-46`) |
| TxHistory, `PagesInOrder` | 1 account, 2 turns | two pending fetches append one chunk twice and skip the next (`txs.ts:56-60`) | `buffer` is "every expanded record fetched so far", `chunkIndex` the "next backend page index" (`txs.ts:34-35`) |
| TxHistory, `MoreUnlessFailed` | 2 accounts, `FetchFails` | the failure of a fetch for the account that was left ends the new account's paging (`txs.ts:63`) | a store "discards the response if it changed while the request was in flight" (`requestEpoch.ts:6-8`) |
| Registration, `SettledForReal` | 2 accounts, `ReadsFail` | a failed poll is followed by a settle check on what the store still holds, which after a switch is the previous account's (`sentinel.ts:55`, `pillar.ts:111`) | "Clear the pending state once the chain reflects the step." (`sentinel.ts:58`) |
| Registration, `PublishedIsPolled` | `PressesAgain`, `PreparesFail` | a step that published is not waited for when the wizard was left and opened again, or a second press failed, while it prepared (`SentinelLaunch.vue:41`) | "When the user's deposit/register publishes, poll for it to settle on-chain." (`SentinelLaunch.vue:66`) |
| TxService, `ExactlyOnce` | `OneAtATime = FALSE`, 2 callers | two prepares pass their lookup before either block is journaled (`walletconnect.go:217`) | Lookup inside "keeps a direct PrepareWalletConnectSend caller safe too" (`walletconnect.go:215-216`) |
| TxService, `OutcomeResolved` | 1 request and a receive, 2 blocks, `FairSpec` | a signed record whose height was taken can be neither rebroadcast nor acknowledged | "Retryable until the outcome is known" (`walletconnect.go:347-348`) |
| TxService, `FullJournalAccepts` | `MaxRecords = 1`, 2 requests | a full journal refuses (rightly, for exactly-once) | "capped at 32 entries (oldest evicted)" (`docs/superpowers/specs/2026-07-17-walletconnect-durable-publication.md:43-45`) |
| NodeConnection, `HeightOfEndpoint` | 2 remotes, momentums | a buffered tick of a superseded loop raises the new connection's height (`node_service.go:303`) | "a superseded loop unsubscribes itself instead of racing" (`node_service.go:256-257`) |
| NodeConnection, `HaltsOnQuit` | embedded mode | a quit during a start finds nothing to stop, and the start completes (`app.go:42`) | "so the node halts cleanly on quit" (`docs/superpowers/specs/2026-06-21-phase-4b-embedded-node-design.md:83`) |
| WalletSession, `NoDeadHold` | 2 wallets | Unlock over an unlocked wallet does not call `onSessionChange` (`wallet_service.go:559`) | it is "invoked whenever the signing session changes" (`wallet_service.go:62-64`) |
| WalletSession, `LocksOwnSession` | `MaxIdle = 2` | a watchdog that saw its deadline locks the session opened since (`wallet_service.go:724`) | "no second lock later" (`docs/superpowers/specs/2026-07-19-auto-lock-design.md:60`) |
| WalletSession, `TimeoutPersisted` | 2 presets, 2 callers | `startAutoLock` overwrites the live timeout with the one it read before (`wallet_service.go:698`) | "persists … and updates the cached live timeout atomically" (same document, line 23) |
| WalletFiles, `OneEntry` | no mishaps | a list during an import registers the file under its file name; the import then adds a second entry (`wallet_service.go:286`) | an id is "the stable storage id" (`docs/superpowers/specs/2026-06-26-wallet-naming-design.md:22`) |
| WalletFiles, `EntriesAreWallets` | `Mishaps = {"crash"}` | a temporary keystore left by a crash is listed as a wallet (`wallet_service.go:605`) | an id is `<uuid>.dat` or the original filename (same line) |
| AutoReceive, `ReceivingShown` | `MaxClicks = 4`, `MaxFailures = 1` | a stopped sweep's last event turns the next one's indicator off (`node_service.go:1003`) | it tells "that auto-receive is (or is no longer) actively receiving" (`node_service.go:1049-1050`) |
| TxStore, `ErrorMeansNothing` | `AnswersLost` | a lost publish reply is shown as a failed transaction (`tx.ts:84`) | "Nothing happened on-chain." (`tx.ts:80`), against `tx_service.go:434` |
| AtomicFile, `NoLostUpdate` | `PowerMayFail` | the directory is not synced after the rename (`walletconnect_journal.go:172`) | "It is the durable exactly-once boundary" (`walletconnect_journal.go:16-21`) |
| AccountStore, `LastIntentWins` | `SelectFails` | a failed select drops the queued one (`wallet.ts:121`) | "last intent wins" (`wallet.ts:15-16`) |
| WalletConnectStore, `QueueDrained` | 2 unrelated requests with records | a replay's failed delivery drains nothing (`walletconnect.ts:799`) | clearing the marker "always drains any replay that was queued behind it" (`walletconnect.ts:713-715`) |
| WalletConnectStore, `RecoveryOfEndedSession` | one transfer from 2 live sessions | a record of a live session is offered for local recovery (`walletconnect.ts:923`) | "its originating session is gone" (`walletconnect.ts:54-55`) |
| WalletConnectStore, `UnknownHasRecord` | a request and its reissue | a queued replay shows the outcome of when it was queued (`walletconnect.ts:829`) | "The journal is the durable source of truth" (`walletconnect.ts:89-91`) |
| WalletConnectStore, `OneAnswer` | `MaxChecks = 2` | a second "Check outcome" delivers a second answer (`walletconnect.ts:946`) | "could race it and produce two result responses" (`walletconnect.ts:1077-1078`) |
| WalletConnectProposals, `ExpiryOfItsOwn` | 3 proposals | an expiry clears a newer proposal under the same id (`walletconnect.ts:345`) | "a delayed expiry cannot wipe a newer proposal" (`walletconnect.ts:343-344`) |
| SyncStatus, `NoStaleStall` | 2 pollers | a superseded poller's sample in flight is emitted as stalled (`node_service.go:734`) | "A superseded poller must not paint a stalled frame over a fresher connection's status." (`node_service.go:705-706`) |
| SettingsFile, `RenamedEverywhere` | 1 account, 2 names, a file with two spellings | only the first of an account's entries is renamed (`contacts.go:52`) | "replacing any existing entry with the same address" (`contacts.go:34-37`) |
| Registration, `NothingLingers` | `ReadsFail`, a switch | a failed refresh leaves the previous account's data (`sentinel.ts:43`) | "so the previous slot's … view doesn't linger" (`SentinelsPanel.vue:18-19`) |

## 6. Proofs

Proved for every value of the constants that the named assumptions of the
modules admit (`ConstantsAssumption` and `MaxRecordsAssumption` for TxService,
`NodeAssumption`, `ProposalsAssumption`; `SessionAssumption`, `FilesAssumption`,
`StoreAssumption`, `ReceiveAssumption`, the four assumptions of TxStore, `SyncAssumption`,
`UnreceivedAssumption`, `HistoryAssumption`, `SignerAssumption`, NodeStore's
`BoundsAssumption`, and WalletConnectStore's with `RequestsAssumption` are
hypotheses of their theorems, and the modules for TLC assume them of their
instances). These only say what kind of value a constant is. The hypotheses that
restrict the behaviours are in the table:

| Module | Theorem | Statement |
|---|---|---|
| `TxServiceProofs` | `TypeInvariant` | `Spec => []TypeInv` |
| | `TypeCorrect` | `Spec => []TypeOK` |
| | `CancelOrPublish` | `Spec => []CancelWins` |
| | `SignsWhatWasShown` | `Spec => []ConfirmWhatYouSign` |
| | `SentStaysJournaled` | `OneAtATime`: `Spec => []SentIsJournaled` |
| | `PublishedExactlyOnce` | `OneAtATime`: `Spec => []ExactlyOnce` |
| | `Refinement` | `OneAtATime`: `Spec => ImplementsPublishOnce` |
| | `DeliversToOwnNetwork` | `Spec => []OwnNetwork` |
| | `MainnetOnlyWithConsent` | `Spec => []MainnetConsent` |
| | `HandsOverAtFrontier` | `Spec => []NoSiblings` |
| `AtomicFileProofs` | `FileTypeOK` | `Spec => []TypeOK` |
| | `FileReadable` | `Spec => []Readable`, power failures included |
| | `FileNoLostUpdate` | `~PowerMayFail`: `Spec => []NoLostUpdate` |
| | `FileImplementsRegister` | `~PowerMayFail`: `Spec => ImplementsRegister` |
| `WalletSessionProofs` | `SessionTypes` | `Spec => []TypeOK` |
| | `AlwaysWatched` | `Spec => []WatchedIffUnlocked` |
| | `ShowsOnlyItsOwn` | `Spec => []RevealsWhatWasAsked` |
| | `SelectionOnDisk` | `Spec => []SelectionPersisted` |
| | `KeysAreCounted` | `Spec => KeyChangeBumpsGen` |
| | `ShowsWhatSigns` | AccountStore: `Spec => []ShowsTheSigner` |
| | `LastIntentShown` | `~SelectFails`: AccountStore's `Spec => []LastIntentWins` |
| | `NoDataOfAnother` | AccountStore: `Spec => NoOldData` |
| `WalletFilesProofs` | `FilesTypes` | `Spec => []TypeOK` |
| | `KeystoreAlwaysIntact` | `Spec => []IntactUnlessTorn` |
| | `AskedForInstalled` | `Spec => []InstallsAskedFor` |
| | `NamesAlwaysKept` | `Spec => []NamesKept` |
| | `EveryWalletListed` | `Spec => []ListedAll` |
| `NodeServiceProofs` | `NodeTypes` | `Spec => []TypeOK` |
| | `AgreesAlways` | `Spec => []ConnectionAgrees` |
| | `OnlyOneNode` | `Spec => []OneEmbeddedNode` |
| | `DialKeepsIntent` | from the dial to the loop, `connGen = op.gen` |
| | `OwnSteps` | `Spec => StepsStayTheirOwn` |
| | `ReceiveKeepsTypes` | AutoReceive: `Spec => []TypeOK` |
| | `SlotIsOwned` | AutoReceive: `Spec => []SlotOwned` |
| | `OffIsOff` | AutoReceive: `Spec => []OffMeansOff` |
| | `ReceivesForActive` | AutoReceive: `Spec => []FollowsActive` |
| | `SyncTypes` | SyncStatus: `Spec => []TypeOK` |
| | `HeightStallIsReal` | SyncStatus: `Spec => HeightStalls` |
| | `ErrorStallIsReal` | SyncStatus: `Spec => ErrorStalls` |
| `TxStoreProofs` | `StoreTypes` | `Spec => []TypeOK` |
| | `PublishedIsShown` | `Spec => PublishedSurfaces` |
| | `HoldsAreReleased` | `OneDialog`: `Spec => []NoStrandedHold` |
| | `AsksAboutTheSlot` | `OneDialog`: `Spec => []DialogIsSlot` |
| | `UnreceivedTypes` | UnreceivedStore: `Spec => []TypeOK` |
| | `ReceivesItsOwnRows` | UnreceivedStore: `Spec => []RowsAreOwn` |
| | `HistoryTypes` | TxHistory: `Spec => []TypeOK` |
| | `PagesStayInOrder` | TxHistory: `Spec => []OrderRestored` |
| | `AsksForMore` | TxHistory: `Spec => []MoreRestored` |
| | `NodeStoreTypes` | NodeStore: `Spec => []TypeOK` |
| | `PushAlwaysWins` | NodeStore: `Spec => []PushWins` |
| | `LearnsTheStatus` | NodeStore: `Spec => []ShowsTheNode` |
| | `NoSyncElsewhere` | NodeStore: `Spec => []NoSyncOutsideEmbedded` |
| `WalletConnectProposalsProofs` | `ProposalTypes` | `Spec => []TypeOK` |
| | `GrantsWhatWasReviewed` | `Spec => ProposalsReviewed` |
| `WalletConnectStoreProofs` | `StoreTypes` | `Spec => []TypeOK` |
| | `HoldsNeverStranded` | `Spec => []NoStrandedHold` |
| | `EndedNeverApproved` | `Spec => []EndedNeverApprovable` |
| | `EndsAreOwn` | `Spec => []OnlyOwnEnd` |
| | `AnsweredOnce` | `MaxChecks <= 1`: `Spec => []OneAnswer` |
| | `NeverRejectedOncePublished` | `OwnIntents`: `Spec => []PublishedNeverRejected` |
| | `RecordsKept` | `OwnIntents`: `Spec => []PublishedKeepsRecord` |
| | `UnresolvedHasRecord` | `OwnIntents`: `Spec => []UnknownHasRecord` |

* `OneAtATime`: WalletConnect prepares come from the front end's single slot.
* `~PowerMayFail`: processes may crash, the machine does not lose power.
* `OneDialog`: the Transfer page, whose user neither presses Send while a press
  is still releasing a hold nor leaves during a publication.
* `MaxChecks <= 1`: "Check outcome" is not pressed again during a check.
* `OwnIntents`: no two requests ask for the same transfer.
* `~SelectFails`: a selection fails only while the wallet is locked.

None can be dropped. Section 5 has the violations without the first two, without
`MaxChecks <= 1`, `OwnIntents` (`UnknownHasRecord`) and `~SelectFails`
(`LastIntentWins`); without any part of `OneDialog` TLC strands a hold
(`StoreStranded` is the part about leaving; a second press, and a panel's prepare
next to the page's, are the others). That no published request is held again is
not proved at all: it would need `OwnIntents`, and the reissue it excludes is the
case that matters (`WcHeldAgain`).

### TxService

The inductive invariant comes in layers, each proved action by action given the
ones below:

1. `TypeInv`. `TypeOK` is not inductive: a step that signs needs the signer of
   the worker to be an account, not `NoAccount`, so `TypeInv` says which fields
   of a hold, call and worker are settled at which point and that every hash
   names a signed block.
2. `CancelInv`. A latched confirm's hold is the latch's hold, ids are never
   reused, and no cancelled id is held or latched: a cancel must refuse because
   0 and the held id are both refused while the latch is on.
3. `PreviewInv`. The preview stored under an id agrees with the hold under that
   id, the call that is about to attach its identity, the confirm's snapshot
   and, once built, the block.
4. `PublicationInv`, which needs no slot. Only the holder of `publishMu` has
   anything in progress; each record is of a block signed for its request and
   intent; and `InHand` follows the block a publication works on: unseen by the
   network until it is journaled, on record and unresolved while it is handed
   over and marked. The frame argument is `PublicationMoves`: a step moves one
   worker, so only that worker and the records need a proof.
5. `SlotInv`, under `OneAtATime`. A request is `Unknown` to the journal from its
   lookup until its block is journaled: no other call, hold or confirm can
   journal anything meanwhile. Hence one record per intent, and a put that never
   replaces a record (`SentJournal`).

`StepKinds` then sorts every step by what it does to the journal and to what was
handed over; `SentIsJournaled` and the refinement follow kind by kind: journaling
is `Sign`, a submission `Hand`, a mark `Resolve`, an acknowledgement
`Acknowledge`, and anything else stutters.

6. `NetworkInv`, which needs no slot either. A client lives exactly as long as
   the connection generation it was read at, so while it is live the node is the
   one the chain was checked against (`ClientInv`). The opt-in's record is
   renewed only by the holder of `publishMu`, which has looked by the time it is
   past its guard. And a block's predecessor is still the frontier when it is
   handed over (`Extends`), because only the holder of `publishMu` moves it. That
   is all `HandsOverAtFrontier` says: a signed block that never arrived may share
   its predecessor with a later one, and a rebroadcast hands over what its record
   holds.

### AtomicFile

`TypeOK` says who holds the mutex: a call is past its load exactly when it does,
so at most one is. `OwnCopy` says what that call's copy is, the file plus its own
update until the rename; `OnDisk` that the bytes behind a rename were synced
before it. Both rest on the mutex and on the order write, sync, rename, and give
`Readable` whatever the power does. Without power failures, `Promise` (the file
holds every reported update, and only issued ones) is inductive with them, and a
rename is the register's `Apply`, a return its `Report`, anything else a stutter.

### WalletSession

Only the holder of `selMu` changes the session, so how far it has come says what
may be out of step: `Watched` has an unlock that has swapped the session but not
yet started its watchdog, and a lock that has not yet stopped it; `Selected` has
the choice that is on disk and not yet in memory. Outside `selMu` a call relies
on the generation it read: while that lasts, so does the wallet (`Reading`),
which is why a mnemonic derived for seconds is still the right one. That the
generations the model has are enough is `Spends`: each call pays for the session
it changes, an unlock also for the watchdog it leaves, which may lock once. The
sum is over the callers under way and the watchdogs alive, hence the lemmas on
cardinalities.

### AccountStore

The answers under way, in their order, tell what the store will be: locked or not
(`LockInv`), with a shell or not (`OpeningInv`), showing which account
(`ShownInv`). This is inductive because the order is settled where it matters.
One unlock is under way at a time, and its answer arrives only at the head, so
every answer of the session before has arrived by then; one selection is under
way at a time, and none from before an unlock comes after it (`ChoiceInv`). The
answer of a selection carries the index that now signs, so it may overtake any
other. `IntentInv` adds the queue of one: the account the user asked for last is
queued, or else under way, or else shown.

`DataInv` is why a copy of the epoch is enough for `NoOldData`: a load whose copy
is current has read the account that signs or the one on show, which differ only
while the answer of a selection is under way, and that answer moves the epoch.
Behind a locked store it has read nothing, so an unlock finds nothing to confuse
with its own. That the data of the account on show *lands* is another matter:
`DataOfActive` is not provable, since a selection of the account that is shown
already moves the epoch and reloads nothing (section 5).

### WalletFiles

`MutexInv` says that at most one call is between its load and its save and that
what it loaded is still the manifest; hence what it saves has every promised name
(`SavedInv`), and a list's merge every known wallet, since its keystore is valid.
`OwnerInv` is about the files, which no mutex protects: at most one call writes
the new file of an id, and no change replaces it meanwhile. Password changes may
overlap, and share their temporary file; `InstallsAskedFor` says what one of them
may find there when it renames: the complete file of a change that is still under
way, or nothing because that change came first, or, where the wallet is `torn`,
what a failed write left. A crash ends every call, so what it leaves behind is
written anew before it is renamed. The invariants need each other: a list drops
the entry of a keystore that cannot be read.

### NodeConnection

The proof is a case split on the transition that holds `opMu`. From the dial to
the subscription nobody else moves `connGen` (`Connecting`; the code checks for a
superseded dial all the same, `node_service.go:188`, and by `DialKeepsIntent`
that branch is never taken while every dial runs inside `opMu`); a client belongs to the intent, serves its chain and has
its loop (`Connected`); memory lags behind the disk only between the two writes
(`ModeFollows`); and the handle, the stop in progress, the wedge latch and the
node object tell one story (`NodeOwned`), the quit being the only one that stops
a node without `opMu`. `NotRefused` adds what keeps a transition from writing a
mode a wedged stop would refuse. `Spends` bounds `connGen`: each transition, a
loop's one failure and the quit each have their share.

### AutoReceive

All four theorems take the constants' assumption, finitely many blocks and a
sweep that needs at least one round without progress to give up (three in the
code, `node_service.go:1006`); none restricts the user, the wallets or the
connection. A loop is named by its start, so what was not started yet has no
record; a loop between its claim and its subscription has exactly one task that
works on it (`StartsInv`), and therefore a failed start or an exit gives back a
slot only if it is its own. Every step either moves one living loop
(`LoopMoves`), or tasks only (`TasksMove`), or closes the slot's stop channel
(`StopsKept`), or ends a loop (`SlotReleased`), or claims.

What the store can promise after an overlap is nothing until the toggle is used on
its own again, and then everything: `OffInv` holds while no action has begun during
another since then. One task at most is under way, so the flag it reads after its
await is the one it wrote before, and a loop is in the slot of a store that is off
only until that task's stop. `FollowInv` holds while nothing else came between
either. The task under way is for the active index, since a switch begins another;
the loop in the slot snapshots the address while that task starts it; and it exits
on its own only when its connection is gone (`ServeInv`). A lock and an unlock of
the wallet that is received for do no harm; of another wallet they do, because the
store compares indices.

### SyncStatus

The frame is computed from a tracker of five fields, the property speaks of all
that was observed. `Tracks` relates them: `lastHeight` and `lastState` are of the
latest good sample, `firstErr` is the time of the first failure after it, and
`lastAdvance` that of an observation since which, and not earlier, every good
sample was unsynced and at one height (`Since`). With the observations in the
order of their times (`Timed`), the clock is over the window exactly when the
height stood still for it, whichever sample the window began with (`StillSince`).
`GoodSample` and `FailedSample` are the two ways a history grows. That a time left
is never negative rests on the samples being in the order of their times, and on
a height that went backwards having no rate.

### TxStore

`Once` holds whoever prepares and leaves: a hold has one place, the call that
works on it or the dialog that asks about it. With it an answer of a published
block can only find its own dialog, or another transaction's
(`PublishedIsShown`). With one dialog, a call past its confirmation has its
dialog up (`Confirming`), a press that releases a hold is alone and no dialog is
up (`Releasing`), a prepare whose token is current shows "preparing" (`Owning`),
and therefore the hold in the slot is being released, on its way to the store or
shown (`Accounted`). `Latched` is what makes a release that is refused harmless.

### UnreceivedStore and TxHistory

Both stores compare a request's epoch with the one of its answer; what is proved
is that this is enough for the state they keep. In UnreceivedStore rows of an
account that was left may be on show, but then the shell's refresh is current or
due once more (`RowsInv`): its flag is cleared only by the load that it begins.
In TxHistory fetches overlap as they like; what is proved is when the order comes
back. While the record says that they did not (`~mixed`), a current fetch is of the
active account and for the chunk that is next, at most one is current, and none
with a load (`FetchesInv`); hence the buffer is in order, or a load is due or under
way that will replace it (`BufferInv`). A load that lands with no current fetch
beside it starts that state anew, whatever was in the buffer. A store that stopped
asking is at the end, at the cap, or has seen a fetch fail since a load landed
(`MoreInv`); whose fetch it was does not matter to the code, whose catch does not
look at the epoch.

### NodeStore

Statuses arrive in the order in which they were sent, and the last one under way
is the backend's unless a change was not told yet (`WireInv`). A pull overtakes
them, so its answer may be newer than they are. The store drops it when a status
came in since the call; `PullInv` says that this is enough: an answer that will be
shown is no older than what was pushed, and is the backend's own status or has a
push behind it. Hence a store that listens shows the backend's status or has
something under way that will (`LearnsInv`).

### WalletConnectProposals

An approval goes to the client's record of an id. `Latest` says that this is the
record of the proposal on show, or nothing: a newer proposal under the id has
replaced the one on show when it came.

### WalletConnectStore

A request has one place: its handler, the dialog's slot or the queue. `Good` states this of a store and everything
around it, as an operator of its arguments, so that a handler made of several
updates (settle, close, mark, drain) is proved update by update on the
intermediate stores:

* `SlotsInv`, `OwnersInv`: which handler, at which point, owns the slot and the
  preparation, and what a free slot looks like;
* `QueueInv`, `NotifyInv`: who waits in the queue and who is being notified is
  settled otherwise;
* `ToldInv`, `EndInv`: a request that has ended is not awaiting approval, and is
  marked only for its own session or deadline, whichever await the news fell
  into;
* `AnsweredInv`: an answered request is over and shown nowhere;
* `OnceInv`: when outcomes are checked once at a time there is one notification
  under way, of the displayed request, and no second answer. Without that the
  number of notifications has no bound, so `TypeOK` only says that it is a number.

`HoldInv` joins them to the backend: the held block is the one the slot shows or
the one a handler is about to show or release.

`KeptInv` adds the journal. Whatever is on its way to be answered with an error,
shown for approval or held is unpublished (`Unpublished`: not on chain and
without a record), whatever is shown as unknown has its record (`Recorded`), and
a request on chain that was not answered keeps its record. Records are only
deleted by key and only looked up by intent, so this is inductive when a record
matches one request, which is `OwnIntents`; the reissue of `WcHeldAgain` is
exactly a second request that matches.

## 7. Only model-checked

* AcceleratorVotes, SettingsFile and Registration: all their properties.
* AccountStore's `TypeOK`, and its `RefreshedIsOwn`.
* TxStore on the panels, whose flow has its own discipline (`Panels`).
* NodeConnection's `StatusHonest`.
* All liveness, which with `ENABLED` is outside the prover's reach.

## 8. Plan

*Done*: all modules above; the proofs of section 6. What would come next:

1. The composition of WalletConnectStore with TxService, so that the slot is
   derived and `OneAtATime` discharged instead of assumed.
2. TxStore's panels.
3. Models of governance proposals and of the remaining contract stores, which
   follow `Registration` and `AccountStore`.

## 9. Not modelled

* Key derivation, encryption and signing; ABI encoding and decoding of contract
  calls and governance payloads (`governance_propose.go`, `tx_effect.go`): what
  they compute is a value no property here looks into, and most of it is the
  SDK's.
* DTOs, decimals and formatting: mappings without state.
* The read queries of NomService other than the votes: each is one request whose
  answer is mapped and returned.
* The contract stores other than the sentinel's and the pillar's, prices, and
  most Vue views: they load with the request epoch, which `AccountStore` models
  once.
* App Nap, version, compatibility checks, SDK spikes, generated bindings, build
  scripts: platform calls and generated code.

`PROJECT.json` lists each with its reason.
