----------------------------- MODULE AutoReceive -----------------------------
(***************************************************************************)
(* Auto-receive: the subscription and sweep loop of app/node_service.go    *)
(* and the store that points it at the active account                      *)
(* (frontend/src/stores/autoReceive.ts, driven by AppShell.vue).           *)
(*                                                                         *)
(* Every StartAutoReceive that claims the slot is a loop, from the claim   *)
(* of autoStop to the end of its goroutine; it goes on while a later one   *)
(* starts.  A store action is a task that suspends at each await.  The     *)
(* node's queue of unreceived blocks is external: it accepts a receive     *)
(* only from the block's recipient, and only once.                         *)
(***************************************************************************)
EXTENDS Integers, FiniteSets

CONSTANTS
  Wallets, NoWallet, Indexes,       \* index 0 is active after an unlock
  Blocks,
  Tasks,                            \* store actions in progress
  MaxStale,                         \* rounds without progress before a sweep ends
  MaxStarts, MaxClicks, MaxLocks, MaxDrops, MaxFailures     \* bounds

ReceiveAssumption ==
  /\ NoWallet \notin Wallets /\ 0 \in Indexes /\ Indexes \subseteq Nat
  /\ {MaxStale, MaxStarts, MaxClicks, MaxLocks, MaxDrops, MaxFailures} \subseteq Nat

VARIABLES
  session,      \* the unlocked wallet and its active account
  conn,         \* generation of the connection, 0: none
  pending,      \* the node's unreceived blocks, each with its recipient
  autoStop,     \* the loop that owns the slot, 0: none
  loop,
  receiving,    \* the last auto-receive:active event
  store,        \* enabled, and the account index the backend was pointed at
  saved,        \* the AutoReceive setting on disk
  task,
  used,         \* starts, clicks, locks, drops and failures so far
  upset         \* record of the model: what came between, since the last toggle on its own

backend == <<autoStop, loop, receiving>>
world == <<session, conn, pending>>
frontend == <<store, saved, task>>
vars == <<world, backend, frontend, used, upset>>

Loops == 1..MaxStarts
Accounts == Wallets \X Indexes
Locked == [wallet |-> NoWallet, index |-> 0]
Unlocked == session.wallet # NoWallet
Active == <<session.wallet, session.index>>

NoLoop == [pc |-> "none", conn |-> 0, account |-> <<NoWallet, 0>>, stopped |-> FALSE,
           signal |-> FALSE, todo |-> {}, before |-> 0, stale |-> 0, gaveUp |-> "no"]
Idle == [kind |-> "idle", pc |-> "idle", index |-> 0, loop |-> 0, arg |-> FALSE]

Init ==
  /\ session = Locked /\ conn = 1 /\ pending = {}
  /\ autoStop = 0 /\ loop = [l \in Loops |-> NoLoop] /\ receiving = FALSE
  /\ store = [enabled |-> FALSE, account |-> -1] /\ saved = FALSE
  /\ task = [t \in Tasks |-> Idle]
  /\ used = [starts |-> 0, clicks |-> 0, locks |-> 0, drops |-> 0, failures |-> 0]
  /\ upset = {}

Spend(what, max) == used[what] < max /\ used' = [used EXCEPT ![what] = @ + 1]

Alive(l) == loop[l].pc # "none"
Subscribed(l) == loop[l].pc \in {"sweep", "pass", "wait", "select"}
Sweeping(l) == loop[l].pc \in {"pass", "wait"}

-----------------------------------------------------------------------------
(* The node: blocks arrive, connections come and go.                       *)

Queue(a) == {p \in pending : p[2] = a}

Arrive(b, a) ==
  /\ \A p \in pending : p[1] # b
  /\ Spend("clicks", MaxClicks)
  /\ pending' = pending \cup {<<b, a>>}
  /\ loop' = [l \in Loops |->
       IF Subscribed(l) /\ loop[l].account = a /\ loop[l].conn = conn
       THEN [loop[l] EXCEPT !.signal = TRUE] ELSE loop[l]]
  /\ UNCHANGED <<session, conn, autoStop, receiving, frontend, upset>>

CloseStop(loops) ==
  IF autoStop = 0 THEN loops ELSE [loops EXCEPT ![autoStop].stopped = TRUE]

\* disconnectLocked.
Disconnect ==
  /\ conn # 0 /\ Spend("drops", MaxDrops)
  /\ conn' = 0
  /\ loop' = CloseStop(loop) /\ autoStop' = 0
  /\ upset' = upset \cup {"drop"}
  /\ UNCHANGED <<session, pending, receiving, frontend>>

Connect ==
  /\ conn = 0 /\ conn' = used.drops + 1
  /\ UNCHANGED <<session, pending, backend, frontend, used, upset>>

-----------------------------------------------------------------------------
(* StartAutoReceive, on behalf of a store task.                            *)

Set(l, pc) == [loop EXCEPT ![l].pc = pc]
Return(t) == task' = [task EXCEPT ![t] = Idle]

\* An owned slot means "already running", which is a success.
ClaimSlot(t) ==
  /\ task[t].pc = "start"
  /\ IF autoStop # 0
     THEN /\ store' = [store EXCEPT !.account = task[t].index]
          /\ Return(t) /\ UNCHANGED <<autoStop, loop, used>>
     ELSE \E l \in Loops :
            /\ l = used.starts + 1 /\ Spend("starts", MaxStarts)
            /\ autoStop' = l
            /\ loop' = Set(l, "claimed")
            /\ task' = [task EXCEPT ![t].pc = "starting", ![t].loop = l]
            /\ UNCHANGED store
  /\ UNCHANGED <<world, receiving, saved>>

\* Whoever owns the slot now loses it.
ReleaseAnySlot(l) == autoStop' = 0

ReleaseSlot(l) == autoStop' = IF autoStop = l THEN 0 ELSE autoStop

\* The loop record of a failed start stays.
StartForgets(t, l) ==
  /\ ReleaseSlot(l)
  /\ Return(t)
  /\ UNCHANGED <<world, loop, receiving, store, saved, used>>

StartFails(t, l) ==
  /\ ReleaseSlot(l)
  /\ loop' = [loop EXCEPT ![l] = NoLoop]
  /\ Return(t)
  /\ UNCHANGED <<world, receiving, store, saved, used>>

Starting(t, l, pc) == task[t].pc = "starting" /\ task[t].loop = l /\ loop[l].pc = pc

SnapshotClient(t, l) ==
  /\ Starting(t, l, "claimed")
  /\ \/ conn = 0 /\ StartFails(t, l)
     \/ /\ conn # 0
        /\ loop' = [loop EXCEPT ![l].pc = "client", ![l].conn = conn]
        /\ UNCHANGED <<world, autoStop, receiving, frontend, used>>

SnapshotAddress(t, l) ==
  /\ Starting(t, l, "client")
  /\ \/ ~Unlocked /\ StartFails(t, l)
     \/ /\ Unlocked
        /\ loop' = [loop EXCEPT ![l].pc = "address", ![l].account = Active]
        /\ UNCHANGED <<world, autoStop, receiving, frontend, used>>

\* The snapshotted client may have been stopped since.
Subscribe(t, l) ==
  /\ Starting(t, l, "address")
  /\ \/ loop[l].conn # conn /\ StartFails(t, l)
     \/ /\ loop[l].conn = conn
        /\ loop' = Set(l, "sweep")
        /\ store' = [store EXCEPT !.account = task[t].index]
        /\ Return(t)
        /\ UNCHANGED <<world, autoStop, receiving, saved, used>>

StopAutoReceive == loop' = CloseStop(loop) /\ autoStop' = 0

-----------------------------------------------------------------------------
(* The loop's goroutine.                                                   *)

Fetched(l) == Queue(loop[l].account)

\* GetUnreceivedBlocksByAddress answers on a connection that is alive.
Answered(l) == loop[l].conn = conn /\ UNCHANGED used

\* It fails with the connection, or on its own.
FetchFails(l) ==
  \/ loop[l].conn # conn /\ UNCHANGED used
  \/ loop[l].conn = conn /\ Spend("failures", MaxFailures)

SweepBegins(l) ==
  /\ loop[l].pc = "sweep"
  /\ \/ /\ FetchFails(l)
        /\ loop' = [loop EXCEPT ![l].pc = "select", ![l].gaveUp = "failed"]
        /\ UNCHANGED receiving
     \/ /\ Answered(l) /\ Fetched(l) = {}
        /\ loop' = [loop EXCEPT ![l].pc = "select", ![l].gaveUp = "no"]
        /\ UNCHANGED receiving
     \/ /\ Answered(l) /\ Fetched(l) # {}
        /\ loop' = [loop EXCEPT ![l].pc = "pass", ![l].todo = Fetched(l), ![l].gaveUp = "no",
                               ![l].before = Cardinality(Fetched(l)), ![l].stale = 0]
        /\ receiving' = TRUE
  /\ UNCHANGED <<world, autoStop, frontend>>

\* why: "no" when it is done or stopped, "failed" or "stalled" when it gives up.
SweepEnds(l, why) ==
  /\ loop' = [loop EXCEPT ![l].pc = "select", ![l].todo = {}, ![l].gaveUp = why]
  /\ receiving' = FALSE
  /\ UNCHANGED <<world, autoStop, frontend>>

\* The stop is seen before each receive and during the wait.
SweepStops(l) == Sweeping(l) /\ loop[l].stopped /\ SweepEnds(l, "no") /\ UNCHANGED used

\* TxService.Receive signs with the account that is active now.
ReceiveBlock(l, p) ==
  /\ loop[l].pc = "pass" /\ ~loop[l].stopped /\ p \in loop[l].todo
  /\ loop' = [loop EXCEPT ![l].todo = @ \ {p}]
  /\ \/ /\ Unlocked /\ p \in pending /\ p[2] = Active
        /\ pending' = pending \ {p} /\ UNCHANGED used
     \/ /\ ~Unlocked \/ p \notin pending \/ p[2] # Active
        /\ UNCHANGED <<pending, used>>
     \/ Spend("failures", MaxFailures) /\ UNCHANGED pending
  /\ UNCHANGED <<session, conn, autoStop, receiving, frontend>>

PassEnds(l) ==
  /\ loop[l].pc = "pass" /\ ~loop[l].stopped /\ loop[l].todo = {}
  /\ loop' = Set(l, "wait")
  /\ UNCHANGED <<world, autoStop, receiving, frontend, used>>

\* A sweep is one pass over the list.
RefetchOnce(l) ==
  loop[l].pc = "wait" /\ ~loop[l].stopped /\ SweepEnds(l, "no") /\ UNCHANGED used

\* The round ends, with progress or without it; a third one without it is
\* the last, and so is one whose fetch fails.
Refetch(l) ==
  /\ loop[l].pc = "wait" /\ ~loop[l].stopped
  /\ LET next == Fetched(l)
         stale == IF Cardinality(next) >= loop[l].before THEN loop[l].stale + 1 ELSE 0 IN
       \/ FetchFails(l) /\ SweepEnds(l, "failed")
       \/ Answered(l) /\ next = {} /\ SweepEnds(l, "no")
       \/ Answered(l) /\ next # {} /\ stale = MaxStale /\ SweepEnds(l, "stalled")
       \/ /\ Answered(l) /\ next # {} /\ stale # MaxStale
          /\ loop' = [loop EXCEPT ![l].pc = "pass", ![l].todo = next,
                                 ![l].before = Cardinality(next), ![l].stale = stale]
          /\ UNCHANGED <<world, autoStop, receiving, frontend>>

NextSignal(l) ==
  /\ loop[l].pc = "select" /\ loop[l].signal
  /\ loop' = [loop EXCEPT ![l].pc = "sweep", ![l].signal = FALSE]
  /\ UNCHANGED <<world, autoStop, receiving, frontend, used>>

\* Stopped, or the channel of a dead connection is closed.
LoopExits(l) ==
  /\ loop[l].pc = "select" /\ (loop[l].stopped \/ loop[l].conn # conn)
  /\ ReleaseSlot(l)
  /\ loop' = [loop EXCEPT ![l] = NoLoop]
  /\ UNCHANGED <<world, receiving, frontend, used>>

-----------------------------------------------------------------------------
(* The store.  A task is created by the user's click or by AppShell.       *)

Quiet == \A t \in Tasks : task[t] = Idle

\* An action created while another is in progress.
Overlap == IF Quiet THEN {} ELSE {"overlap"}

Create(t, kind, pc, i) ==
  /\ task[t] = Idle
  /\ task' = [task EXCEPT ![t] = [Idle EXCEPT !.kind = kind, !.pc = pc, !.index = i]]

\* The backend has switched; AppShell's watcher calls followAccount.
SwitchAccount(t, i) ==
  /\ Unlocked /\ i # session.index /\ Spend("clicks", MaxClicks)
  /\ session' = [session EXCEPT !.index = i]
  /\ Create(t, "follow", "follow", i)
  /\ upset' = upset \cup Overlap
  /\ UNCHANGED <<conn, pending, backend, store, saved>>

\* The loop that runs receives for a wallet that is not w.
ForAnother(w) == autoStop # 0 /\ loop[autoStop].account[1] # w

\* AppShell is mounted and calls init.
Unlock(t, w) ==
  /\ ~Unlocked
  /\ session' = [wallet |-> w, index |-> 0]
  /\ Create(t, "init", "init", 0)
  /\ upset' = upset \cup Overlap \cup (IF ForAnother(w) THEN {"wallet"} ELSE {})
  /\ UNCHANGED <<conn, pending, backend, store, saved, used>>

Lock ==
  /\ Unlocked /\ Spend("locks", MaxLocks)
  /\ session' = Locked
  /\ upset' = upset \cup (IF Quiet THEN {} ELSE {"lock"})
  /\ UNCHANGED <<conn, pending, backend, frontend>>

\* A toggle on its own sets everything right, if there is a connection.
Upset == CASE ~Quiet -> upset \cup {"overlap"}
           [] Quiet /\ conn = 0 -> {"drop"}
           [] OTHER -> {}

\* toggle flips the flag and awaits the write of the setting.
Toggle(t) ==
  /\ Unlocked /\ Spend("clicks", MaxClicks)
  /\ task[t] = Idle
  /\ store' = [store EXCEPT !.enabled = ~@]
  /\ task' = [task EXCEPT ![t] = [kind |-> "toggle", pc |-> "save", index |-> session.index,
                                  loop |-> 0, arg |-> ~store.enabled]]
  /\ upset' = Upset
  /\ UNCHANGED <<world, backend, saved>>

SaveToggle(t) ==
  /\ task[t].pc = "save"
  /\ saved' = task[t].arg
  /\ task' = [task EXCEPT ![t].pc = "toggled"]
  /\ UNCHANGED <<world, backend, store, used>>

\* The flag is read again after the await.
Toggled(t) ==
  /\ task[t].pc = "toggled"
  /\ task' = [task EXCEPT ![t].pc = IF store.enabled THEN "restop" ELSE "stop"]
  /\ UNCHANGED <<world, backend, store, saved, used>>

\* Every switch of account is taken for one that is already followed.
FollowFirst(t) ==
  /\ task[t].pc = "follow"
  /\ IF store.enabled /\ store.account = -1
     THEN task' = [task EXCEPT ![t].pc = "restop"]
     ELSE Return(t)
  /\ UNCHANGED <<world, backend, store, saved, used>>

FollowAccount(t) ==
  /\ task[t].pc = "follow"
  /\ IF store.enabled /\ task[t].index # store.account
     THEN task' = [task EXCEPT ![t].pc = "restop"]
     ELSE Return(t)
  /\ UNCHANGED <<world, backend, store, saved, used>>

InitStore(t) ==
  /\ task[t].pc = "init"
  /\ store' = [store EXCEPT !.enabled = saved]
  /\ IF saved /\ task[t].index # store.account
     THEN task' = [task EXCEPT ![t].pc = "restop"]
     ELSE Return(t)
  /\ UNCHANGED <<world, backend, saved, used>>

\* start always stops first.
StopBeforeStart(t) ==
  /\ task[t].pc = "restop"
  /\ StopAutoReceive
  /\ task' = [task EXCEPT ![t].pc = "start"]
  /\ UNCHANGED <<world, receiving, store, saved, used>>

\* The store forgets the account but the backend runs on.
StopStoreOnly(t) ==
  /\ task[t].pc = "stop"
  /\ store' = [store EXCEPT !.account = -1]
  /\ Return(t)
  /\ UNCHANGED <<world, backend, saved, used>>

Stop(t) ==
  /\ task[t].pc = "stop"
  /\ StopAutoReceive
  /\ store' = [store EXCEPT !.account = -1]
  /\ Return(t)
  /\ UNCHANGED <<world, receiving, saved, used>>

-----------------------------------------------------------------------------
User(t) ==
  \/ \E i \in Indexes : SwitchAccount(t, i)
  \/ \E w \in Wallets : Unlock(t, w)
  \/ Toggle(t)

TaskStep(t) ==
  /\ UNCHANGED upset
  /\ \/ SaveToggle(t) \/ Toggled(t) \/ FollowAccount(t) \/ InitStore(t)
     \/ StopBeforeStart(t) \/ Stop(t) \/ ClaimSlot(t)
     \/ \E l \in Loops : SnapshotClient(t, l) \/ SnapshotAddress(t, l) \/ Subscribe(t, l)

LoopStep(l) ==
  /\ UNCHANGED upset
  /\ \/ SweepBegins(l) \/ SweepStops(l) \/ PassEnds(l) \/ Refetch(l)
     \/ \E p \in Blocks \X Accounts : ReceiveBlock(l, p)
     \/ NextSignal(l) \/ LoopExits(l)

Next ==
  \/ \E t \in Tasks : User(t) \/ TaskStep(t)
  \/ \E l \in Loops : LoopStep(l)
  \/ Lock \/ Disconnect \/ Connect
  \/ \E b \in Blocks, a \in Accounts : Arrive(b, a)

Spec == Init /\ [][Next]_vars

(* Store actions and goroutines that can go on do; a receive that is tried *)
(* again and again is not refused for ever (MaxFailures).                  *)
FairSpec ==
  /\ Spec
  /\ \A t \in Tasks : WF_vars(TaskStep(t))
  /\ \A l \in Loops : WF_vars(LoopStep(l))

-----------------------------------------------------------------------------
(* Properties.                                                             *)

\* Every field keeps its type, and a start in progress belongs to one task.
TypeOK ==
  /\ session \in [wallet : Wallets \cup {NoWallet}, index : Indexes]
  /\ conn \in 0..(MaxDrops + 1) /\ autoStop \in 0..MaxStarts
  /\ pending \subseteq Blocks \X Accounts
  /\ loop \in [Loops -> [pc : {"none", "claimed", "client", "address", "sweep", "pass", "wait",
                               "select"},
                         conn : 0..(MaxDrops + 1), account : Accounts \cup {<<NoWallet, 0>>},
                         stopped : BOOLEAN, signal : BOOLEAN,
                         todo : SUBSET (Blocks \X Accounts),
                         before : 0..Cardinality(Blocks), stale : 0..MaxStale,
                         gaveUp : {"no", "failed", "stalled"}]]
  /\ receiving \in BOOLEAN /\ saved \in BOOLEAN
  /\ store \in [enabled : BOOLEAN, account : Indexes \cup {-1}]
  /\ upset \subseteq {"overlap", "lock", "drop", "wallet"}
  /\ \A l \in Loops : loop[l].pc \in {"claimed", "client", "address"} =>
       \E t \in Tasks : task[t].pc = "starting" /\ task[t].loop = l

\* The slot is held by exactly the loop that still runs, whichever starts,
\* stops, failures and exits overlapped (releaseSlot: never a phantom
\* "running" state, never another one's slot).
SlotOwned == \A l \in Loops : (Alive(l) /\ ~loop[l].stopped) <=> autoStop = l

\* Whatever happened before: after a toggle on its own, and until a store action
\* begins while another is in progress, auto-receive is off once the store is
\* quiet and the toggle says so (toggle, start and stop of autoReceive.ts).
OffMeansOff == Quiet /\ "overlap" \notin upset /\ ~store.enabled => autoStop = 0

\* Whatever happened before: after a toggle on its own with a connection, and
\* until one of these happens, auto-receive that is on receives for the active
\* account once the store is quiet: an action that begins, or a lock, while one
\* is in progress; a lost connection; an unlock of another wallet than the one
\* that is received for (followAccount, init).
FollowsActive ==
  Quiet /\ upset = {} /\ store.enabled /\ Unlocked =>
    autoStop # 0 /\ loop[autoStop].account = Active

\* The sweep of the loop that runs gave up, and no new block woke it since.
GaveUp(whys) == autoStop # 0 /\ loop[autoStop].gaveUp \in whys

Left(p) == p \in pending /\ upset = {} /\ store.enabled /\ Unlocked /\ p[2] = Active

\* With auto-receive on for the active account (FollowsActive), a block does not
\* stay in the account's queue unless the last sweep gave up: after MaxStale
\* rounds without progress, or because the queue could not be read
\* (sweepUnreceived).
QueueDrains == \A p \in Blocks \X Accounts : []<>~(Left(p) /\ ~GaveUp({"failed", "stalled"}))

\* As the comment has it: it stays only if the sweep stalled
\* (sweepUnreceived: retrying until the queue drains or stalls).
DrainsOrStalls == \A p \in Blocks \X Accounts : []<>~(Left(p) /\ ~GaveUp({"stalled"}))

\* As the design has it: once the store is quiet, auto-receive that is off does
\* not receive (2026-06-20-phase-2-send-receive-design.md:62).
OffUnsubscribes == Quiet /\ ~store.enabled => autoStop = 0

\* As the design has it: auto-receive that is on receives for the active account.
OnReceives == Quiet /\ store.enabled /\ Unlocked /\ conn # 0 =>
                autoStop # 0 /\ loop[autoStop].account = Active

\* The last event says whether a sweep is at work (emitReceiving: notifies the
\* frontend that auto-receive is or is no longer actively receiving).
ReceivingShown == receiving <=> \E l \in Loops : Sweeping(l)
=============================================================================
