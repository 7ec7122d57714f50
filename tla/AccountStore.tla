---------------------------- MODULE AccountStore ----------------------------
(***************************************************************************)
(* Which account the user interface shows, against which account the       *)
(* backend signs with: the wallet store (frontend/src/stores/wallet.ts),   *)
(* the request epoch (lib/requestEpoch.ts), the shell's coalesced refresh  *)
(* (components/AppShell.vue) and one store it loads (stores/balances.ts),  *)
(* with WalletService behind an asynchronous binding.                      *)
(*                                                                         *)
(* A wallet is the number of the unlock that opened it, 0 when locked.     *)
(* Unlock, Lock and SelectAccount run one after the other (selMu) in the   *)
(* order of the calls; a load runs, and is answered, at any time.          *)
(*                                                                         *)
(* walletSession and the epoch are only compared with a copy that a call   *)
(* took, so the model marks the calls whose copy is out of date.           *)
(***************************************************************************)
EXTENDS Integers, Sequences

CONSTANTS
  Indexes, Nothing,
  MaxSelects, MaxSessions,   \* bounds
  PicksActive,               \* whether the user also picks the account that is shown
  SelectFails,               \* whether a selection may fail
  LoadFails,                 \* whether a load may fail
  AnswersOvertake            \* whether answers of one session may change order

IndexesAssumption == Indexes \subseteq Nat /\ 0 \in Indexes /\ Nothing \notin Indexes
BoundsAssumption == MaxSelects \in Nat /\ MaxSessions \in Nat \ {0}
FlagsAssumption == {PicksActive, SelectFails, LoadFails, AnswersOvertake} \subseteq BOOLEAN

VARIABLES
  wallet, index,          \* WalletService: the unlocked wallet, its account
  unlocks,                \* unlocks so far
  locked, activeIndex,    \* the wallet store
  selecting, queued,      \* the selection under way and queuedIndex
  shell,                  \* the mounted AppShell, or 0
  calls, replies,         \* session calls and their answers, in order
  loads, trailing,        \* load 0 is a page's, load s the refresh of shell s
  shown,                  \* whose balances are on the screen
  selects, wanted         \* selections so far, and the last one asked for

backend == <<wallet, index, unlocks>>
store == <<locked, activeIndex, selecting, queued, shell>>
data == <<loads, trailing, shown>>
vars == <<backend, store, calls, replies, data, selects, wanted>>

Wallets == 1..MaxSessions
Loads == 0..MaxSessions
Blank == <<0, 0>>
Off == [pc |-> "idle", current |-> FALSE, of |-> Blank]
Ended(r) == [r EXCEPT !.pc = "idle", !.of = Blank]
Called == [pc |-> "called", current |-> TRUE, of |-> Blank]

Init ==
  /\ wallet = 0 /\ index = 0 /\ unlocks = 0
  /\ locked = TRUE /\ activeIndex = 0
  /\ selecting = Nothing /\ queued = Nothing /\ shell = 0
  /\ calls = <<>> /\ replies = <<>>
  /\ loads = [l \in Loads |-> Off]
  /\ trailing = [l \in Loads |-> FALSE]
  /\ shown = Blank
  /\ selects = 0 /\ wanted = 0

Call(op, i) == calls' = Append(calls, [op |-> op, index |-> i])
Reply(op, i) == replies' = Append(replies, [op |-> op, index |-> i])
Arrives(r) ==
  \E k \in DOMAIN replies :
    /\ replies[k] = r
    /\ k = 1 \/ (AnswersOvertake /\ \A m \in 1..k : replies[m].op # "unlocked")
    /\ replies' = SubSeq(replies, 1, k - 1) \o SubSeq(replies, k + 1, Len(replies))

-----------------------------------------------------------------------------
(* WalletService.                                                          *)

Runs(op) == calls # <<>> /\ Head(calls).op = op /\ calls' = Tail(calls)

Unlock ==
  /\ Runs("unlock")
  /\ unlocks' = unlocks + 1 /\ wallet' = unlocks' /\ index' = 0
  /\ Reply("unlocked", 0)
  /\ UNCHANGED <<store, data, selects, wanted>>

\* CurrentAccounts, asked for by the store's unlock.
CurrentAccounts ==
  /\ Runs("accounts") /\ Reply("accounts", 0)
  /\ UNCHANGED <<backend, store, data, selects, wanted>>

\* The event is emitted before the call is answered.
Lock ==
  /\ Runs("lock")
  /\ wallet' = 0
  /\ replies' = replies \o <<[op |-> "locked", index |-> 0], [op |-> "lockDone", index |-> 0]>>
  /\ UNCHANGED <<index, unlocks, store, data, selects, wanted>>

AutoLock ==
  /\ wallet # 0 /\ wallet' = 0
  /\ Reply("locked", 0)
  /\ UNCHANGED <<index, unlocks, store, calls, data, selects, wanted>>

\* A failure, of the settings' write for one, leaves the signer unchanged.
SelectAccount ==
  /\ Runs("select")
  /\ \/ wallet # 0 /\ index' = Head(calls).index /\ Reply("selected", index')
     \/ (wallet = 0 \/ SelectFails) /\ Reply("selectFailed", 0) /\ UNCHANGED index
  /\ UNCHANGED <<wallet, unlocks, store, data, selects, wanted>>

\* A read of the account that is active when it runs.
LoadRuns(l) ==
  /\ loads[l].pc = "called"
  /\ \E of \in (IF wallet = 0 THEN {} ELSE {<<wallet, index>>})
               \cup (IF wallet = 0 \/ LoadFails THEN {Blank} ELSE {}) :
       loads' = [loads EXCEPT ![l].pc = "ran", ![l].of = of]
  /\ UNCHANGED <<backend, store, calls, replies, trailing, shown, selects, wanted>>

-----------------------------------------------------------------------------
(* The refresh: what overlaps the running one becomes one trailing run.    *)

Bump == [l \in Loads |-> [loads[l] EXCEPT !.current = FALSE]]

Refresh(s, now) ==
  IF now[s].pc # "idle"
  THEN trailing' = [trailing EXCEPT ![s] = TRUE] /\ loads' = now
  ELSE loads' = [now EXCEPT ![s] = Called] /\ UNCHANGED trailing

Tick ==
  /\ shell # 0
  /\ Refresh(shell, loads)
  /\ UNCHANGED <<backend, store, calls, replies, shown, selects, wanted>>

PageLoad ==
  /\ shell # 0 /\ loads[0].pc = "idle"
  /\ loads' = [loads EXCEPT ![0] = Called]
  /\ UNCHANGED <<backend, store, calls, replies, trailing, shown, selects, wanted>>

\* Mutant: no trailing run.
EndLoadOnly(l) ==
  /\ loads' = [loads EXCEPT ![l] = Ended(@)]
  /\ trailing' = [trailing EXCEPT ![l] = FALSE]

EndLoad(l) ==
  IF l # 0 /\ trailing[l]
  THEN trailing' = [trailing EXCEPT ![l] = FALSE] /\ loads' = [loads EXCEPT ![l] = Called]
  ELSE loads' = [loads EXCEPT ![l] = Ended(@)] /\ UNCHANGED trailing

\* Mutant: an answer is shown whenever it comes.
LoadedAlways(l) ==
  /\ loads[l].pc = "ran"
  /\ shown' = loads[l].of
  /\ EndLoad(l)
  /\ UNCHANGED <<backend, store, calls, replies, selects, wanted>>

\* An answer of an older epoch is discarded.
Loaded(l) ==
  /\ loads[l].pc = "ran"
  /\ shown' = IF loads[l].current THEN loads[l].of ELSE shown
  /\ EndLoad(l)
  /\ UNCHANGED <<backend, store, calls, replies, selects, wanted>>

-----------------------------------------------------------------------------
(* The wallet store.                                                       *)

UserUnlocks ==
  /\ locked /\ unlocks < MaxSessions
  /\ \A k \in DOMAIN calls : calls[k].op \notin {"unlock", "accounts"}
  /\ \A k \in DOMAIN replies : replies[k].op \notin {"unlocked", "accounts", "lockDone"}
  /\ Call("unlock", 0)
  /\ UNCHANGED <<backend, store, replies, data, selects, wanted>>

NewSession ==
  /\ selecting' = IF selecting = Nothing THEN Nothing ELSE [selecting EXCEPT !.ours = FALSE]
  /\ queued' = Nothing /\ loads' = Bump

Unlocked ==
  /\ Arrives([op |-> "unlocked", index |-> 0])
  /\ NewSession /\ locked' = FALSE
  /\ Call("accounts", 0)
  /\ UNCHANGED <<backend, activeIndex, shell, trailing, shown, selects, wanted>>

\* unlock ends, and its page opens the shell unless the wallet was locked.
AccountsLoaded ==
  /\ Arrives([op |-> "accounts", index |-> 0])
  /\ activeIndex' = 0 /\ wanted' = 0
  /\ IF locked THEN UNCHANGED <<shell, loads, trailing>>
     ELSE shell' = unlocks /\ Refresh(unlocks, loads)
  /\ UNCHANGED <<backend, locked, selecting, queued, calls, shown, selects>>

UserLocks ==
  /\ shell # 0 /\ \A k \in DOMAIN calls : calls[k].op # "lock"
  /\ \A k \in DOMAIN replies : replies[k].op # "lockDone"
  /\ Call("lock", 0)
  /\ UNCHANGED <<backend, store, replies, data, selects, wanted>>

ApplyLocked ==
  /\ NewSession
  /\ locked' = TRUE /\ activeIndex' = 0 /\ shell' = 0
  /\ UNCHANGED <<trailing, shown>>

\* The event of a lock, when the store is already locked, does nothing.
LockedEvent ==
  /\ Arrives([op |-> "locked", index |-> 0])
  /\ IF locked THEN UNCHANGED <<store, data>> ELSE ApplyLocked
  /\ UNCHANGED <<backend, calls, selects, wanted>>

LockDone ==
  /\ Arrives([op |-> "lockDone", index |-> 0])
  /\ ApplyLocked
  /\ UNCHANGED <<backend, calls, selects, wanted>>

SelectCall(i) == selecting' = [index |-> i, ours |-> TRUE] /\ Call("select", i)

\* Mutant: overlapping selections are not queued.
SelectEager(i) ==
  /\ shell # 0 /\ selects < MaxSelects /\ (PicksActive \/ i # wanted)
  /\ selects' = selects + 1 /\ wanted' = i
  /\ SelectCall(i)
  /\ UNCHANGED <<backend, locked, activeIndex, queued, shell, replies, data>>

Select(i) ==
  /\ shell # 0 /\ selects < MaxSelects /\ (PicksActive \/ i # wanted)
  /\ selects' = selects + 1 /\ wanted' = i
  /\ IF selecting # Nothing
     THEN queued' = i /\ UNCHANGED <<selecting, calls>>
     ELSE SelectCall(i) /\ UNCHANGED queued
  /\ UNCHANGED <<backend, locked, activeIndex, shell, replies, data>>

ShowSelected(i) ==
  /\ activeIndex' = i
  /\ IF i # activeIndex /\ shell # 0 THEN Refresh(shell, Bump) ELSE loads' = Bump /\ UNCHANGED trailing

\* Mutant: the selection that ends forgets the queued one.
SelectedOnce(i) ==
  /\ Arrives([op |-> "selected", index |-> i])
  /\ ShowSelected(i)
  /\ selecting' = Nothing /\ queued' = Nothing
  /\ UNCHANGED <<backend, locked, shell, calls, shown, selects, wanted>>

\* An answer of this session is shown and the queued selection follows; the
\* shell watches the index and refreshes.
Selected(i) ==
  /\ Arrives([op |-> "selected", index |-> i])
  /\ queued' = Nothing
  /\ \/ /\ selecting.ours
        /\ ShowSelected(i)
        /\ IF queued = Nothing THEN selecting' = Nothing /\ UNCHANGED calls ELSE SelectCall(queued)
     \/ ~selecting.ours /\ selecting' = Nothing /\ UNCHANGED <<activeIndex, calls, loads, trailing>>
  /\ UNCHANGED <<backend, locked, shell, shown, selects, wanted>>

\* Mutant: the account that was asked for is shown, selected or not.
SelectAssumed ==
  /\ Arrives([op |-> "selectFailed", index |-> 0])
  /\ activeIndex' = selecting.index
  /\ selecting' = Nothing /\ queued' = Nothing
  /\ UNCHANGED <<backend, locked, shell, calls, data, selects, wanted>>

\* A failed selection drops the queued one; it is still wanted, unless the
\* failed one was the last that was asked for.
SelectFailed ==
  /\ Arrives([op |-> "selectFailed", index |-> 0])
  /\ selecting' = Nothing /\ queued' = Nothing
  /\ wanted' = IF queued = Nothing THEN activeIndex ELSE wanted
  /\ UNCHANGED <<backend, locked, activeIndex, shell, calls, data, selects>>

-----------------------------------------------------------------------------
Store ==
  \/ Unlocked \/ AccountsLoaded \/ LockedEvent \/ LockDone \/ SelectFailed
  \/ \E i \in Indexes : Selected(i)

Backend == Unlock \/ CurrentAccounts \/ Lock \/ SelectAccount

Next ==
  \/ Store \/ Backend \/ AutoLock
  \/ UserUnlocks \/ UserLocks \/ (\E i \in Indexes : Select(i))
  \/ Tick \/ PageLoad \/ (\E l \in Loads : LoadRuns(l) \/ Loaded(l))

Spec == Init /\ [][Next]_vars

(* Calls run and are answered.  The ticks of a connected node would reload *)
(* what a refresh missed: nothing is assumed of them.                      *)
FairSpec ==
  /\ Spec
  /\ WF_vars(Backend) /\ WF_vars(Store)
  /\ \A l \in Loads : WF_vars(LoadRuns(l)) /\ WF_vars(Loaded(l))

-----------------------------------------------------------------------------
(* Properties.                                                             *)

Accounts == {Blank} \cup (Wallets \X Indexes)

\* Every field keeps its type; at most one selection is under way, so the
\* backend's order is the user's (select).
TypeOK ==
  /\ wallet \in 0..MaxSessions /\ index \in Indexes /\ unlocks \in 0..MaxSessions
  /\ locked \in BOOLEAN /\ activeIndex \in Indexes
  /\ queued \in Indexes \cup {Nothing} /\ shell \in 0..MaxSessions
  /\ selecting # Nothing => selecting \in [index : Indexes, ours : BOOLEAN]
  /\ loads \in [Loads -> [pc : {"idle", "called", "ran"}, current : BOOLEAN, of : Accounts]]
  /\ trailing \in [Loads -> BOOLEAN] /\ shown \in Accounts /\ wanted \in Indexes
  /\ \A k, m \in DOMAIN calls : calls[k].op = "select" /\ calls[m].op = "select" => k = m

Settled == calls = <<>> /\ replies = <<>>

\* When every call is answered, the store is locked with the backend, and
\* shows the account that signs (select: the backend returns the
\* authoritative selection; render that).
ShowsTheSigner == Settled => (locked <=> wallet = 0) /\ (shell # 0 => activeIndex = index)

\* When every call is answered, the last account the user asked for is the
\* one that is shown, unless selecting that one failed (select: last intent
\* wins).
LastIntentWins == Settled /\ shell # 0 => activeIndex = wanted

Quiet == Settled /\ shell # 0 /\ \A l \in Loads : loads[l].pc = "idle"

\* When nothing is under way, what is on the screen is of the account that is
\* shown (requestEpoch.ts: the epoch is bumped on every account switch).
DataOfActive == Quiet => shown \in {Blank, <<wallet, activeIndex>>}

\* The same wherever no epoch began since the shell last asked for the data: a
\* selection of the account that is shown already begins one and asks for
\* nothing, so what was loading is discarded until the next tick (select).
RefreshedIsOwn == Quiet /\ loads[shell].current => shown \in {Blank, <<wallet, activeIndex>>}

\* No answer puts another account's data on the screen: neither one that was
\* left, nor one of an earlier wallet (requestEpoch.ts).
NoOldDataStep == shown' # shown => shown' \in {Blank, <<unlocks, index>>, <<unlocks, activeIndex>>}
NoOldData == [][NoOldDataStep]_vars

\* The data of the account that is shown lands, however the refreshes and the
\* selections overlap (AppShell.refresh: the trailing run guarantees an
\* account switch mid-refresh still lands its data), unless an epoch began
\* since the shell last asked for it: that waits for the next tick (select).
SwitchLands ==
  []<>(\/ shell = 0 \/ ~Settled \/ shown = <<wallet, activeIndex>>
       \/ loads[shell].pc = "idle" /\ ~loads[shell].current)
=============================================================================
