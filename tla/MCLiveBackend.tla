---------------------------- MODULE MCLiveBackend ----------------------------
(***************************************************************************)
(* What the backend owes, side by side: file updates that end, transitions *)
(* of the node, calls of the wallet and its auto-lock, a queue that        *)
(* drains, outcomes that resolve. part says which instance runs; fairness  *)
(* is that of the component's FairSpec, for the instance that runs.        *)
(* AtomicFile's own names are used directly, under power failures.         *)
(***************************************************************************)
EXTENDS AtomicFile, TLC

CONSTANTS None, NoAccount, NoEffect, NoRequest   \* comparable with every value

VARIABLES
  part,
  \* NodeConnection
  nodeSettings, mode, client, connGen, chainID, height, stop, syncStop, nodeLoop, poller,
  embedded, stopping, wedged, node, op, quit, transitions, shown,
  \* WalletSession
  session, gen, selMu, settings, autoLockMins, autoLockStop, idle, watchdog, kdf, call,
  calls, hold, revealed,
  \* AutoReceive
  receiver, conn, pending, autoStop, loop, receiving, store, saved, task, used, upset,
  \* TxService
  txSession, clearDue, txNode, txSettings, txPending, holdCounter, publishingHold, txCalls,
  publishMu, worker, journal, blocks, onChain, restarts, previews, cancelled, sent, acked, consent,
  \* AcceleratorVotes
  list, chain, votes, time, votesPc, index, out, items, todo, owed, opened

-----------------------------------------------------------------------------
(* A node of each mode, of which neither delivers a momentum.              *)

Connection == INSTANCE NodeConnection WITH settings <- nodeSettings, loop <- nodeLoop,
  Remotes <- {"ra"}, Local <- "local", NoEndpoint <- "none",
  Chain <- "ra" :> 3 @@ "local" :> 1, Top <- "ra" :> 0 @@ "local" :> 0,
  ModeCalls <- {"remote", "embedded"}, Urls <- {}, MaxTransitions <- 2

connectionVars ==
  <<nodeSettings, mode, client, connGen, chainID, height, stop, syncStop, nodeLoop, poller,
    embedded, stopping, wedged, node, op, quit, transitions, shown>>

ConnectionFairness ==
  /\ WF_connectionVars(part = "node" /\ ~Connection!Outside /\ Connection!Transition)
  /\ WF_connectionVars(part = "node" /\ Connection!StopTakesMutex)
  /\ WF_connectionVars(part = "node" /\ Connection!QuitAwaits)
  /\ WF_connectionVars(part = "node" /\ Connection!QuitDisconnects)

-----------------------------------------------------------------------------
(* One wallet, two callers, a disk that may fail.                          *)

Session == INSTANCE WalletSession WITH
  Wallets <- {"wa"}, Callers <- {"s1", "s2"}, NoWallet <- None, AccountRange <- 1,
  MaxAccounts <- 2, Presets <- {1}, DefaultMinutes <- 1, KdfMaxConcurrent <- 1,
  DiskMayFail <- TRUE, MaxCalls <- 2, MaxIdle <- 2

sessionVars ==
  <<session, gen, selMu, settings, autoLockMins, autoLockStop, idle, watchdog, kdf, call,
    calls, hold, revealed>>

SessionFairness ==
  /\ WF_sessionVars(part = "session" /\ Session!Holder)
  /\ WF_sessionVars(part = "session" /\ Session!Minute)

-----------------------------------------------------------------------------
(* Store actions one at a time, two blocks, receives and fetches that fail *)
(* until a sweep gives up.                                                 *)

Receive == INSTANCE AutoReceive WITH session <- receiver,
  Wallets <- {"wa"}, NoWallet <- "none", Indexes <- {0, 1}, Blocks <- {"b1", "b2"},
  Tasks <- {"t1"}, MaxStale <- 3, MaxStarts <- 3, MaxClicks <- 3, MaxLocks <- 0,
  MaxDrops <- 0, MaxFailures <- 4

receiveVars == <<receiver, conn, pending, autoStop, loop, receiving, store, saved, task, used, upset>>

ReceiveFairness ==
  /\ WF_receiveVars(part = "receive" /\ Receive!TaskStep("t1"))
  /\ \A l \in Receive!Loops : WF_receiveVars(part = "receive" /\ Receive!LoopStep(l))

-----------------------------------------------------------------------------
(* A WalletConnect request whose outcome is checked again and again, by a  *)
(* service that may restart once.                                          *)

Request == [topic |-> "topic", id |-> 1, from |-> "a1", effect |-> "e1"]

Tx == INSTANCE TxService WITH session <- txSession, node <- txNode, settings <- txSettings,
  pending <- txPending, calls <- txCalls,
  Accounts <- {"a1"}, Effects <- {"e1", "e2"}, Sends <- {}, TestnetOnly <- {},
  Requests <- {Request}, Callers <- {"c1"}, Networks <- {"mainnet"}, ChainIDs <- {"mainnet"},
  OptIns <- {TRUE}, OneAtATime <- TRUE, MaxRecords <- 1, MaxGen <- 1, MaxConn <- 1,
  MaxHolds <- 1, MaxBlocks <- 2, MaxRestarts <- 1

txVars ==
  <<txSession, clearDue, txNode, txSettings, txPending, holdCounter, publishingHold, txCalls,
    publishMu, worker, journal, blocks, onChain, restarts, previews, cancelled, sent, acked,
    consent>>

TxFairness ==
  /\ WF_txVars(part = "tx" /\ Tx!ConfirmStep)
  /\ WF_txVars(part = "tx" /\ Tx!ReceiveStep)
  /\ WF_txVars(part = "tx" /\ Tx!ReconcileStep)
  /\ WF_txVars(part = "tx" /\ Tx!InstallConnection("mainnet"))
  /\ SF_txVars(part = "tx" /\ Tx!Rebroadcast)
  /\ SF_txVars(part = "tx" /\ Tx!MarkReconciled)

-----------------------------------------------------------------------------
(* The rest of the strong fairness.  One conjunct stands for an action of  *)
(* each component, since only one of them can ever run.                    *)

Strong1 ==
  \/ part = "session" /\ Session!Finish("s1") /\ UNCHANGED <<vars, txVars>>
  \/ part = "file" /\ Step("c1") /\ UNCHANGED <<sessionVars, txVars>>
  \/ /\ part = "tx" /\ \E k \in Tx!Keys : Tx!ReconcileWalletConnectPublication(k)
     /\ UNCHANGED <<vars, sessionVars>>
Strong2 ==
  \/ part = "session" /\ Session!Finish("s2") /\ UNCHANGED <<vars, txVars>>
  \/ part = "file" /\ Step("c2") /\ UNCHANGED <<sessionVars, txVars>>
  \/ part = "tx" /\ Tx!ReconcileFound /\ UNCHANGED <<vars, sessionVars>>
Strong3 ==
  \/ /\ part = "session" /\ \E g \in Session!Gens : Session!Watchdog(g)
     /\ UNCHANGED <<vars, txVars>>
  \/ part = "tx" /\ Tx!ReconcileNotFound /\ UNCHANGED <<vars, sessionVars>>

strongVars == <<vars, sessionVars, txVars>>
StrongFairness == SF_strongVars(Strong1) /\ SF_strongVars(Strong2) /\ SF_strongVars(Strong3)

-----------------------------------------------------------------------------
(* A node that claims more projects for ever.                              *)

Votes == INSTANCE AcceleratorVotes WITH pc <- votesPc,
  Projects <- {"p1"}, Pillars <- {"q1"}, PageSize <- 2, MaxPages <- 2, VotingPeriod <- 1,
  MaxTime <- 0, MaxPhases <- 0, RpcFails <- TRUE, NodeLies <- TRUE

votesVars == <<list, chain, votes, time, votesPc, index, out, items, todo, owed, opened>>

VotesFairness == WF_votesVars(part = "votes" /\ Votes!Request)

-----------------------------------------------------------------------------
ASSUME PartsAssumption ==
  /\ Connection!NodeAssumption /\ Session!SessionAssumption /\ Receive!ReceiveAssumption
  /\ Tx!ConstantsAssumption
  /\ Votes!TimesAssumption /\ Votes!FlagsAssumption /\ Votes!PagingAssumption

LiveInit ==
  /\ part \in {"file", "node", "session", "receive", "tx", "votes"}
  /\ Init /\ (part # "file" => upd = [c \in Callers |-> "u1"])
  /\ Connection!Init /\ (part # "node" => nodeSettings = [nodeMode |-> "remote", url |-> "ra"])
  /\ Session!Init /\ Receive!Init /\ Tx!Init /\ Votes!Init

LiveNext ==
  /\ UNCHANGED part
  /\ \/ /\ part = "file" /\ Next
        /\ UNCHANGED <<connectionVars, sessionVars, receiveVars, txVars, votesVars>>
     \/ /\ part = "node" /\ Connection!Next
        /\ UNCHANGED <<vars, sessionVars, receiveVars, txVars, votesVars>>
     \/ /\ part = "session" /\ Session!Next
        /\ UNCHANGED <<vars, connectionVars, receiveVars, txVars, votesVars>>
     \/ /\ part = "receive" /\ Receive!Next
        /\ UNCHANGED <<vars, connectionVars, sessionVars, txVars, votesVars>>
     \/ /\ part = "tx" /\ Tx!Next
        /\ UNCHANGED <<vars, connectionVars, sessionVars, receiveVars, votesVars>>
     \/ /\ part = "votes" /\ Votes!Next
        /\ UNCHANGED <<vars, connectionVars, sessionVars, receiveVars, txVars>>

liveVars == <<part, vars, connectionVars, sessionVars, receiveVars, txVars, votesVars>>

LiveSpec ==
  /\ LiveInit /\ [][LiveNext]_liveVars
  /\ ConnectionFairness /\ SessionFairness /\ ReceiveFairness /\ TxFairness /\ VotesFairness
  /\ StrongFairness

-----------------------------------------------------------------------------
\* Every transition of the node releases its mutex and a quit of the application
\* gets it and ends, unless a call into a library never returns: the dial, the
\* subscription, the start or the stop of the embedded node.
NodeSettles == Connection!TransitionEnds /\ Connection!QuitEnds

\* An unlocked wallet nobody uses locks.
LocksWhenIdle == Session!LocksWhenIdle

\* Every call returns: of the wallet with its derivation slots, of a file's
\* update with its mutex, and of the list to vote on with a node that lies.
CallsEnd == Session!CallsEnd /\ UpdatesEnd /\ Votes!CallEnds

\* With auto-receive on, no block of the active account stays in its queue, unless
\* the last sweep gave up on it.
QueueDrains == Receive!QueueDrains

\* A confirm never leaves its latch on, and checking the outcome of a signed
\* record resolves it, unless a later block took its place.
OutcomesResolve == Tx!LatchReleased /\ Tx!ResolvedUnlessSuperseded
=============================================================================
