----------------------------- MODULE MCBackend -----------------------------
(***************************************************************************)
(* The safety of the backend services, and of the node store that follows  *)
(* them, side by side: part says which instance runs, and the variables of *)
(* the other components stand still.  The instances of one component share *)
(* its variables.  NodeConnection's own names are used directly: every     *)
(* mode and fault without momentums is its run of part "modes".            *)
(***************************************************************************)
EXTENDS NodeConnection, Sequences

VARIABLES
  part,
  \* SyncStatus
  current, pollerPc, now, tracker, samples, lastTarget, history, frame,
  \* NodeStore
  version, nodeMode, connected, silent, pollers, wire, shownVersion, storeMode,
  statusSeq, sync, listening, mounted, mounts, pulls, pushed,
  \* AutoReceive
  session, conn, pending, autoStop, receiveLoop, receiving, store, saved, task, used, upset,
  \* AcceleratorVotes
  list, chain, votes, time, votesPc, index, out, items, todo, owed, opened

-----------------------------------------------------------------------------
(* NodeConnection: every mode and fault, or two nodes whose momentums come. *)

\* Node ra is ahead of node rb and on another chain; the local one syncs.
TwoChains == [e \in Endpoints |-> CASE e = "ra" -> 3 [] e = "local" -> 1 [] OTHER -> 2]
Heights == [e \in Endpoints |-> IF e = "ra" THEN 2 ELSE 1]
NoMomentum == [e \in Endpoints |-> 0]

Momentums == INSTANCE NodeConnection WITH Top <- Heights, MaxTransitions <- 2

ConnectionInit ==
  IF part = "momentums" THEN Momentums!Init
  ELSE Init /\ (part # "modes" => settings = [nodeMode |-> "remote", url |-> "ra"])

-----------------------------------------------------------------------------
(* SyncStatus: one poller and a node that stalls or fails, one and a node  *)
(* whose numbers make no sense, two that overlap.                          *)

\* A height that moves or stands still, in sync or not.
Moving == {[height |-> h, target |-> 3, state |-> s] : h \in {1, 2}, s \in {"Syncing", "SyncDone"}}

\* No target, a height at and past the target, a height that moves backwards.
Edges == {[height |-> h, target |-> t, state |-> "Unknown"] : h \in {1, 2, 6}, t \in {0, 2, 9}}

OnePlace == {[height |-> 1, target |-> 3, state |-> "NotEnoughPeers"]}

Stalls == INSTANCE SyncStatus WITH pc <- pollerPc, shown <- frame,
  Pollers <- {1}, Infos <- Moving, Gaps <- {1, 2}, StallAfter <- 2, MaxSamples <- 2, MaxPolls <- 4

Numbers == INSTANCE SyncStatus WITH pc <- pollerPc, shown <- frame,
  Pollers <- {1}, Infos <- Edges, Gaps <- {1, 2}, StallAfter <- 2, MaxSamples <- 2, MaxPolls <- 3

Restarts == INSTANCE SyncStatus WITH pc <- pollerPc, shown <- frame,
  Pollers <- {1, 2}, Infos <- OnePlace, Gaps <- {1, 2}, StallAfter <- 2, MaxSamples <- 2, MaxPolls <- 3

syncVars == <<current, pollerPc, now, tracker, samples, lastTarget, history, frame>>

SyncInit == IF part = "restarts" THEN Restarts!Init ELSE Stalls!Init

-----------------------------------------------------------------------------
(* NodeStore: two pulls under way while the backend pushes.                *)

View == INSTANCE NodeStore WITH mode <- nodeMode, shown <- shownVersion,
  Pulls <- {"r1", "r2"}, MaxVersion <- 3, MaxWire <- 2, MaxMounts <- 2

viewVars ==
  <<version, nodeMode, connected, silent, pollers, wire, shownVersion, storeMode,
    statusSeq, sync, listening, mounted, mounts, pulls, pushed>>

ViewInit == View!Init /\ (part # "view" => nodeMode = "remote")

-----------------------------------------------------------------------------
(* AutoReceive: store actions that overlap; a lost connection and a        *)
(* failing node, or two wallets, a lock and an unlock.                     *)

Slot == INSTANCE AutoReceive WITH loop <- receiveLoop,
  Wallets <- {"wa"}, NoWallet <- "none", Indexes <- {0, 1}, Blocks <- {"b1"}, Tasks <- {"t1", "t2"},
  MaxStale <- 3, MaxStarts <- 3, MaxClicks <- 2, MaxLocks <- 0, MaxDrops <- 1, MaxFailures <- 1

Switched == INSTANCE AutoReceive WITH loop <- receiveLoop,
  Wallets <- {"wa", "wb"}, NoWallet <- "none", Indexes <- {0, 1}, Blocks <- {}, Tasks <- {"t1", "t2"},
  MaxStale <- 3, MaxStarts <- 2, MaxClicks <- 3, MaxLocks <- 1, MaxDrops <- 0, MaxFailures <- 0

receiveVars == <<session, conn, pending, autoStop, receiveLoop, receiving, store, saved, task, used, upset>>

ReceiveInit == IF part = "switched" THEN Switched!Init ELSE Slot!Init

-----------------------------------------------------------------------------
(* AcceleratorVotes: projects come and expire, or two pillars' votes.      *)

Window == INSTANCE AcceleratorVotes WITH pc <- votesPc,
  Projects <- {"p1", "p2"}, Pillars <- {"q1"}, PageSize <- 1, MaxPages <- 3, VotingPeriod <- 1,
  MaxTime <- 2, MaxPhases <- 0, RpcFails <- FALSE, NodeLies <- FALSE

Phases == INSTANCE AcceleratorVotes WITH pc <- votesPc,
  Projects <- {"p1"}, Pillars <- {"q1", "q2"}, PageSize <- 1, MaxPages <- 3, VotingPeriod <- 1,
  MaxTime <- 1, MaxPhases <- 1, RpcFails <- TRUE, NodeLies <- FALSE

votesVars == <<list, chain, votes, time, votesPc, index, out, items, todo, owed, opened>>

VotesInit == IF part = "phases" THEN Phases!Init ELSE Window!Init

-----------------------------------------------------------------------------
Parts ==
  {"modes", "momentums", "stalls", "numbers", "restarts", "view", "slot", "switched", "window", "phases"}

ASSUME PartsAssumption ==
  /\ Momentums!NodeAssumption
  /\ Slot!ReceiveAssumption /\ Switched!ReceiveAssumption
  /\ Stalls!InfosAssumption /\ Numbers!InfosAssumption /\ Restarts!InfosAssumption
  /\ Stalls!TimesAssumption /\ Restarts!PollersAssumption /\ Window!PagingAssumption
  /\ View!BoundsAssumption

SideInit ==
  /\ part \in Parts
  /\ ConnectionInit /\ SyncInit /\ ViewInit /\ ReceiveInit /\ VotesInit

SideNext ==
  /\ UNCHANGED part
  /\ \/ /\ \/ part = "modes" /\ Next
           \/ part = "momentums" /\ Momentums!Next
        /\ UNCHANGED <<syncVars, viewVars, receiveVars, votesVars>>
     \/ /\ \/ part = "stalls" /\ Stalls!Next
           \/ part = "numbers" /\ Numbers!Next
           \/ part = "restarts" /\ Restarts!Next
        /\ UNCHANGED <<vars, viewVars, receiveVars, votesVars>>
     \/ /\ part = "view" /\ View!Next
        /\ UNCHANGED <<vars, syncVars, receiveVars, votesVars>>
     \/ /\ \/ part = "slot" /\ Slot!Next
           \/ part = "switched" /\ Switched!Next
        /\ UNCHANGED <<vars, syncVars, viewVars, votesVars>>
     \/ /\ \/ part = "window" /\ Window!Next
           \/ part = "phases" /\ Phases!Next
        /\ UNCHANGED <<vars, syncVars, viewVars, receiveVars>>

sideVars == <<part, vars, syncVars, viewVars, receiveVars, votesVars>>

SideSpec == SideInit /\ [][SideNext]_sideVars

-----------------------------------------------------------------------------
(* The components' properties, each where its instance promises it;        *)
(* ConnectionAgrees, OneEmbeddedNode and StepsStayTheirOwn are             *)
(* NodeConnection's own.                                                   *)

\* Every component keeps its types.
TypesOK ==
  /\ part = "modes" => TypeOK
  /\ part = "momentums" => Momentums!TypeOK
  /\ part \in {"stalls", "numbers"} => Stalls!TypeOK
  /\ part = "restarts" => Restarts!TypeOK
  /\ part = "view" => View!TypeOK
  /\ part = "slot" => Slot!TypeOK
  /\ part = "switched" => Switched!TypeOK
  /\ part = "window" => Window!TypeOK
  /\ part = "phases" => Phases!TypeOK

\* What the user is shown is true: between transitions the last status emitted is
\* the connection's, unless the loop of a connection that is gone emitted it;
\* the store shows it once nothing is under way, nothing older than was pushed,
\* and sync progress in embedded mode only; and a stall is shown exactly when
\* the height stood still, or the errors lasted, for the whole window.
ShownIsTrue ==
  /\ [](part \in {"modes", "momentums"} => StatusHonest)
  /\ [](part = "view" => View!ShowsTheNode /\ View!PushWins /\ View!NoSyncOutsideEmbedded)
  /\ [][/\ part = "stalls" => Stalls!HeightStallsStep /\ Stalls!ErrorStallsStep
        /\ part = "restarts" => Restarts!ErrorStallsStep]_sideVars

\* The slot is held by exactly the loop that still runs; and once the toggle was
\* used on its own, auto-receive is off when it says so, and else for the active
\* account, until something comes in between (OffMeansOff and FollowsActive name
\* what).
ReceivesAsAsked ==
  /\ part = "slot" => Slot!SlotOwned /\ Slot!OffMeansOff /\ Slot!FollowsActive
  /\ part = "switched" => Switched!SlotOwned /\ Switched!OffMeansOff /\ Switched!FollowsActive

\* What missed a vote for the whole call is flagged, what is not flagged was
\* voted on by every pillar, and what is shown was open during the call.
NothingOwedIsMissed ==
  /\ part = "phases" => Phases!UnflaggedIsVoted
  /\ part \in {"window", "phases"} => Window!OwedIsFlagged /\ Window!ShownWasOpen
=============================================================================
