---------------------------- MODULE NodeConnection ----------------------------
(***************************************************************************)
(* NodeService (app/node_service.go) and the embedded node it drives       *)
(* (internal/embeddednode): node-mode transitions, the dial, the momentum  *)
(* loop, the sync poller, the status events, and a quit that stops the     *)
(* node without waiting for the transition in progress.                    *)
(*                                                                         *)
(* opMu admits one transition at a time, so one record op is the one that  *)
(* holds it; waiting callers have done nothing yet.  Every other step is   *)
(* one critical section of mu, one event emission or one outcome of a      *)
(* remote call.  Loops and pollers are named by the generation they were   *)
(* started under; a stop channel is open iff its field still names it.     *)
(***************************************************************************)
EXTENDS Integers

CONSTANTS
  Remotes,         \* remote node URLs
  Local,           \* the embedded node's URL
  NoEndpoint,
  Chain,           \* endpoint -> the chain identifier it serves
  Top,             \* endpoint -> the highest momentum it delivers
  ModeCalls, Urls, \* what the user passes to SetNodeMode and SetNodeURL
  MaxTransitions   \* bound on the calls that take opMu

Endpoints == Remotes \cup {Local}
Modes == {"remote", "embedded"}
MaxGen == 5 * MaxTransitions + 1
Gens == 1..MaxGen

ASSUME NodeAssumption ==
  /\ Local \notin Remotes /\ NoEndpoint \notin Endpoints
  /\ Chain \in [Endpoints -> Nat \ {0}]
  /\ Top \in [Endpoints -> Nat]
  /\ ModeCalls \subseteq Modes /\ Urls \subseteq Remotes
  /\ MaxTransitions \in Nat

VARIABLES
  settings,        \* the mode and remote URL on disk
  mode,            \* the mode in memory, "" until the first transition
  client,          \* the installed client: its endpoint and its dial's generation
  connGen, chainID, height,
  stop,            \* the loop whose stop channel n.stop is, 0: nil
  syncStop,        \* the poller whose stop channel n.syncStop is, 0: nil
  loop,            \* the momentum loop started under each generation
  poller,          \* the sync poller started under each generation
  embedded,        \* n.embedded is a handle
  stopping, wedged,
  node,            \* the node object and who holds the embeddednode mutex
  op,              \* the transition that holds opMu; was: the mode on disk when it began
  quit,            \* progress of OnShutdown
  transitions,     \* calls that took opMu so far
  shown            \* the last node:status event; by: the loop that emitted it without the
                   \* lock, 0 for any other (a record of the model)

connection == <<client, connGen, chainID, height, stop, syncStop>>
lifecycle == <<embedded, stopping, wedged, node>>
workers == <<loop, poller>>
vars == <<settings, mode, connection, workers, lifecycle, op, quit, transitions, shown>>

NoClient == [ep |-> NoEndpoint, gen |-> 0]
\* Mutant: the mode is emitted before the first transition has set it.
StatusRaw(m, c, ch) == [mode |-> m, connected |-> c, chain |-> ch, by |-> 0]

Status(m, c, ch) ==
  [mode |-> IF m = "" THEN "remote" ELSE m, connected |-> c, chain |-> ch, by |-> 0]
Down == [mode |-> "remote", connected |-> FALSE, chain |-> 0, by |-> 0]
NoLoop == [at |-> "none", ep |-> NoEndpoint, snap |-> Down]
NoPoller == [at |-> "none", sample |-> 0]
Idle == [pc |-> "idle", mode |-> "", ep |-> NoEndpoint, gen |-> 0, was |-> "remote"]

Init ==
  /\ settings \in [nodeMode : Modes, url : Remotes]
  /\ mode = ""
  /\ client = NoClient /\ connGen = 0 /\ chainID = 0 /\ height = 0
  /\ stop = 0 /\ syncStop = 0
  /\ loop = [g \in Gens |-> NoLoop]
  /\ poller = [g \in Gens |-> NoPoller]
  /\ embedded = FALSE /\ stopping = FALSE /\ wedged = FALSE
  /\ node = "off"
  /\ op = Idle /\ quit = "running" /\ transitions = 0
  /\ shown = Down

-----------------------------------------------------------------------------
(* Sections shared by the operations.                                      *)

\* Mutant: the cached chain identifier survives the teardown.
DisconnectLockedKeepsChain ==
  /\ connGen' = connGen + 1
  /\ stop' = 0 /\ syncStop' = 0
  /\ client' = NoClient /\ height' = 0 /\ UNCHANGED chainID

DisconnectLocked ==
  /\ connGen' = connGen + 1
  /\ stop' = 0 /\ syncStop' = 0
  /\ client' = NoClient /\ chainID' = 0 /\ height' = 0

EmitStatusLocked(m, connected) ==
  shown' = Status(m, connected /\ client' # NoClient, chainID')

\* Mutant: the handle stays visible while Stop runs.
HideNothing ==
  /\ syncStop' = 0
  /\ UNCHANGED embedded
  /\ stopping' = (stopping \/ embedded)
  /\ node' = IF embedded THEN "condemned" ELSE node

\* The section of stopEmbedded that hides the handle; Stop runs from then on.
HideHandle ==
  /\ syncStop' = 0
  /\ embedded' = FALSE
  /\ stopping' = (stopping \/ embedded)
  /\ node' = IF embedded THEN "condemned" ELSE node

Goto(pc) == op' = [op EXCEPT !.pc = pc]
Done == op' = Idle

\* setNode has failed or succeeded: startEmbedded goes on, a remote call ends.
Failed == IF op.ep = Local THEN Goto("abandon") ELSE Done
Succeeded == IF op.ep = Local THEN Goto("poll") ELSE Done

\* A call takes opMu and goes on at pc.
Take(pc, m, ep) ==
  /\ op = Idle /\ transitions < MaxTransitions
  /\ transitions' = transitions + 1
  /\ op' = [pc |-> pc, mode |-> m, ep |-> ep, gen |-> 0, was |-> settings.nodeMode]

-----------------------------------------------------------------------------
(* The calls.                                                              *)

\* Mutant: the wedge is left to startEmbedded's own guard.
SetNodeModeUnguarded(m) ==
  /\ Take("persist", m, NoEndpoint)
  /\ UNCHANGED <<settings, mode, connection, workers, lifecycle, quit, shown>>

SetNodeMode(m) ==
  /\ Take("persist", m, NoEndpoint)
  /\ m = "embedded" => ~wedged
  /\ UNCHANGED <<settings, mode, connection, workers, lifecycle, quit, shown>>

\* Mutant: the transition goes on although the settings could not be written.
PersistModeOrNot ==
  /\ op.pc = "persist"
  /\ settings' \in {settings, [settings EXCEPT !.nodeMode = op.mode]}
  /\ op' = [op EXCEPT !.pc = "flip",
                      !.ep = IF op.mode = "embedded" THEN Local ELSE settings.url]
  /\ UNCHANGED <<mode, connection, workers, lifecycle, quit, transitions, shown>>

PersistMode ==
  /\ op.pc = "persist"
  /\ \/ /\ settings' = [settings EXCEPT !.nodeMode = op.mode]
        /\ op' = [op EXCEPT !.pc = "flip",
                            !.ep = IF op.mode = "embedded" THEN Local ELSE settings.url]
     \/ Done /\ UNCHANGED settings
  /\ UNCHANGED <<mode, connection, workers, lifecycle, quit, transitions, shown>>

FlipMode ==
  /\ op.pc = "flip"
  /\ mode' = op.mode
  /\ DisconnectLocked /\ EmitStatusLocked(op.mode, FALSE)
  /\ Goto(IF op.mode = "embedded" THEN "start" ELSE "leave")
  /\ UNCHANGED <<settings, workers, lifecycle, quit, transitions>>

Connect ==
  /\ Take(IF settings.nodeMode = "embedded" THEN "start" ELSE "dial", settings.nodeMode,
          IF settings.nodeMode = "embedded" THEN Local ELSE settings.url)
  /\ mode' = settings.nodeMode
  /\ UNCHANGED <<settings, connection, workers, lifecycle, quit, shown>>

SetNodeURL(u) ==
  /\ op = Idle /\ transitions < MaxTransitions
  /\ settings' = [settings EXCEPT !.url = u]
  /\ IF settings.nodeMode = "remote"
     THEN Take("dial", "remote", u)
     ELSE transitions' = transitions + 1 /\ UNCHANGED op
  /\ UNCHANGED <<mode, connection, workers, lifecycle, quit, shown>>

Disconnect ==
  /\ op = Idle /\ transitions < MaxTransitions
  /\ transitions' = transitions + 1
  /\ DisconnectLocked /\ EmitStatusLocked(mode, FALSE)
  /\ UNCHANGED <<settings, mode, workers, lifecycle, op, quit>>

\* Mutant: only the handle is looked at.
DeleteUnlessRunning ==
  /\ Take("remove", "", NoEndpoint)
  /\ ~embedded
  /\ UNCHANGED <<settings, mode, connection, workers, lifecycle, quit, shown>>

DeleteEmbeddedData ==
  /\ Take("remove", "", NoEndpoint)
  /\ ~embedded /\ ~wedged /\ ~stopping
  /\ UNCHANGED <<settings, mode, connection, workers, lifecycle, quit, shown>>

RemoveData ==
  /\ op.pc = "remove"
  /\ Done
  /\ UNCHANGED <<settings, mode, connection, workers, lifecycle, quit, transitions, shown>>

-----------------------------------------------------------------------------
(* setNode.                                                                *)

BeginDial ==
  /\ op.pc = "dial"
  /\ DisconnectLocked
  /\ op' = [op EXCEPT !.pc = "dialing", !.gen = connGen']
  /\ UNCHANGED <<settings, mode, workers, lifecycle, quit, transitions, shown>>

\* The dial, the frontier query or the governance dial failed.
DialFails ==
  /\ op.pc = "dialing"
  /\ IF connGen = op.gen
     THEN shown' = Status(mode, FALSE, chainID)
     ELSE UNCHANGED shown
  /\ Failed
  /\ UNCHANGED <<settings, mode, connection, workers, lifecycle, quit, transitions>>

InstallConnection ==
  /\ op.pc = "dialing"
  /\ op.ep = Local => node \in {"up", "condemned", "halting"}
  /\ IF connGen = op.gen
     THEN /\ client' = [ep |-> op.ep, gen |-> op.gen]
          /\ chainID' = Chain[op.ep]
          /\ height' \in 0..Top[op.ep]
          /\ EmitStatusLocked(mode, TRUE)
          /\ Goto("subscribe")
     ELSE Failed /\ UNCHANGED <<client, chainID, height, shown>>
  /\ UNCHANGED <<settings, mode, connGen, stop, syncStop, workers, lifecycle, quit, transitions>>

\* Mutant: a superseded loop tears the newer connection down.
DegradeAnyConnection(gen) == DisconnectLocked /\ EmitStatusLocked(mode, FALSE)

\* Mutant: the teardown is not shown.
DegradeSilently(gen) ==
  /\ IF connGen = gen THEN DisconnectLocked ELSE UNCHANGED connection
  /\ UNCHANGED shown

\* The connection gen owns is torn down and shown as down in one section.
DegradeConnection(gen) ==
  IF connGen = gen
  THEN DisconnectLocked /\ EmitStatusLocked(mode, FALSE)
  ELSE UNCHANGED <<connection, shown>>

\* Mutant: the connection stays installed without its subscription.
SubscribeFailsInstalled ==
  /\ op.pc = "subscribe"
  /\ Failed
  /\ UNCHANGED <<settings, mode, connection, workers, lifecycle, quit, transitions, shown>>

SubscribeFails ==
  /\ op.pc = "subscribe"
  /\ DegradeConnection(op.gen)
  /\ Failed
  /\ UNCHANGED <<settings, mode, workers, lifecycle, quit, transitions>>

StartMomentumLoop ==
  /\ op.pc = "subscribe"
  /\ IF connGen = op.gen
     THEN /\ stop' = op.gen
          /\ loop' = [loop EXCEPT ![op.gen] = [at |-> "select", ep |-> op.ep, snap |-> Down]]
     ELSE UNCHANGED <<stop, loop>>
  /\ Succeeded
  /\ UNCHANGED <<settings, mode, client, connGen, chainID, height, syncStop, poller,
                 lifecycle, quit, transitions, shown>>

-----------------------------------------------------------------------------
(* The momentum loop of generation g.  Its select may serve a buffered     *)
(* momentum although the stop channel is closed.                           *)

LoopStops(g) ==
  /\ loop[g].at = "select" /\ stop # g
  /\ loop' = [loop EXCEPT ![g] = NoLoop]
  /\ UNCHANGED <<settings, mode, connection, poller, lifecycle, op, quit, transitions, shown>>

LoopClosed(g) ==
  /\ loop[g].at = "select"
  /\ DegradeConnection(g)
  /\ loop' = [loop EXCEPT ![g] = NoLoop]
  /\ UNCHANGED <<settings, mode, poller, lifecycle, op, quit, transitions>>

Tick(g) ==
  /\ loop[g].at = "select"
  /\ \E h \in 1..Top[loop[g].ep] : height' = IF h > height THEN h ELSE height
  /\ loop' = [loop EXCEPT ![g].at = "compose"]
  /\ UNCHANGED <<settings, mode, client, connGen, chainID, stop, syncStop, poller, lifecycle,
                 op, quit, transitions, shown>>

\* emitStatus reads the fields under the lock ...
ComposeStatus(g) ==
  /\ loop[g].at = "compose"
  /\ loop' = [loop EXCEPT ![g].at = "emit", ![g].snap = Status(mode, client # NoClient, chainID)]
  /\ UNCHANGED <<settings, mode, connection, poller, lifecycle, op, quit, transitions, shown>>

\* ... and emits what it read after releasing it.
EmitStatus(g) ==
  /\ loop[g].at = "emit"
  /\ shown' = [loop[g].snap EXCEPT !.by = g]
  /\ loop' = [loop EXCEPT ![g].at = "select", ![g].snap = Down]
  /\ UNCHANGED <<settings, mode, connection, poller, lifecycle, op, quit, transitions>>

-----------------------------------------------------------------------------
(* startEmbedded and stopEmbedded.                                         *)

\* Mutant: only the permanent refusal is left.
StartUnlessWedged ==
  /\ op.pc = "start"
  /\ IF wedged
     THEN Done /\ UNCHANGED connection
     ELSE DisconnectLocked /\ Goto(IF embedded THEN "reuse" ELSE "boot")
  /\ UNCHANGED <<settings, mode, workers, lifecycle, quit, transitions, shown>>

\* Mutant: the refusal ends with the stop's timeout.
StartUnlessStopping ==
  /\ op.pc = "start"
  /\ IF stopping
     THEN Done /\ UNCHANGED connection
     ELSE DisconnectLocked /\ Goto(IF embedded THEN "reuse" ELSE "boot")
  /\ UNCHANGED <<settings, mode, workers, lifecycle, quit, transitions, shown>>

StartEmbedded ==
  /\ op.pc = "start"
  /\ IF wedged \/ stopping
     THEN Done /\ UNCHANGED connection
     ELSE DisconnectLocked /\ Goto(IF embedded THEN "reuse" ELSE "boot")
  /\ UNCHANGED <<settings, mode, workers, lifecycle, quit, transitions, shown>>

\* emitStatus(false) before the handle found is reused.
Reuse ==
  /\ op.pc = "reuse"
  /\ shown' = Status(mode, FALSE, chainID)
  /\ Goto("dial")
  /\ UNCHANGED <<settings, mode, connection, workers, lifecycle, quit, transitions>>

\* embeddednode.Start waits for the package mutex and refuses a second node.
Boot ==
  /\ op.pc = "boot"
  /\ node \in {"off", "up", "condemned"}
  /\ shown' = Status(mode, FALSE, chainID)
  /\ IF node = "off"
     THEN node' = "booting" /\ Goto("booting")
     ELSE Done /\ UNCHANGED node
  /\ UNCHANGED <<settings, mode, connection, workers, embedded, stopping, wedged, quit, transitions>>

\* The node is created and started, or a started one is given up: Stop then runs
\* under the package mutex, without a timeout.
Booted ==
  /\ op.pc = "booting"
  /\ \/ node' = "up" /\ Goto("adopt")
     \/ Goto("undo") /\ UNCHANGED node
  /\ UNCHANGED <<settings, mode, connection, workers, embedded, stopping, wedged, quit,
                 transitions, shown>>

\* No node was created, or its Stop has returned.
BootFails ==
  /\ op.pc \in {"booting", "undo"}
  /\ node' = "off" /\ shown' = Status(mode, FALSE, chainID) /\ Done
  /\ UNCHANGED <<settings, mode, connection, workers, embedded, stopping, wedged, quit, transitions>>

AdoptHandle ==
  /\ op.pc = "adopt"
  /\ embedded' = TRUE
  /\ Goto("dial")
  /\ UNCHANGED <<settings, mode, connection, workers, stopping, wedged, node, quit, transitions, shown>>

\* SetNodeMode leaves embedded mode, or the node just started is given up.
StopEmbedded ==
  /\ op.pc \in {"leave", "abandon"}
  /\ HideHandle
  /\ IF embedded THEN Goto(IF op.pc = "leave" THEN "leaving" ELSE "abandoning")
     ELSE IF op.pc = "leave" THEN Goto("dial") ELSE Done
  /\ UNCHANGED <<settings, mode, client, connGen, chainID, height, stop, workers, wedged,
                 quit, transitions, shown>>

\* The wait ends because the stop landed or because the time is up.
StopLanded == node = "off" /\ stopping' = FALSE /\ UNCHANGED wedged
StopTimedOut == wedged' = TRUE /\ stopping' = FALSE

StopAwaited ==
  /\ op.pc \in {"leaving", "abandoning"}
  /\ StopLanded \/ StopTimedOut
  /\ IF op.pc = "leaving" THEN Goto("dial") ELSE Done
  /\ UNCHANGED <<settings, mode, connection, workers, embedded, node, quit, transitions, shown>>

\* Handle.Stop takes the package mutex, and may never return.
StopTakesMutex ==
  /\ node = "condemned" /\ node' = "halting"
  /\ UNCHANGED <<settings, mode, connection, workers, embedded, stopping, wedged, op, quit,
                 transitions, shown>>

StopReturns ==
  /\ node = "halting" /\ node' = "off"
  /\ UNCHANGED <<settings, mode, connection, workers, embedded, stopping, wedged, op, quit,
                 transitions, shown>>

StartSyncPoller ==
  /\ op.pc = "poll"
  /\ syncStop' = op.gen
  /\ poller' = IF client = NoClient THEN poller
               ELSE [poller EXCEPT ![op.gen] = [at |-> "select", sample |-> 0]]
  /\ Done
  /\ UNCHANGED <<settings, mode, client, connGen, chainID, height, stop, loop, lifecycle, quit,
                 transitions, shown>>

PollerStops(g) ==
  /\ poller[g].at = "select" /\ syncStop # g
  /\ poller' = [poller EXCEPT ![g] = NoPoller]
  /\ UNCHANGED <<settings, mode, connection, loop, lifecycle, op, quit, transitions, shown>>

\* A sample of a poller whose stop channel may have been closed meanwhile.
PollSample(g) ==
  /\ poller[g].at = "select"
  /\ \E h \in 1..Top[Local] : poller' = [poller EXCEPT ![g] = [at |-> "note", sample |-> h]]
  /\ UNCHANGED <<settings, mode, connection, loop, lifecycle, op, quit, transitions, shown>>

\* Mutant: every sample is the new height.
NoteAnyHeight(g) ==
  /\ poller[g].at = "note"
  /\ poller' = [poller EXCEPT ![g] = [at |-> "select", sample |-> 0]]
  /\ height' = poller[g].sample /\ shown' = Status(mode, client # NoClient, chainID)
  /\ UNCHANGED <<settings, mode, client, connGen, chainID, stop, syncStop, loop, lifecycle, op,
                 quit, transitions>>

NoteSyncHeight(g) ==
  /\ poller[g].at = "note"
  /\ poller' = [poller EXCEPT ![g] = [at |-> "select", sample |-> 0]]
  /\ IF poller[g].sample > height
     THEN height' = poller[g].sample /\ shown' = Status(mode, client # NoClient, chainID)
     ELSE UNCHANGED <<height, shown>>
  /\ UNCHANGED <<settings, mode, client, connGen, chainID, stop, syncStop, loop, lifecycle, op,
                 quit, transitions>>

-----------------------------------------------------------------------------
(* OnShutdown: the embedded node is stopped without opMu, then Disconnect. *)

QuitStops ==
  /\ quit = "running"
  /\ HideHandle
  /\ quit' = IF embedded THEN "stopping" ELSE "stopped"
  /\ UNCHANGED <<settings, mode, client, connGen, chainID, height, stop, workers, wedged, op,
                 transitions, shown>>

QuitAwaits ==
  /\ quit = "stopping"
  /\ StopLanded \/ StopTimedOut
  /\ quit' = "stopped"
  /\ UNCHANGED <<settings, mode, connection, workers, embedded, node, op, transitions, shown>>

QuitDisconnects ==
  /\ quit = "stopped" /\ op = Idle
  /\ DisconnectLocked /\ EmitStatusLocked(mode, FALSE)
  /\ quit' = "done"
  /\ UNCHANGED <<settings, mode, workers, lifecycle, op, transitions>>

-----------------------------------------------------------------------------
Call ==
  \/ \E m \in ModeCalls : SetNodeMode(m)
  \/ \E u \in Urls : SetNodeURL(u)
  \/ Connect \/ Disconnect \/ DeleteEmbeddedData

Transition ==
  \/ PersistMode \/ FlipMode \/ RemoveData
  \/ BeginDial \/ DialFails \/ InstallConnection \/ SubscribeFails \/ StartMomentumLoop
  \/ StartEmbedded \/ Reuse \/ Boot \/ Booted \/ BootFails \/ AdoptHandle \/ StopEmbedded \/ StopAwaited
  \/ StartSyncPoller

Worker(g) ==
  \/ LoopStops(g) \/ LoopClosed(g) \/ Tick(g) \/ ComposeStatus(g) \/ EmitStatus(g)
  \/ PollerStops(g) \/ PollSample(g) \/ NoteSyncHeight(g)

Quit == QuitStops \/ QuitAwaits \/ QuitDisconnects

Next == Call \/ Transition \/ Quit \/ StopTakesMutex \/ StopReturns \/ \E g \in Gens : Worker(g)

Spec == Init /\ [][Next]_vars

\* The transition waits for a call of another library: a dial, the subscription,
\* the embedded node's start or the stop of one whose start failed.
Outside == op.pc \in {"dialing", "subscribe", "booting", "undo"}

(* A transition goes on by itself, its stop wait is bounded, and a         *)
(* goroutine that wants the free package mutex gets it.  Nothing makes a   *)
(* call of another library return (no timeout covers all of a dial, the    *)
(* subscription, the node's start or its Stop), and the user need not quit. *)
Fairness ==
  /\ WF_vars(~Outside /\ Transition)
  /\ WF_vars(StopTakesMutex)
  /\ WF_vars(QuitAwaits) /\ WF_vars(QuitDisconnects)

FairSpec == Spec /\ Fairness
-----------------------------------------------------------------------------
(* Properties.                                                             *)

\* Every field keeps its type (the NodeService struct, node_service.go:47-101).
TypeOK ==
  /\ settings \in [nodeMode : Modes, url : Remotes]
  /\ mode \in Modes \cup {""}
  /\ client \in [ep : Endpoints \cup {NoEndpoint}, gen : 0..MaxGen]
  /\ {connGen, stop, syncStop} \subseteq 0..MaxGen
  /\ {chainID, height} \subseteq Nat
  /\ loop \in [Gens -> [at : {"none", "select", "compose", "emit"},
                        ep : Endpoints \cup {NoEndpoint},
                        snap : [mode : Modes, connected : BOOLEAN, chain : Nat, by : {0}]]]
  /\ poller \in [Gens -> [at : {"none", "select", "note"}, sample : Nat]]
  /\ {embedded, stopping, wedged} \subseteq BOOLEAN
  /\ node \in {"off", "booting", "up", "condemned", "halting"}
  /\ op \in [pc : {"idle", "persist", "flip", "remove", "dial", "dialing", "subscribe", "start",
                   "reuse", "boot", "booting", "undo", "adopt", "leave", "leaving", "abandon",
                   "abandoning", "poll"},
             mode : Modes \cup {""}, ep : Endpoints \cup {NoEndpoint}, gen : 0..MaxGen,
             was : Modes]
  /\ quit \in {"running", "stopping", "stopped", "done"}
  /\ transitions \in 0..MaxTransitions
  /\ shown \in [mode : Modes, connected : BOOLEAN, chain : Nat, by : 0..MaxGen]

\* The client, the chain identifier the mainnet guard reads and the connection
\* intent belong together at every instant (disconnectLocked, installConnection).
ClientOfIntent ==
  IF client = NoClient THEN chainID = 0
  ELSE client.gen = connGen /\ chainID = Chain[client.ep]

\* Between transitions a connected node has a subscription that will deliver
\* its momentums or notice that it died (setNode, node_service.go:153-162).
ConnectedHasLoop ==
  op = Idle /\ client # NoClient =>
    /\ stop = connGen
    /\ loop[connGen].at # "none" /\ loop[connGen].ep = client.ep

\* embeddednode.Start is never called while a Stop holds or is about to take
\* the package mutex: it would wait for it with opMu held (startEmbedded).
NoStartDuringStop == op.pc = "boot" => node \notin {"condemned", "halting"}

\* A handle always is of a live node nobody is stopping, so the node a
\* reconnect reuses is alive (startEmbedded, stopEmbedded).
HandleIsLive == embedded => node = "up" /\ ~stopping /\ ~wedged

\* RemoveAll never runs under a live node (DeleteEmbeddedData).
DeleteOnlyStopped == op.pc = "remove" => node = "off"

\* Between transitions the mode in memory is the one on disk, whatever failed
\* on the way (SetNodeMode, Connect).
ModesAgree == op = Idle /\ mode # "" => mode = settings.nodeMode

\* The mode in memory is the one on disk, the client and its chain identifier
\* belong to the intent to connect, and a connected node has its subscription,
\* whatever failed on the way.
ConnectionAgrees == ModesAgree /\ ClientOfIntent /\ ConnectedHasLoop

\* There is at most one embedded node: its handle is live, no start meets a
\* stop, and its data outlives it.
OneEmbeddedNode == HandleIsLive /\ NoStartDuringStop /\ DeleteOnlyStopped

\* A connection ends only by a transition, a quit or the loss its own loop
\* sees, never by the loop of a superseded one (degradeConnection).
OwnerTearsDown ==
  client # NoClient /\ client' # client =>
    op' # op \/ transitions' # transitions \/ quit' # quit
    \/ loop'[client.gen] # loop[client.gen]

\* Under one connection the height never decreases (the tick, noteSyncHeight).
HeightNotLowered == client # NoClient /\ client' = client => height' >= height

\* While the application runs, a transition the embedded guards refuse has
\* written nothing (SetNodeMode's guard before the persist, node_service.go:417).
RefusedWritesNothing ==
  op.pc = "start" /\ op' = Idle /\ quit = "running" => settings.nodeMode = op.was

\* Every step stays with the connection it is of: no superseded loop ends a
\* newer one, no height goes down under one, no refusal leaves a mode behind.
StepsStayTheirOwn == [][OwnerTearsDown /\ HeightNotLowered /\ RefusedWritesNothing]_vars

\* A transition that waits for no other library's call releases opMu, even when
\* a stop of the embedded node never returns: neither the stop's own wait nor
\* the package mutex holds it (stopEmbedded, the wedged and stopping refusals).
TransitionEnds == []<>(op = Idle \/ Outside)

\* A quit gets opMu and ends (app.go:40-45), unless the transition that holds it
\* waits for such a call.
QuitEnds == []<>(quit \in {"running", "done"} \/ Outside)

\* A start of the embedded node returns (embeddednode.go:60-61: once its RPC
\* accepts a connection, or a bounded timeout elapses).
StartReturns == []<>(op.pc # "undo")

\* Between transitions the last status shown is the state of the connection,
\* whether it was emitted under the lock or by the loop of the connection that
\* is installed: only the loop of a connection that is gone can have shown
\* another (emitStatusLocked, emitStatus).
StatusHonest ==
  op = Idle /\ shown.by \in {0, client.gen} =>
    [shown EXCEPT !.by = 0] = Status(mode, client # NoClient, chainID)

\* A switch to remote mode has announced that it started, and says disconnected
\* while the embedded node is stopped (node_service.go:441-445).
DisconnectedUntilLands == op.pc \in {"leave", "leaving"} => ~shown.connected

\* The height shown for a node is one that node reported (a superseded loop
\* must not race the newer connection's, node_service.go:256-257).
HeightOfEndpoint == client # NoClient => height <= Top[client.ep]

\* When OnShutdown ends, the embedded node has halted or is wedged
\* (docs/superpowers/specs/2026-06-21-phase-4b-embedded-node-design.md:83: "so
\* the node halts cleanly on quit").
HaltsOnQuit == [][quit' = "done" /\ ~wedged => quit = "done" \/ node = "off"]_vars
=============================================================================
