------------------------- MODULE NodeServiceProofs -------------------------
(***************************************************************************)
(* Proofs about the machines of app/node_service.go: NodeConnection, for   *)
(* every set of remotes, every chain, any momentums and any number of      *)
(* transitions; AutoReceive, for any wallets, accounts, blocks, store      *)
(* actions and bounds; and SyncStatus, for any pollers, answers, gaps      *)
(* between ticks and window.                                               *)
(*                                                                         *)
(* NodeConnection's invariant is Inv.  Its parts build on one another:     *)
(* every field has its type, which rests on how often a transition may     *)
(* still tear a connection down (Spends); a transition that dials owns the *)
(* intent to connect until it has a loop (Connecting); the handle, the     *)
(* stop flags and the node object tell the same story (NodeOwned).         *)
(*                                                                         *)
(* AutoReceive's invariant comes in three layers.  SlotInv holds however   *)
(* the store's actions overlap: every field has its type, no loop runs     *)
(* before its start, a start in progress belongs to one task, the slot to  *)
(* the one loop that runs, which is on the current connection (ServeInv).  *)
(* Since a toggle on its own, and as long as no action overlapped another, *)
(* OffInv ties the toggle, the setting and the task under way to the slot. *)
(* As long as nothing else came between either (upset), FollowInv ties the *)
(* slot's loop to the account the store has in mind.                       *)
(*                                                                         *)
(* SyncStatus's invariant says what a tracker knows of all its poller has  *)
(* observed (Tracks): its clock is the time of the observation since which *)
(* the height has stood still (Since), whatever failed in between.         *)
(***************************************************************************)
EXTENDS NodeConnection, Sequences, FiniteSetTheorems, TLAPS

-----------------------------------------------------------------------------
(* The inductive invariant.                                                *)

\* How often the rest of a transition may still move connGen, the loop it
\* starts included.
Due ==
  IF op.pc \in {"persist", "flip"} THEN 4
  ELSE IF op.pc = "start" THEN 3
  ELSE IF op.pc \in {"reuse", "boot", "booting", "adopt", "leave", "leaving", "dial"} THEN 2
  ELSE IF op.pc \in {"dialing", "subscribe"} THEN 1 ELSE 0

\* The loop of the current generation may end the connection once.
LoopDue == IF connGen \in Gens /\ loop[connGen].at # "none" THEN 1 ELSE 0
QuitDue == IF quit = "done" THEN 0 ELSE 1

Spends == connGen + Due + LoopDue + QuitDue <= 4 * transitions + 1

\* No loop is of a generation to come.
LoopsArePast == \A g \in Gens : g > connGen => loop[g].at = "none"

\* A transition goes on to one of the endpoints.
OpFields ==
  /\ op.pc \in {"persist", "flip"} => op.mode \in Modes
  /\ op.pc = "flip" => op.ep \in Endpoints /\ (op.mode = "embedded" => op.ep = Local)
  /\ op.pc \in {"start", "reuse", "boot", "booting", "adopt", "leave", "leaving", "dial",
                "dialing", "subscribe"} => op.ep \in Endpoints
  /\ op.pc \in {"start", "reuse", "boot", "booting", "adopt"} => op.ep = Local

\* From the dial to the subscription nobody moves the intent to connect, there
\* is no client before the dial answers, and no loop before there is a client.
Connecting ==
  /\ op.pc \in {"dialing", "subscribe"} =>
       /\ connGen = op.gen /\ connGen \in Gens
       /\ loop[connGen].at = "none"
  /\ op.pc = "dialing" => client = NoClient
  /\ op.pc = "subscribe" => client = [ep |-> op.ep, gen |-> op.gen]
  /\ op.pc = "poll" => op.gen \in Gens

\* Every client belongs to the intent, serves its chain, and has its loop.
Connected ==
  /\ ClientOfIntent
  /\ client # NoClient => client.ep \in Endpoints /\ connGen \in Gens
  /\ client # NoClient /\ op.pc # "subscribe" =>
       stop = connGen /\ loop[connGen].at # "none" /\ loop[connGen].ep = client.ep
  /\ \A g \in Gens : loop[g].at # "none" => loop[g].ep \in Endpoints

\* The mode in memory follows the one on disk, which only a transition on its
\* way from the disk to the memory leaves behind.
ModeFollows ==
  /\ mode # "" /\ op.pc # "flip" => mode = settings.nodeMode
  /\ op.pc = "flip" => settings.nodeMode = op.mode

\* The handle, the flags of a stop and the node object.
NodeOwned ==
  /\ HandleIsLive
  /\ op.pc \in {"boot", "booting", "undo", "adopt"} => ~embedded /\ ~stopping /\ ~wedged
  /\ node = "booting" <=> op.pc \in {"booting", "undo"}
  /\ op.pc = "adopt" => node = "up"
  /\ node # "off" => embedded \/ stopping \/ wedged \/ op.pc \in {"booting", "undo", "adopt"}
  /\ op.pc \in {"leaving", "abandoning"} => stopping /\ quit # "stopping"
  /\ quit = "stopping" => stopping
  /\ stopping => op.pc \in {"leaving", "abandoning"} \/ quit = "stopping"
  /\ op.pc = "remove" => ~embedded /\ node = "off"

\* Until the user quits, a transition to embedded mode that has begun to write
\* the mode is one that no stop refuses.
NotRefused ==
  quit = "running" =>
    /\ op.pc = "persist" => settings.nodeMode = op.was
    /\ op.pc \in {"persist", "flip"} /\ op.mode = "embedded" => ~wedged
    /\ op.pc = "start" => ~wedged \/ settings.nodeMode = op.was

Inv ==
  /\ TypeOK /\ Spends /\ LoopsArePast /\ OpFields
  /\ Connecting /\ Connected /\ ModeFollows /\ NodeOwned /\ NotRefused

-----------------------------------------------------------------------------
(* What the transition's record says after a step.                         *)

OpType == [pc : {"idle", "persist", "flip", "remove", "dial", "dialing", "subscribe", "start",
                 "reuse", "boot", "booting", "undo", "adopt", "leave", "leaving", "abandon",
                 "abandoning", "poll"},
           mode : Modes \cup {""}, ep : Endpoints \cup {NoEndpoint}, gen : 0..MaxGen,
           was : Modes]
SettingsType == [nodeMode : Modes, url : Remotes]
StatusType == [mode : Modes, connected : BOOLEAN, chain : Nat, by : {0}]
ShownType == [mode : Modes, connected : BOOLEAN, chain : Nat, by : 0..MaxGen]
LoopsType == [Gens -> [at : {"none", "select", "compose", "emit"},
                       ep : Endpoints \cup {NoEndpoint},
                       snap : StatusType]]

ClientType == [ep : Endpoints \cup {NoEndpoint}, gen : 0..MaxGen]
PollersType == [Gens -> [at : {"none", "select", "note"}, sample : Nat]]

\* No transition holds opMu.
LEMMA IdlePc == Idle.pc = "idle"
BY DEF Idle

\* There are as many generations as transitions can use.
LEMMA MaxGenNat == MaxGen \in Nat
BY NodeAssumption DEF MaxGen

\* The fields of TypeOK the control of a transition rests on.
LEMMA Types ==
  ASSUME TypeOK
  PROVE  /\ op \in OpType /\ settings \in SettingsType
         /\ embedded \in BOOLEAN /\ stopping \in BOOLEAN /\ wedged \in BOOLEAN
BY DEF TypeOK, OpType, SettingsType

\* The fields of TypeOK the generations rest on.
LEMMA ConnectionTypes ==
  ASSUME TypeOK
  PROVE  connGen \in 0..MaxGen /\ transitions \in Nat /\ loop \in LoopsType
<1>1. loop \in LoopsType
  BY DEF TypeOK, LoopsType, StatusType
<1>2. transitions \in 0..MaxTransitions /\ connGen \in 0..MaxGen
  BY DEF TypeOK
<1> QED
  BY <1>1, <1>2, NodeAssumption

\* A new URL leaves the mode on disk alone; only a remote connection redials.
LEMMA URLMoves ==
  ASSUME TypeOK, NEW u \in Urls, SetNodeURL(u)
  PROVE  /\ settings'.nodeMode = settings.nodeMode
         /\ op' = op \/ (op.pc = "idle" /\ op'.pc = "dial" /\ op'.ep = u)
         /\ transitions' = transitions + 1
         /\ UNCHANGED <<mode, connection, workers, embedded, stopping, wedged, node, quit, shown>>
<1> op \in OpType /\ settings \in SettingsType
  BY Types
<1> USE DEF SettingsType, OpType
<1>1. settings'.nodeMode = settings.nodeMode
  BY DEF SetNodeURL
<1>2. CASE settings.nodeMode = "remote"
  <2>1. op = Idle /\ Take("dial", "remote", u)
    BY <1>2 DEF SetNodeURL
  <2> QED
    BY <1>1, <2>1, IdlePc DEF Take, SetNodeURL, lifecycle
<1>3. CASE settings.nodeMode # "remote"
  BY <1>1, <1>3 DEF SetNodeURL, lifecycle
<1> QED
  BY <1>2, <1>3

-----------------------------------------------------------------------------
\* The mode in memory is written from the one on disk, in the section after.
LEMMA ModeStep ==
  ASSUME TypeOK, OpFields, ModeFollows, [Next]_vars
  PROVE  ModeFollows'
<1> USE DEF Failed, Succeeded, Goto, Take, OpType, SettingsType, ModeFollows, OpFields
<1> op \in OpType /\ settings \in SettingsType
  BY Types
<1> (Done => op'.pc = "idle") /\ (op = Idle => op.pc = "idle")
  BY IdlePc DEF Done
<1>1. ASSUME NEW m \in ModeCalls, SetNodeMode(m) PROVE ModeFollows'
  BY <1>1 DEF SetNodeMode
<1>2. ASSUME NEW u \in Urls, SetNodeURL(u) PROVE ModeFollows'
  BY <1>2, URLMoves
<1>3. CASE Connect
  BY <1>3 DEF Connect
<1>4. CASE DeleteEmbeddedData
  BY <1>4 DEF DeleteEmbeddedData
<1>5. CASE PersistMode
  BY <1>5 DEF PersistMode
<1>6. CASE FlipMode
  BY <1>6 DEF FlipMode
<1>7. CASE RemoveData
  BY <1>7 DEF RemoveData
<1>8. CASE BeginDial
  BY <1>8 DEF BeginDial
<1>9. CASE DialFails
  BY <1>9 DEF DialFails
<1>10. CASE InstallConnection
  BY <1>10 DEF InstallConnection
<1>11. CASE SubscribeFails
  BY <1>11 DEF SubscribeFails
<1>12. CASE StartMomentumLoop
  BY <1>12 DEF StartMomentumLoop
<1>13. CASE StartEmbedded
  BY <1>13 DEF StartEmbedded
<1>14. CASE Reuse
  BY <1>14 DEF Reuse
<1>15. CASE Boot
  BY <1>15 DEF Boot
<1>16. CASE Booted
  BY <1>16 DEF Booted
<1>16b. CASE BootFails
  BY <1>16b DEF BootFails
<1>17. CASE AdoptHandle
  BY <1>17 DEF AdoptHandle
<1>18. CASE StopEmbedded
  BY <1>18 DEF StopEmbedded
<1>19. CASE StopAwaited
  BY <1>19 DEF StopAwaited
<1>20. CASE StartSyncPoller
  BY <1>20 DEF StartSyncPoller
<1>21. CASE UNCHANGED <<settings, mode, op>>
  BY <1>21
<1> QED
  BY <1>1, <1>2, <1>3, <1>4, <1>5, <1>6, <1>7, <1>8, <1>9, <1>10, <1>11, <1>12, <1>13,
     <1>14, <1>15, <1>16, <1>16b, <1>17, <1>18, <1>19, <1>20, <1>21
     DEF Next, Call, Transition, Quit, Worker, vars, connection, workers, lifecycle,
         Disconnect, QuitStops, QuitAwaits, QuitDisconnects, StopTakesMutex, StopReturns,
         LoopStops, LoopClosed, Tick, ComposeStatus, EmitStatus, PollerStops, PollSample,
         NoteSyncHeight

\* Every section that moves the handle moves the flags that go with it.
LEMMA OwnedStep ==
  ASSUME TypeOK, NodeOwned, [Next]_vars
  PROVE  NodeOwned'
<1> USE DEF Failed, Succeeded, Goto, Take, OpType, SettingsType, NodeOwned, HandleIsLive,
       lifecycle, HideHandle, StopLanded, StopTimedOut
<1> /\ op \in OpType /\ settings \in SettingsType
    /\ embedded \in BOOLEAN /\ stopping \in BOOLEAN /\ wedged \in BOOLEAN
  BY Types
<1> (Done => op'.pc = "idle") /\ (op = Idle => op.pc = "idle")
  BY IdlePc DEF Done
<1>1. ASSUME NEW m \in ModeCalls, SetNodeMode(m) PROVE NodeOwned'
  BY <1>1 DEF SetNodeMode
<1>2. ASSUME NEW u \in Urls, SetNodeURL(u) PROVE NodeOwned'
  BY <1>2, URLMoves
<1>3. CASE Connect
  BY <1>3 DEF Connect
<1>4. CASE DeleteEmbeddedData
  BY <1>4 DEF DeleteEmbeddedData
<1>5. CASE PersistMode
  BY <1>5 DEF PersistMode
<1>6. CASE FlipMode
  BY <1>6 DEF FlipMode
<1>7. CASE RemoveData
  BY <1>7 DEF RemoveData
<1>8. CASE BeginDial
  BY <1>8 DEF BeginDial
<1>9. CASE DialFails
  BY <1>9 DEF DialFails
<1>10. CASE InstallConnection
  BY <1>10 DEF InstallConnection
<1>11. CASE SubscribeFails
  BY <1>11 DEF SubscribeFails
<1>12. CASE StartMomentumLoop
  BY <1>12 DEF StartMomentumLoop
<1>13. CASE StartEmbedded
  BY <1>13 DEF StartEmbedded
<1>14. CASE Reuse
  BY <1>14 DEF Reuse
<1>15. CASE Boot
  BY <1>15 DEF Boot
<1>16. CASE Booted
  BY <1>16 DEF Booted
<1>16b. CASE BootFails
  BY <1>16b DEF BootFails
<1>17. CASE AdoptHandle
  BY <1>17 DEF AdoptHandle
<1>18. CASE StopEmbedded
  BY <1>18 DEF StopEmbedded
<1>19. CASE StopAwaited
  BY <1>19 DEF StopAwaited
<1>20. CASE StartSyncPoller
  BY <1>20 DEF StartSyncPoller
<1>21. CASE QuitStops
  BY <1>21 DEF QuitStops
<1>22. CASE QuitAwaits
  BY <1>22 DEF QuitAwaits
<1>23. CASE QuitDisconnects
  BY <1>23 DEF QuitDisconnects
<1>24. CASE StopTakesMutex
  BY <1>24 DEF StopTakesMutex
<1>25. CASE StopReturns
  BY <1>25 DEF StopReturns
<1>26. CASE UNCHANGED <<lifecycle, op, quit>>
  BY <1>26
<1> QED
  BY <1>1, <1>2, <1>3, <1>4, <1>5, <1>6, <1>7, <1>8, <1>9, <1>10, <1>11, <1>12, <1>13,
     <1>14, <1>15, <1>16, <1>16b, <1>17, <1>18, <1>19, <1>20, <1>21, <1>22, <1>23, <1>24, <1>25,
     <1>26
     DEF Next, Call, Transition, Quit, Worker, vars, connection, workers, lifecycle,
         Disconnect, LoopStops, LoopClosed, Tick, ComposeStatus, EmitStatus, PollerStops,
         PollSample, NoteSyncHeight

\* A wedge found before the persist keeps the disk as it was.
LEMMA RefusedStep ==
  ASSUME TypeOK, NodeOwned, OpFields, NotRefused, [Next]_vars
  PROVE  NotRefused'
<1> USE DEF Failed, Succeeded, Goto, Take, OpType, SettingsType, NotRefused, NodeOwned, OpFields,
       lifecycle, HideHandle, StopLanded, StopTimedOut
<1> /\ op \in OpType /\ settings \in SettingsType
    /\ embedded \in BOOLEAN /\ stopping \in BOOLEAN /\ wedged \in BOOLEAN
  BY Types
<1> (Done => op'.pc = "idle") /\ (op = Idle => op.pc = "idle")
  BY IdlePc DEF Done
<1>1. ASSUME NEW m \in ModeCalls, SetNodeMode(m) PROVE NotRefused'
  BY <1>1 DEF SetNodeMode
<1>2. ASSUME NEW u \in Urls, SetNodeURL(u) PROVE NotRefused'
  BY <1>2, URLMoves
<1>3. CASE Connect
  BY <1>3 DEF Connect
<1>4. CASE DeleteEmbeddedData
  BY <1>4 DEF DeleteEmbeddedData
<1>5. CASE PersistMode
  BY <1>5 DEF PersistMode
<1>6. CASE FlipMode
  BY <1>6 DEF FlipMode
<1>7. CASE RemoveData
  BY <1>7 DEF RemoveData
<1>8. CASE BeginDial
  BY <1>8 DEF BeginDial
<1>9. CASE DialFails
  BY <1>9 DEF DialFails
<1>10. CASE InstallConnection
  BY <1>10 DEF InstallConnection
<1>11. CASE SubscribeFails
  BY <1>11 DEF SubscribeFails
<1>12. CASE StartMomentumLoop
  BY <1>12 DEF StartMomentumLoop
<1>13. CASE StartEmbedded
  BY <1>13 DEF StartEmbedded
<1>14. CASE Reuse
  BY <1>14 DEF Reuse
<1>15. CASE Boot
  BY <1>15 DEF Boot
<1>16. CASE Booted
  BY <1>16 DEF Booted
<1>16b. CASE BootFails
  BY <1>16b DEF BootFails
<1>17. CASE AdoptHandle
  BY <1>17 DEF AdoptHandle
<1>18. CASE StopEmbedded
  BY <1>18 DEF StopEmbedded
<1>19. CASE StopAwaited
  BY <1>19 DEF StopAwaited
<1>20. CASE StartSyncPoller
  BY <1>20 DEF StartSyncPoller
<1>21. CASE QuitStops
  BY <1>21 DEF QuitStops
<1>22. CASE QuitAwaits
  BY <1>22 DEF QuitAwaits
<1>23. CASE QuitDisconnects
  BY <1>23 DEF QuitDisconnects
<1>24. CASE StopTakesMutex
  BY <1>24 DEF StopTakesMutex
<1>25. CASE StopReturns
  BY <1>25 DEF StopReturns
<1>26. CASE UNCHANGED <<settings, lifecycle, op, quit>>
  BY <1>26
<1> QED
  BY <1>1, <1>2, <1>3, <1>4, <1>5, <1>6, <1>7, <1>8, <1>9, <1>10, <1>11, <1>12, <1>13,
     <1>14, <1>15, <1>16, <1>16b, <1>17, <1>18, <1>19, <1>20, <1>21, <1>22, <1>23, <1>24, <1>25,
     <1>26
     DEF Next, Call, Transition, Quit, Worker, vars, connection, workers, lifecycle,
         Disconnect, LoopStops, LoopClosed, Tick, ComposeStatus, EmitStatus, PollerStops,
         PollSample, NoteSyncHeight

\* A transition keeps the endpoint it goes to.
LEMMA FieldsStep ==
  ASSUME TypeOK, OpFields, [Next]_vars
  PROVE  OpFields'
<1> USE DEF Failed, Succeeded, Goto, Take, OpType, SettingsType, OpFields, Endpoints
<1> op \in OpType /\ settings \in SettingsType
  BY Types
<1> (Done => op'.pc = "idle") /\ (op = Idle => op.pc = "idle")
  BY IdlePc DEF Done
<1> ModeCalls \subseteq Modes /\ Urls \subseteq Remotes
  BY NodeAssumption
<1>1. ASSUME NEW m \in ModeCalls, SetNodeMode(m) PROVE OpFields'
  BY <1>1 DEF SetNodeMode
<1>2. ASSUME NEW u \in Urls, SetNodeURL(u) PROVE OpFields'
  BY <1>2, URLMoves
<1>3. CASE Connect
  BY <1>3 DEF Connect
<1>4. CASE DeleteEmbeddedData
  BY <1>4 DEF DeleteEmbeddedData
<1>5. CASE PersistMode
  BY <1>5 DEF PersistMode
<1>6. CASE FlipMode
  BY <1>6 DEF FlipMode
<1>7. CASE RemoveData
  BY <1>7 DEF RemoveData
<1>8. CASE BeginDial
  BY <1>8 DEF BeginDial
<1>9. CASE DialFails
  BY <1>9 DEF DialFails
<1>10. CASE InstallConnection
  BY <1>10 DEF InstallConnection
<1>11. CASE SubscribeFails
  BY <1>11 DEF SubscribeFails
<1>12. CASE StartMomentumLoop
  BY <1>12 DEF StartMomentumLoop
<1>13. CASE StartEmbedded
  BY <1>13 DEF StartEmbedded
<1>14. CASE Reuse
  BY <1>14 DEF Reuse
<1>15. CASE Boot
  BY <1>15 DEF Boot
<1>16. CASE Booted
  BY <1>16 DEF Booted
<1>16b. CASE BootFails
  BY <1>16b DEF BootFails
<1>17. CASE AdoptHandle
  BY <1>17 DEF AdoptHandle
<1>18. CASE StopEmbedded
  BY <1>18 DEF StopEmbedded
<1>19. CASE StopAwaited
  BY <1>19 DEF StopAwaited
<1>20. CASE StartSyncPoller
  BY <1>20 DEF StartSyncPoller
<1>21. CASE UNCHANGED op
  BY <1>21
<1> QED
  BY <1>1, <1>2, <1>3, <1>4, <1>5, <1>6, <1>7, <1>8, <1>9, <1>10, <1>11, <1>12, <1>13,
     <1>14, <1>15, <1>16, <1>16b, <1>17, <1>18, <1>19, <1>20, <1>21
     DEF Next, Call, Transition, Quit, Worker, vars, connection, workers, lifecycle,
         Disconnect, QuitStops, QuitAwaits, QuitDisconnects, StopTakesMutex, StopReturns,
         LoopStops, LoopClosed, Tick, ComposeStatus, EmitStatus, PollerStops, PollSample,
         NoteSyncHeight

-----------------------------------------------------------------------------
(* How often a connection may still end.                                   *)

\* A step starts no loop but that of the transition that subscribes.
StartsNoOther ==
  \A g \in Gens : loop'[g].at # "none" =>
    loop[g].at # "none" \/ (op.pc = "subscribe" /\ op'.pc \in {"idle", "poll"} /\ g = connGen /\ connGen' = connGen)

\* Only the section that ends a subscription starts a loop.
LEMMA LoopsMove ==
  ASSUME TypeOK, [Next]_vars
  PROVE  StartsNoOther
<1> USE DEF StartsNoOther, LoopsType, OpType, NoLoop, workers, Succeeded, Goto
<1> loop \in LoopsType /\ op \in OpType
  BY ConnectionTypes, Types
<1> (Done => op'.pc = "idle") /\ (op = Idle => op.pc = "idle")
  BY IdlePc DEF Done
<1>1. CASE StartMomentumLoop
  BY <1>1 DEF StartMomentumLoop
<1>2. ASSUME NEW g \in Gens, LoopStops(g) PROVE StartsNoOther
  BY <1>2 DEF LoopStops
<1>3. ASSUME NEW g \in Gens, LoopClosed(g) PROVE StartsNoOther
  BY <1>3 DEF LoopClosed
<1>4. ASSUME NEW g \in Gens, Tick(g) PROVE StartsNoOther
  BY <1>4 DEF Tick
<1>5. ASSUME NEW g \in Gens, ComposeStatus(g) PROVE StartsNoOther
  BY <1>5 DEF ComposeStatus
<1>6. ASSUME NEW g \in Gens, EmitStatus(g) PROVE StartsNoOther
  BY <1>6 DEF EmitStatus
<1>7. CASE UNCHANGED loop
  BY <1>7
<1> QED
  BY <1>1, <1>2, <1>3, <1>4, <1>5, <1>6, <1>7
     DEF Next, Call, Transition, Quit, Worker, vars, connection, workers, lifecycle,
         SetNodeMode, SetNodeURL, Connect, Disconnect, DeleteEmbeddedData, PersistMode,
         FlipMode, RemoveData, BeginDial, DialFails, InstallConnection, SubscribeFails,
         StartEmbedded, Reuse, Boot, Booted, BootFails, AdoptHandle, StopEmbedded, StopAwaited,
         StartSyncPoller, QuitStops, QuitAwaits, QuitDisconnects, StopTakesMutex,
         StopReturns, PollerStops, PollSample, NoteSyncHeight

\* A step ends at most one connection.
LEMMA GenMoves ==
  ASSUME TypeOK, [Next]_vars
  PROVE  connGen' \in {connGen, connGen + 1}
<1> USE DEF connection, DisconnectLocked, HideHandle, DegradeConnection
<1> connGen \in Nat
  BY ConnectionTypes, MaxGenNat
<1>1. CASE Disconnect
  BY <1>1 DEF Disconnect
<1>2. CASE FlipMode
  BY <1>2 DEF FlipMode
<1>3. CASE BeginDial
  BY <1>3 DEF BeginDial
<1>4. CASE SubscribeFails
  BY <1>4 DEF SubscribeFails
<1>5. CASE StartEmbedded
  BY <1>5 DEF StartEmbedded
<1>6. CASE QuitDisconnects
  BY <1>6 DEF QuitDisconnects
<1>7. ASSUME NEW g \in Gens, LoopClosed(g) PROVE connGen' \in {connGen, connGen + 1}
  BY <1>7 DEF LoopClosed
<1>8. CASE UNCHANGED connGen
  BY <1>8
<1> QED
  BY <1>1, <1>2, <1>3, <1>4, <1>5, <1>6, <1>7, <1>8
     DEF Next, Call, Transition, Quit, Worker, vars, connection, workers, lifecycle,
         SetNodeMode, SetNodeURL, Connect, DeleteEmbeddedData, PersistMode, RemoveData,
         DialFails, InstallConnection, StartMomentumLoop, Reuse, Boot, Booted, BootFails,
         AdoptHandle, StopEmbedded, StopAwaited, StartSyncPoller, QuitStops, QuitAwaits,
         StopTakesMutex, StopReturns, LoopStops, Tick, ComposeStatus, EmitStatus,
         PollerStops, PollSample, NoteSyncHeight

\* A loop is started under the generation of its time.
LEMMA PastStep ==
  ASSUME TypeOK, LoopsArePast, [Next]_vars
  PROVE  LoopsArePast'
BY LoopsMove, GenMoves, ConnectionTypes, MaxGenNat DEF StartsNoOther, LoopsArePast, Gens

\* What a transition at each place still spends.
LEMMA DueIs ==
  /\ op.pc \in {"persist", "flip"} => Due = 4
  /\ op.pc = "start" => Due = 3
  /\ op.pc \in {"reuse", "boot", "booting", "adopt", "leave", "leaving", "dial"} => Due = 2
  /\ op.pc \in {"dialing", "subscribe"} => Due = 1
  /\ op.pc \in {"idle", "remove", "undo", "abandon", "abandoning", "poll"} => Due = 0
  /\ Due \in Nat
BY DEF Due

\* The same after the step.
LEMMA DueIsNext ==
  /\ op'.pc \in {"persist", "flip"} => Due' = 4
  /\ op'.pc = "start" => Due' = 3
  /\ op'.pc \in {"reuse", "boot", "booting", "adopt", "leave", "leaving", "dial"} => Due' = 2
  /\ op'.pc \in {"dialing", "subscribe"} => Due' = 1
  /\ op'.pc \in {"idle", "remove", "undo", "abandon", "abandoning", "poll"} => Due' = 0
  /\ op' = op => Due' = Due
BY DEF Due

\* A quit spends once.
LEMMA QuitDueIs ==
  /\ QuitDue = 0 \/ QuitDue = 1
  /\ quit # "done" => QuitDue = 1
  /\ quit' = "done" => QuitDue' = 0
  /\ quit' # "done" => QuitDue' = 1
  /\ quit' = quit => QuitDue' = QuitDue
BY DEF QuitDue

\* The loop of a new generation is still to come.
LEMMA LoopDueMoves ==
  ASSUME TypeOK, LoopsArePast, [Next]_vars
  PROVE  /\ LoopDue = 0 \/ LoopDue = 1
         /\ connGen' = connGen => \/ LoopDue' = LoopDue \/ LoopDue' = 0
                                  \/ Due = 1 /\ Due' = 0 /\ LoopDue' = 1
         /\ connGen' = connGen + 1 => LoopDue' = 0
<1> connGen \in Nat
  BY ConnectionTypes, MaxGenNat
<1>1. CASE connGen' = connGen
  <2>1. CASE op.pc = "subscribe" /\ op'.pc \in {"idle", "poll"}
    BY <1>1, <2>1, DueIs, DueIsNext DEF LoopDue
  <2>2. CASE ~(op.pc = "subscribe" /\ op'.pc \in {"idle", "poll"})
    BY <1>1, <2>2, LoopsMove DEF StartsNoOther, LoopDue
  <2> QED
    BY <2>1, <2>2
<1>2. CASE connGen' = connGen + 1
  BY <1>2, LoopsMove DEF StartsNoOther, LoopDue, LoopsArePast
<1> QED
  BY <1>1, <1>2, GenMoves

\* Every teardown is paid for by the call, the loop or the quit that does it.
LEMMA SpendStep ==
  ASSUME TypeOK, LoopsArePast, Spends, [Next]_vars
  PROVE  Spends'
<1> USE DEF Failed, Succeeded, Goto, Take, DisconnectLocked, HideHandle, DegradeConnection,
       connection
<1> op \in OpType
  BY Types
<1> connGen \in Nat /\ transitions \in Nat
  BY ConnectionTypes, MaxGenNat
<1>a. /\ LoopDue = 0 \/ LoopDue = 1
      /\ connGen' = connGen => \/ LoopDue' = LoopDue \/ LoopDue' = 0
                               \/ Due = 1 /\ Due' = 0 /\ LoopDue' = 1
      /\ connGen' = connGen + 1 => LoopDue' = 0
  BY LoopDueMoves
<1>b. (Done => op'.pc = "idle") /\ (op = Idle => op.pc = "idle")
  BY IdlePc DEF Done
<1>c. Due \in Nat /\ (QuitDue = 0 \/ QuitDue = 1)
  BY DueIs, QuitDueIs
<1>1. ASSUME NEW m \in ModeCalls, SetNodeMode(m) PROVE Spends'
  <2>1. Due = 0 /\ Due' = 4
    BY <1>1, <1>b, DueIs, DueIsNext, QuitDueIs DEF SetNodeMode, OpType
  <2>2. connGen' = connGen /\ transitions' = transitions + 1 /\ QuitDue' = QuitDue
    BY <1>1, <1>b, DueIs, DueIsNext, QuitDueIs DEF SetNodeMode, OpType
  <2> QED
    BY <1>a, <1>c, <2>1, <2>2 DEF Spends
<1>2. ASSUME NEW u \in Urls, SetNodeURL(u) PROVE Spends'
  <2>1. Due' = Due \/ (Due = 0 /\ Due' = 2)
    <3>1. op' = op \/ (op.pc = "idle" /\ op'.pc = "dial" /\ op'.ep = u)
      BY <1>2, URLMoves
    <3> QED
      BY <3>1, DueIs, DueIsNext
  <2>2. connGen' = connGen /\ transitions' = transitions + 1 /\ QuitDue' = QuitDue
    BY <1>2, URLMoves, DueIs, DueIsNext, QuitDueIs
  <2> QED
    BY <1>a, <1>c, <2>1, <2>2 DEF Spends
<1>3. CASE Connect
  <2>1. Due = 0 /\ (Due' = 3 \/ Due' = 2)
    BY <1>3, <1>b, DueIs, DueIsNext, QuitDueIs DEF Connect, OpType
  <2>2. connGen' = connGen /\ transitions' = transitions + 1 /\ QuitDue' = QuitDue
    BY <1>3, <1>b, DueIs, DueIsNext, QuitDueIs DEF Connect, OpType
  <2> QED
    BY <1>a, <1>c, <2>1, <2>2 DEF Spends
<1>4. CASE Disconnect
  <2>1. Due' = Due
    BY <1>4, <1>b, DueIs, DueIsNext, QuitDueIs DEF Disconnect, OpType
  <2>2. connGen' = connGen + 1 /\ transitions' = transitions + 1 /\ QuitDue' = QuitDue
    BY <1>4, <1>b, DueIs, DueIsNext, QuitDueIs DEF Disconnect, OpType
  <2> QED
    BY <1>a, <1>c, <2>1, <2>2 DEF Spends
<1>5. CASE DeleteEmbeddedData
  <2>1. Due = 0 /\ Due' = 0
    BY <1>5, <1>b, DueIs, DueIsNext, QuitDueIs DEF DeleteEmbeddedData, OpType
  <2>2. connGen' = connGen /\ transitions' = transitions + 1 /\ QuitDue' = QuitDue
    BY <1>5, <1>b, DueIs, DueIsNext, QuitDueIs DEF DeleteEmbeddedData, OpType
  <2> QED
    BY <1>a, <1>c, <2>1, <2>2 DEF Spends
<1>6. CASE PersistMode
  <2>1. Due = 4 /\ (Due' = 4 \/ Due' = 0)
    BY <1>6, <1>b, DueIs, DueIsNext, QuitDueIs DEF PersistMode, OpType
  <2>2. connGen' = connGen /\ transitions' = transitions /\ QuitDue' = QuitDue
    BY <1>6, <1>b, DueIs, DueIsNext, QuitDueIs DEF PersistMode, OpType
  <2> QED
    BY <1>a, <1>c, <2>1, <2>2 DEF Spends
<1>7. CASE FlipMode
  <2>1. Due = 4 /\ (Due' = 3 \/ Due' = 2)
    BY <1>7, <1>b, DueIs, DueIsNext, QuitDueIs DEF FlipMode, OpType
  <2>2. connGen' = connGen + 1 /\ transitions' = transitions /\ QuitDue' = QuitDue
    BY <1>7, <1>b, DueIs, DueIsNext, QuitDueIs DEF FlipMode, OpType
  <2> QED
    BY <1>a, <1>c, <2>1, <2>2 DEF Spends
<1>8. CASE RemoveData
  <2>1. Due = 0 /\ Due' = 0
    BY <1>8, <1>b, DueIs, DueIsNext, QuitDueIs DEF RemoveData, OpType
  <2>2. connGen' = connGen /\ transitions' = transitions /\ QuitDue' = QuitDue
    BY <1>8, <1>b, DueIs, DueIsNext, QuitDueIs DEF RemoveData, OpType
  <2> QED
    BY <1>a, <1>c, <2>1, <2>2 DEF Spends
<1>9. CASE BeginDial
  <2>1. Due = 2 /\ Due' = 1
    BY <1>9, <1>b, DueIs, DueIsNext, QuitDueIs DEF BeginDial, OpType
  <2>2. connGen' = connGen + 1 /\ transitions' = transitions /\ QuitDue' = QuitDue
    BY <1>9, <1>b, DueIs, DueIsNext, QuitDueIs DEF BeginDial, OpType
  <2> QED
    BY <1>a, <1>c, <2>1, <2>2 DEF Spends
<1>10. CASE DialFails
  <2>1. Due = 1 /\ Due' = 0
    BY <1>10, <1>b, DueIs, DueIsNext, QuitDueIs DEF DialFails, OpType
  <2>2. connGen' = connGen /\ transitions' = transitions /\ QuitDue' = QuitDue
    BY <1>10, <1>b, DueIs, DueIsNext, QuitDueIs DEF DialFails, OpType
  <2> QED
    BY <1>a, <1>c, <2>1, <2>2 DEF Spends
<1>11. CASE InstallConnection
  <2>1. Due = 1 /\ (Due' = 1 \/ Due' = 0)
    BY <1>11, <1>b, DueIs, DueIsNext, QuitDueIs DEF InstallConnection, OpType
  <2>2. connGen' = connGen /\ transitions' = transitions /\ QuitDue' = QuitDue
    BY <1>11, <1>b, DueIs, DueIsNext, QuitDueIs DEF InstallConnection, OpType
  <2> QED
    BY <1>a, <1>c, <2>1, <2>2 DEF Spends
<1>12. CASE SubscribeFails
  <2>1. Due = 1 /\ Due' = 0
    BY <1>12, <1>b, DueIs, DueIsNext, QuitDueIs DEF SubscribeFails, OpType
  <2>2. (connGen' = connGen \/ connGen' = connGen + 1) /\ transitions' = transitions /\ QuitDue' = QuitDue
    BY <1>12, <1>b, DueIs, DueIsNext, QuitDueIs DEF SubscribeFails, OpType
  <2> QED
    BY <1>a, <1>c, <2>1, <2>2 DEF Spends
<1>13. CASE StartMomentumLoop
  <2>1. Due = 1 /\ Due' = 0
    BY <1>13, <1>b, DueIs, DueIsNext, QuitDueIs DEF StartMomentumLoop, OpType
  <2>2. connGen' = connGen /\ transitions' = transitions /\ QuitDue' = QuitDue
    BY <1>13, <1>b, DueIs, DueIsNext, QuitDueIs DEF StartMomentumLoop, OpType
  <2> QED
    BY <1>a, <1>c, <2>1, <2>2 DEF Spends
<1>14. CASE StartEmbedded
  <2>1. Due = 3 /\ ((Due' = 0 /\ connGen' = connGen) \/ (Due' = 2 /\ connGen' = connGen + 1))
    <3>1. CASE wedged \/ stopping
      <4>1. op.pc = "start" /\ op'.pc = "idle" /\ connGen' = connGen
        BY <1>14, <1>b, <3>1 DEF StartEmbedded
      <4> QED
        BY <4>1, DueIs, DueIsNext
    <3>2. CASE ~(wedged \/ stopping)
      <4>1. op.pc = "start" /\ op'.pc \in {"reuse", "boot"} /\ connGen' = connGen + 1
        BY <1>14, <3>2 DEF StartEmbedded, OpType
      <4> QED
        BY <4>1, DueIs, DueIsNext
    <3> QED
      BY <3>1, <3>2
  <2>2. transitions' = transitions /\ QuitDue' = QuitDue
    BY <1>14, <1>b, DueIs, DueIsNext, QuitDueIs DEF StartEmbedded, OpType
  <2> QED
    BY <1>a, <1>c, <2>1, <2>2 DEF Spends
<1>15. CASE Reuse
  <2>1. Due = 2 /\ Due' = 2
    BY <1>15, <1>b, DueIs, DueIsNext, QuitDueIs DEF Reuse, OpType
  <2>2. connGen' = connGen /\ transitions' = transitions /\ QuitDue' = QuitDue
    BY <1>15, <1>b, DueIs, DueIsNext, QuitDueIs DEF Reuse, OpType
  <2> QED
    BY <1>a, <1>c, <2>1, <2>2 DEF Spends
<1>16. CASE Boot
  <2>1. Due = 2 /\ (Due' = 2 \/ Due' = 0)
    BY <1>16, <1>b, DueIs, DueIsNext, QuitDueIs DEF Boot, OpType
  <2>2. connGen' = connGen /\ transitions' = transitions /\ QuitDue' = QuitDue
    BY <1>16, <1>b, DueIs, DueIsNext, QuitDueIs DEF Boot, OpType
  <2> QED
    BY <1>a, <1>c, <2>1, <2>2 DEF Spends
<1>17. CASE Booted
  <2>1. Due = 2 /\ (Due' = 2 \/ Due' = 0)
    BY <1>17, <1>b, DueIs, DueIsNext, QuitDueIs DEF Booted, OpType
  <2>2. connGen' = connGen /\ transitions' = transitions /\ QuitDue' = QuitDue
    BY <1>17, <1>b, DueIs, DueIsNext, QuitDueIs DEF Booted, OpType
  <2> QED
    BY <1>a, <1>c, <2>1, <2>2 DEF Spends
<1>17b. CASE BootFails
  <2>1. (Due = 2 \/ Due = 0) /\ Due' = 0
    BY <1>17b, <1>b, DueIs, DueIsNext, QuitDueIs DEF BootFails, OpType
  <2>2. connGen' = connGen /\ transitions' = transitions /\ QuitDue' = QuitDue
    BY <1>17b, <1>b, DueIs, DueIsNext, QuitDueIs DEF BootFails, OpType
  <2> QED
    BY <1>a, <1>c, <2>1, <2>2 DEF Spends
<1>18. CASE AdoptHandle
  <2>1. Due = 2 /\ Due' = 2
    BY <1>18, <1>b, DueIs, DueIsNext, QuitDueIs DEF AdoptHandle, OpType
  <2>2. connGen' = connGen /\ transitions' = transitions /\ QuitDue' = QuitDue
    BY <1>18, <1>b, DueIs, DueIsNext, QuitDueIs DEF AdoptHandle, OpType
  <2> QED
    BY <1>a, <1>c, <2>1, <2>2 DEF Spends
<1>19. CASE StopEmbedded
  <2>1. \/ Due = 2 /\ Due' = 2
        \/ Due = 0 /\ Due' = 0
    BY <1>19, <1>b, DueIs, DueIsNext, QuitDueIs DEF StopEmbedded, OpType
  <2>2. connGen' = connGen /\ transitions' = transitions /\ QuitDue' = QuitDue
    BY <1>19, <1>b, DueIs, DueIsNext, QuitDueIs DEF StopEmbedded, OpType
  <2> QED
    BY <1>a, <1>c, <2>1, <2>2 DEF Spends
<1>20. CASE StopAwaited
  <2>1. \/ Due = 2 /\ Due' = 2
        \/ Due = 0 /\ Due' = 0
    BY <1>20, <1>b, DueIs, DueIsNext, QuitDueIs DEF StopAwaited, OpType
  <2>2. connGen' = connGen /\ transitions' = transitions /\ QuitDue' = QuitDue
    BY <1>20, <1>b, DueIs, DueIsNext, QuitDueIs DEF StopAwaited, OpType
  <2> QED
    BY <1>a, <1>c, <2>1, <2>2 DEF Spends
<1>21. CASE StartSyncPoller
  <2>1. Due = 0 /\ Due' = 0
    BY <1>21, <1>b, DueIs, DueIsNext, QuitDueIs DEF StartSyncPoller, OpType
  <2>2. connGen' = connGen /\ transitions' = transitions /\ QuitDue' = QuitDue
    BY <1>21, <1>b, DueIs, DueIsNext, QuitDueIs DEF StartSyncPoller, OpType
  <2> QED
    BY <1>a, <1>c, <2>1, <2>2 DEF Spends
<1>22. CASE QuitStops
  <2>1. Due' = Due
    BY <1>22, <1>b, DueIs, DueIsNext, QuitDueIs DEF QuitStops, OpType
  <2>2. connGen' = connGen /\ transitions' = transitions /\ QuitDue' = QuitDue
    BY <1>22, <1>b, DueIs, DueIsNext, QuitDueIs DEF QuitStops, OpType
  <2> QED
    BY <1>a, <1>c, <2>1, <2>2 DEF Spends
<1>23. CASE QuitAwaits
  <2>1. Due' = Due
    BY <1>23, <1>b, DueIs, DueIsNext, QuitDueIs DEF QuitAwaits, OpType
  <2>2. connGen' = connGen /\ transitions' = transitions /\ QuitDue' = QuitDue
    BY <1>23, <1>b, DueIs, DueIsNext, QuitDueIs DEF QuitAwaits, OpType
  <2> QED
    BY <1>a, <1>c, <2>1, <2>2 DEF Spends
<1>24. CASE QuitDisconnects
  <2>1. Due' = Due
    BY <1>24, <1>b, DueIs, DueIsNext, QuitDueIs DEF QuitDisconnects, OpType
  <2>2. connGen' = connGen + 1 /\ transitions' = transitions /\ QuitDue = 1 /\ QuitDue' = 0
    BY <1>24, <1>b, DueIs, DueIsNext, QuitDueIs DEF QuitDisconnects, OpType
  <2> QED
    BY <1>a, <1>c, <2>1, <2>2 DEF Spends
<1>25. ASSUME NEW g \in Gens, LoopClosed(g) PROVE Spends'
  <2>1. Due' = Due
    BY <1>25, <1>b, ConnectionTypes, DueIs, DueIsNext, QuitDueIs DEF LoopClosed, OpType
  <2>2. (connGen' = connGen \/ (connGen' = connGen + 1 /\ LoopDue = 1)) /\ transitions' = transitions /\ QuitDue' = QuitDue
    <3>1. g = connGen => LoopDue = 1
      BY <1>25 DEF LoopClosed, LoopDue
    <3>2. connGen' = connGen \/ (g = connGen /\ connGen' = connGen + 1)
      <4>1. CASE connGen = g
        BY <1>25, <4>1 DEF LoopClosed
      <4>2. CASE connGen # g
        BY <1>25, <4>2 DEF LoopClosed
      <4> QED
        BY <4>1, <4>2
    <3> QED
      BY <1>25, <3>1, <3>2, QuitDueIs DEF LoopClosed
  <2> QED
    BY <1>a, <1>c, <2>1, <2>2 DEF Spends
<1>26. CASE UNCHANGED <<op, connGen, quit, transitions>>
  <2>1. Due' = Due /\ QuitDue' = QuitDue
    BY <1>26, DueIsNext, QuitDueIs
  <2> QED
    BY <1>a, <1>c, <1>26, <2>1 DEF Spends
<1> QED
  BY <1>1, <1>2, <1>3, <1>4, <1>5, <1>6, <1>7, <1>8, <1>9, <1>10, <1>11, <1>12, <1>13,
     <1>14, <1>15, <1>16, <1>17, <1>17b, <1>18, <1>19, <1>20, <1>21, <1>22, <1>23, <1>24, <1>25,
     <1>26
     DEF Next, Call, Transition, Quit, Worker, vars, connection, workers, lifecycle,
         StopTakesMutex, StopReturns, LoopStops, Tick, ComposeStatus, EmitStatus,
         PollerStops, PollSample, NoteSyncHeight

-----------------------------------------------------------------------------
(* The intent to connect and its loop.                                     *)

\* The calls stay within their bound.
LEMMA TransitionsStep ==
  ASSUME TypeOK, [Next]_vars
  PROVE  transitions' \in 0..MaxTransitions
<1> transitions \in 0..MaxTransitions
  BY DEF TypeOK
<1> MaxTransitions \in Nat
  BY NodeAssumption
<1>1. transitions' = transitions \/ (transitions < MaxTransitions /\ transitions' = transitions + 1)
  BY DEF Next, Call, Transition, Quit, Worker, Take, vars,
         SetNodeMode, SetNodeURL, Connect, Disconnect, DeleteEmbeddedData, PersistMode, FlipMode,
         RemoveData, BeginDial, DialFails, InstallConnection, SubscribeFails, StartMomentumLoop,
         StartEmbedded, Reuse, Boot, Booted, BootFails, AdoptHandle, StopEmbedded, StopAwaited,
         StartSyncPoller, QuitStops, QuitAwaits, QuitDisconnects, StopTakesMutex, StopReturns,
         LoopStops, LoopClosed, Tick, ComposeStatus, EmitStatus, PollerStops, PollSample,
         NoteSyncHeight
<1> QED
  BY <1>1

\* The generations are enough for every teardown there can be.
LEMMA GenBound ==
  ASSUME TypeOK, LoopsArePast, Spends, [Next]_vars
  PROVE  connGen' \in 0..MaxGen
<1>1. transitions' \in 0..MaxTransitions /\ MaxTransitions \in Nat
  BY TransitionsStep, NodeAssumption
<1>2. connGen' \in Nat
  BY ConnectionTypes, GenMoves, MaxGenNat
<1>3. Due' \in Nat /\ LoopDue' \in Nat /\ QuitDue' \in Nat
  BY DEF Due, LoopDue, QuitDue
<1>4. connGen' + Due' + LoopDue' + QuitDue' <= 4 * transitions' + 1
  BY SpendStep DEF Spends
<1>5. \A c \in Nat, t \in 0..MaxTransitions, d \in Nat, l \in Nat, q \in Nat :
        c + d + l + q <= 4 * t + 1 => c \in 0..MaxGen
  BY NodeAssumption DEF MaxGen
<1> QED
  BY <1>1, <1>2, <1>3, <1>4, <1>5

\* Nobody but the transition tears down while it dials: it holds opMu, and no
\* loop of its generation exists yet.
LEMMA ConnectingStep ==
  ASSUME TypeOK, LoopsArePast, Spends, Connecting, [Next]_vars
  PROVE  Connecting'
<1> USE DEF Connecting, StartsNoOther, Failed, Succeeded, Goto, Take, DisconnectLocked,
       HideHandle, DegradeConnection, connection, workers, LoopsArePast
<1> op \in OpType
  BY Types
<1>a. (Done => op'.pc = "idle") /\ (op = Idle => op.pc = "idle")
  BY IdlePc DEF Done
<1>b. connGen \in 0..MaxGen /\ connGen' \in 0..MaxGen /\ MaxGen \in Nat
  BY ConnectionTypes, GenBound, MaxGenNat
<1>c. loop \in LoopsType /\ StartsNoOther
  BY ConnectionTypes, LoopsMove
<1>1. ASSUME NEW m \in ModeCalls, SetNodeMode(m) PROVE Connecting'
  BY <1>1, <1>a, <1>b, <1>c DEF SetNodeMode, OpType
<1>2. ASSUME NEW u \in Urls, SetNodeURL(u) PROVE Connecting'
  BY <1>2, <1>a, <1>b, <1>c, URLMoves
<1>3. CASE Connect
  BY <1>3, <1>a, <1>b, <1>c DEF Connect, OpType
<1>4. CASE Disconnect
  BY <1>4, <1>a, <1>b, <1>c DEF Disconnect, OpType
<1>5. CASE DeleteEmbeddedData
  BY <1>5, <1>a, <1>b, <1>c DEF DeleteEmbeddedData, OpType
<1>6. CASE PersistMode
  BY <1>6, <1>a, <1>b, <1>c DEF PersistMode, OpType
<1>7. CASE FlipMode
  BY <1>7, <1>a, <1>b, <1>c DEF FlipMode, OpType
<1>8. CASE RemoveData
  BY <1>8, <1>a, <1>b, <1>c DEF RemoveData, OpType
<1>9. CASE BeginDial
  <2>1. /\ op'.pc = "dialing" /\ op'.gen = connGen' /\ connGen' = connGen + 1
        /\ client' = NoClient /\ loop' = loop
    BY <1>9 DEF BeginDial, OpType
  <2>2. connGen' \in Gens /\ connGen' > connGen
    BY <2>1, <1>b DEF Gens
  <2> QED
    BY <2>1, <2>2
<1>10. CASE DialFails
  BY <1>10, <1>a, <1>b, <1>c DEF DialFails, OpType
<1>11. CASE InstallConnection
  BY <1>11, <1>a, <1>b, <1>c DEF InstallConnection, OpType
<1>12. CASE SubscribeFails
  BY <1>12, <1>a, <1>b, <1>c DEF SubscribeFails, OpType
<1>13. CASE StartMomentumLoop
  BY <1>13, <1>a, <1>b, <1>c DEF StartMomentumLoop, OpType
<1>14. CASE StartEmbedded
  BY <1>14, <1>a, <1>b, <1>c DEF StartEmbedded, OpType
<1>15. CASE Reuse
  BY <1>15, <1>a, <1>b, <1>c DEF Reuse, OpType
<1>16. CASE Boot
  BY <1>16, <1>a, <1>b, <1>c DEF Boot, OpType
<1>17. CASE Booted
  BY <1>17, <1>a, <1>b, <1>c DEF Booted, OpType
<1>17b. CASE BootFails
  BY <1>17b, <1>a, <1>b, <1>c DEF BootFails, OpType
<1>18. CASE AdoptHandle
  BY <1>18, <1>a, <1>b, <1>c DEF AdoptHandle, OpType
<1>19. CASE StopEmbedded
  BY <1>19, <1>a, <1>b, <1>c DEF StopEmbedded, OpType
<1>20. CASE StopAwaited
  BY <1>20, <1>a, <1>b, <1>c DEF StopAwaited, OpType
<1>21. CASE StartSyncPoller
  BY <1>21, <1>a, <1>b, <1>c DEF StartSyncPoller, OpType
<1>22. CASE QuitDisconnects
  BY <1>22, <1>a, <1>b, <1>c DEF QuitDisconnects, OpType
<1>23. ASSUME NEW g \in Gens, LoopStops(g) PROVE Connecting'
  BY <1>23, <1>a, <1>b, <1>c DEF LoopStops, OpType
<1>24. ASSUME NEW g \in Gens, LoopClosed(g) PROVE Connecting'
  BY <1>24, <1>a, <1>b, <1>c DEF LoopClosed, OpType
<1>25. ASSUME NEW g \in Gens, Tick(g) PROVE Connecting'
  BY <1>25, <1>a, <1>b, <1>c DEF Tick, OpType
<1>26. ASSUME NEW g \in Gens, ComposeStatus(g) PROVE Connecting'
  BY <1>26, <1>a, <1>b, <1>c DEF ComposeStatus, OpType
<1>27. ASSUME NEW g \in Gens, EmitStatus(g) PROVE Connecting'
  BY <1>27, <1>a, <1>b, <1>c DEF EmitStatus, OpType
<1>28. CASE UNCHANGED <<op, connGen, client, loop>>
  BY <1>28
<1> QED
  BY <1>1, <1>2, <1>3, <1>4, <1>5, <1>6, <1>7, <1>8, <1>9, <1>10, <1>11, <1>12, <1>13,
     <1>14, <1>15, <1>16, <1>17, <1>17b, <1>18, <1>19, <1>20, <1>21, <1>22, <1>23, <1>24, <1>25,
     <1>26, <1>27, <1>28
     DEF Next, Call, Transition, Quit, Worker, vars, connection, workers, lifecycle,
         QuitStops, QuitAwaits, StopTakesMutex, StopReturns, PollerStops, PollSample,
         NoteSyncHeight

\* A client is installed with its loop to come and torn down with its chain.
LEMMA ConnectedStep ==
  ASSUME TypeOK, OpFields, Connecting, Connected, [Next]_vars
  PROVE  Connected'
<1> USE DEF Connected, ClientOfIntent, Connecting, OpFields, Failed, Succeeded, Goto, Take,
       DisconnectLocked, HideHandle, DegradeConnection, connection, workers, NoClient, NoLoop
<1> op \in OpType
  BY Types
<1>a. (Done => op'.pc = "idle") /\ (op = Idle => op.pc = "idle")
  BY IdlePc DEF Done
<1>b. connGen \in 0..MaxGen /\ MaxGen \in Nat
  BY ConnectionTypes, MaxGenNat
<1>c. loop \in LoopsType
  BY ConnectionTypes
<1>d. NoEndpoint \notin Endpoints
  BY NodeAssumption
<1>1. ASSUME NEW m \in ModeCalls, SetNodeMode(m) PROVE Connected'
  BY <1>1, <1>a, <1>b, <1>c, <1>d DEF SetNodeMode, OpType, LoopsType
<1>2. ASSUME NEW u \in Urls, SetNodeURL(u) PROVE Connected'
  BY <1>2, <1>a, <1>b, <1>c, <1>d, URLMoves
<1>3. CASE Connect
  BY <1>3, <1>a, <1>b, <1>c, <1>d DEF Connect, OpType, LoopsType
<1>4. CASE Disconnect
  BY <1>4, <1>a, <1>b, <1>c, <1>d DEF Disconnect, OpType, LoopsType
<1>5. CASE DeleteEmbeddedData
  BY <1>5, <1>a, <1>b, <1>c, <1>d DEF DeleteEmbeddedData, OpType, LoopsType
<1>6. CASE PersistMode
  BY <1>6, <1>a, <1>b, <1>c, <1>d DEF PersistMode, OpType, LoopsType
<1>7. CASE FlipMode
  BY <1>7, <1>a, <1>b, <1>c, <1>d DEF FlipMode, OpType, LoopsType
<1>8. CASE RemoveData
  BY <1>8, <1>a, <1>b, <1>c, <1>d DEF RemoveData, OpType, LoopsType
<1>9. CASE BeginDial
  BY <1>9, <1>a, <1>b, <1>c, <1>d DEF BeginDial, OpType, LoopsType
<1>10. CASE DialFails
  BY <1>10, <1>a, <1>b, <1>c, <1>d DEF DialFails, OpType, LoopsType
<1>11. CASE InstallConnection
  <2>1. connGen = op.gen /\ connGen \in Gens /\ op.ep \in Endpoints
    BY <1>11 DEF InstallConnection
  <2>2. /\ client' = [ep |-> op.ep, gen |-> connGen] /\ chainID' = Chain[op.ep]
        /\ op'.pc = "subscribe" /\ UNCHANGED <<connGen, loop>>
    BY <1>11, <2>1 DEF InstallConnection, OpType
  <2> QED
    BY <1>d, <2>1, <2>2
<1>12. CASE SubscribeFails
  BY <1>12, <1>a, <1>b, <1>c, <1>d DEF SubscribeFails, OpType, LoopsType
<1>13. CASE StartMomentumLoop
  <2>1. connGen = op.gen /\ connGen \in Gens /\ client = [ep |-> op.ep, gen |-> op.gen]
    BY <1>13 DEF StartMomentumLoop
  <2>2. op.ep \in Endpoints /\ op'.pc # "subscribe"
    BY <1>13, <1>a DEF StartMomentumLoop, OpType
  <2>3. /\ stop' = connGen /\ UNCHANGED <<client, connGen, chainID>>
        /\ loop' = [loop EXCEPT ![connGen] = [at |-> "select", ep |-> op.ep, snap |-> Down]]
    BY <1>13, <2>1 DEF StartMomentumLoop
  <2>4. \A h \in Gens : loop'[h].at # "none" => loop'[h].ep \in Endpoints
    BY <1>c, <2>2, <2>3 DEF LoopsType
  <2>5. loop'[connGen].at = "select" /\ loop'[connGen].ep = op.ep
    BY <1>c, <2>1, <2>3 DEF LoopsType
  <2> QED
    BY <2>1, <2>2, <2>3, <2>4, <2>5
<1>14. CASE StartEmbedded
  BY <1>14, <1>a, <1>b, <1>c, <1>d DEF StartEmbedded, OpType, LoopsType
<1>15. CASE Reuse
  BY <1>15, <1>a, <1>b, <1>c, <1>d DEF Reuse, OpType, LoopsType
<1>16. CASE Boot
  BY <1>16, <1>a, <1>b, <1>c, <1>d DEF Boot, OpType, LoopsType
<1>17. CASE Booted
  BY <1>17, <1>a, <1>b, <1>c, <1>d DEF Booted, OpType, LoopsType
<1>17b. CASE BootFails
  BY <1>17b, <1>a, <1>b, <1>c, <1>d DEF BootFails, OpType, LoopsType
<1>18. CASE AdoptHandle
  BY <1>18, <1>a, <1>b, <1>c, <1>d DEF AdoptHandle, OpType, LoopsType
<1>19. CASE StopEmbedded
  BY <1>19, <1>a, <1>b, <1>c, <1>d DEF StopEmbedded, OpType, LoopsType
<1>20. CASE StopAwaited
  BY <1>20, <1>a, <1>b, <1>c, <1>d DEF StopAwaited, OpType, LoopsType
<1>21. CASE StartSyncPoller
  BY <1>21, <1>a, <1>b, <1>c, <1>d DEF StartSyncPoller, OpType, LoopsType
<1>22. CASE QuitDisconnects
  BY <1>22, <1>a, <1>b, <1>c, <1>d DEF QuitDisconnects, OpType, LoopsType
<1>23. ASSUME NEW g \in Gens, LoopStops(g) PROVE Connected'
  BY <1>23, <1>a, <1>b, <1>c, <1>d DEF LoopStops, OpType, LoopsType
<1>24. ASSUME NEW g \in Gens, LoopClosed(g) PROVE Connected'
  BY <1>24, <1>a, <1>b, <1>c, <1>d DEF LoopClosed, OpType, LoopsType
<1>25. ASSUME NEW g \in Gens, Tick(g) PROVE Connected'
  BY <1>25, <1>a, <1>b, <1>c, <1>d DEF Tick, OpType, LoopsType
<1>26. ASSUME NEW g \in Gens, ComposeStatus(g) PROVE Connected'
  BY <1>26, <1>a, <1>b, <1>c, <1>d DEF ComposeStatus, OpType, LoopsType
<1>27. ASSUME NEW g \in Gens, EmitStatus(g) PROVE Connected'
  <2>1. \A h \in Gens : loop'[h].at # "none" /\ loop[g].at # "none" =>
          loop[h].at # "none" /\ loop'[h].ep = loop[h].ep
    BY <1>27, <1>c DEF EmitStatus, LoopsType
  <2>2. \A h \in Gens : loop[h].at # "none" => loop'[h].at # "none"
    BY <1>27, <1>c DEF EmitStatus, LoopsType
  <2>3. loop[g].at # "none" /\ UNCHANGED <<op, client, connGen, chainID, stop>>
    BY <1>27 DEF EmitStatus
  <2> QED
    BY <2>1, <2>2, <2>3
<1>28. CASE UNCHANGED <<op, client, connGen, chainID, stop, loop>>
  BY <1>28
<1> QED
  BY <1>1, <1>2, <1>3, <1>4, <1>5, <1>6, <1>7, <1>8, <1>9, <1>10, <1>11, <1>12, <1>13,
     <1>14, <1>15, <1>16, <1>17, <1>17b, <1>18, <1>19, <1>20, <1>21, <1>22, <1>23, <1>24, <1>25,
     <1>26, <1>27, <1>28
     DEF Next, Call, Transition, Quit, Worker, vars, connection, workers, lifecycle,
         QuitStops, QuitAwaits, StopTakesMutex, StopReturns, PollerStops, PollSample,
         NoteSyncHeight

-----------------------------------------------------------------------------
(* Every field keeps its type.                                             *)

ControlTypes ==
  /\ settings \in SettingsType /\ mode \in Modes \cup {""}
  /\ embedded \in BOOLEAN /\ stopping \in BOOLEAN /\ wedged \in BOOLEAN
  /\ node \in {"off", "booting", "up", "condemned", "halting"}
  /\ quit \in {"running", "stopping", "stopped", "done"}

\* The settings, the handle and the flags keep their types.
LEMMA ControlTypesStep ==
  ASSUME TypeOK, OpFields, [Next]_vars
  PROVE  ControlTypes'
<1> USE DEF ControlTypes, OpFields, HideHandle, StopLanded, StopTimedOut, lifecycle
<1>a. /\ op \in OpType /\ settings \in SettingsType /\ mode \in Modes \cup {""}
      /\ embedded \in BOOLEAN /\ stopping \in BOOLEAN /\ wedged \in BOOLEAN
      /\ node \in {"off", "booting", "up", "condemned", "halting"}
      /\ quit \in {"running", "stopping", "stopped", "done"}
  BY DEF TypeOK, OpType, SettingsType
<1>b. ModeCalls \subseteq Modes /\ Urls \subseteq Remotes
  BY NodeAssumption
<1>1. ASSUME NEW u \in Urls, SetNodeURL(u) PROVE ControlTypes'
  BY <1>1, <1>a, <1>b DEF SetNodeURL, SettingsType, OpType
<1>2. CASE Connect
  BY <1>2, <1>a, <1>b DEF Connect, SettingsType, OpType
<1>3. CASE PersistMode
  BY <1>3, <1>a, <1>b DEF PersistMode, SettingsType, OpType
<1>4. CASE FlipMode
  BY <1>4, <1>a, <1>b DEF FlipMode, SettingsType, OpType
<1>5. CASE Boot
  BY <1>5, <1>a, <1>b DEF Boot, SettingsType, OpType
<1>6. CASE Booted
  BY <1>6, <1>a, <1>b DEF Booted, SettingsType, OpType
<1>6b. CASE BootFails
  BY <1>6b, <1>a, <1>b DEF BootFails, SettingsType, OpType
<1>7. CASE AdoptHandle
  BY <1>7, <1>a, <1>b DEF AdoptHandle, SettingsType, OpType
<1>8. CASE StopEmbedded
  BY <1>8, <1>a, <1>b DEF StopEmbedded, SettingsType, OpType
<1>9. CASE StopAwaited
  BY <1>9, <1>a, <1>b DEF StopAwaited, SettingsType, OpType
<1>10. CASE QuitStops
  BY <1>10, <1>a, <1>b DEF QuitStops, SettingsType, OpType
<1>11. CASE QuitAwaits
  BY <1>11, <1>a, <1>b DEF QuitAwaits, SettingsType, OpType
<1>12. CASE QuitDisconnects
  BY <1>12, <1>a, <1>b DEF QuitDisconnects, SettingsType, OpType
<1>13. CASE StopTakesMutex
  BY <1>13, <1>a, <1>b DEF StopTakesMutex, SettingsType, OpType
<1>14. CASE StopReturns
  BY <1>14, <1>a, <1>b DEF StopReturns, SettingsType, OpType
<1>15. CASE UNCHANGED <<settings, mode, lifecycle, quit>>
  BY <1>15, <1>a
<1> QED
  BY <1>1, <1>2, <1>3, <1>4, <1>5, <1>6, <1>6b, <1>7, <1>8, <1>9, <1>10, <1>11, <1>12, <1>13,
     <1>14, <1>15
     DEF Next, Call, Transition, Quit, Worker, vars, connection, workers, lifecycle,
         SetNodeMode, Disconnect, DeleteEmbeddedData, RemoveData, BeginDial, DialFails,
         InstallConnection, SubscribeFails, StartMomentumLoop, StartEmbedded, Reuse,
         StartSyncPoller, LoopStops, LoopClosed, Tick, ComposeStatus, EmitStatus,
         PollerStops, PollSample, NoteSyncHeight

\* The record of the transition keeps its type.
LEMMA OpTypeStep ==
  ASSUME TypeOK, LoopsArePast, Spends, [Next]_vars
  PROVE  op' \in OpType
<1> USE DEF Failed, Succeeded, Goto, Take
<1>a. op \in OpType /\ settings \in SettingsType
  BY Types
<1>b. ModeCalls \subseteq Modes /\ Urls \subseteq Remotes
  BY NodeAssumption
<1>c. connGen' \in 0..MaxGen /\ 0 \in 0..MaxGen
  BY GenBound, MaxGenNat
<1>d. Done => op' \in OpType
  <2>1. Idle \in OpType
    BY <1>c DEF Idle, OpType, Modes
  <2> QED
    BY <2>1 DEF Done
<1>1. ASSUME NEW m \in ModeCalls, SetNodeMode(m) PROVE op' \in OpType
  BY <1>1, <1>a, <1>b, <1>c, <1>d DEF SetNodeMode, SettingsType, OpType, Modes, Endpoints
<1>2. ASSUME NEW u \in Urls, SetNodeURL(u) PROVE op' \in OpType
  <2>1. CASE settings.nodeMode = "remote"
    <3>1. /\ op' = [pc |-> "dial", mode |-> "remote", ep |-> u, gen |-> 0, was |-> settings.nodeMode]
          /\ u \in Endpoints /\ settings.nodeMode \in Modes
      BY <1>2, <2>1, <1>a, <1>b DEF SetNodeURL, SettingsType, Endpoints
    <3> QED
      BY <3>1, <1>c DEF OpType, Modes
  <2>2. CASE settings.nodeMode # "remote"
    BY <1>2, <2>2, <1>a DEF SetNodeURL
  <2> QED
    BY <2>1, <2>2
<1>3. CASE Connect
  BY <1>3, <1>a, <1>b, <1>c, <1>d DEF Connect, SettingsType, OpType, Modes, Endpoints
<1>4. CASE DeleteEmbeddedData
  BY <1>4, <1>a, <1>b, <1>c, <1>d DEF DeleteEmbeddedData, SettingsType, OpType, Modes, Endpoints
<1>5. CASE PersistMode
  BY <1>5, <1>a, <1>b, <1>c, <1>d DEF PersistMode, SettingsType, OpType, Modes, Endpoints
<1>6. CASE FlipMode
  BY <1>6, <1>a, <1>b, <1>c, <1>d DEF FlipMode, SettingsType, OpType, Modes, Endpoints
<1>7. CASE RemoveData
  BY <1>7, <1>a, <1>b, <1>c, <1>d DEF RemoveData, SettingsType, OpType, Modes, Endpoints
<1>8. CASE BeginDial
  BY <1>8, <1>a, <1>b, <1>c, <1>d DEF BeginDial, SettingsType, OpType, Modes, Endpoints
<1>9. CASE DialFails
  BY <1>9, <1>a, <1>b, <1>c, <1>d DEF DialFails, SettingsType, OpType, Modes, Endpoints
<1>10. CASE InstallConnection
  BY <1>10, <1>a, <1>b, <1>c, <1>d DEF InstallConnection, SettingsType, OpType, Modes, Endpoints
<1>11. CASE SubscribeFails
  BY <1>11, <1>a, <1>b, <1>c, <1>d DEF SubscribeFails, SettingsType, OpType, Modes, Endpoints
<1>12. CASE StartMomentumLoop
  BY <1>12, <1>a, <1>b, <1>c, <1>d DEF StartMomentumLoop, SettingsType, OpType, Modes, Endpoints
<1>13. CASE StartEmbedded
  BY <1>13, <1>a, <1>b, <1>c, <1>d DEF StartEmbedded, SettingsType, OpType, Modes, Endpoints
<1>14. CASE Reuse
  BY <1>14, <1>a, <1>b, <1>c, <1>d DEF Reuse, SettingsType, OpType, Modes, Endpoints
<1>15. CASE Boot
  BY <1>15, <1>a, <1>b, <1>c, <1>d DEF Boot, SettingsType, OpType, Modes, Endpoints
<1>16. CASE Booted
  BY <1>16, <1>a, <1>b, <1>c, <1>d DEF Booted, SettingsType, OpType, Modes, Endpoints
<1>16b. CASE BootFails
  BY <1>16b, <1>a, <1>b, <1>c, <1>d DEF BootFails, SettingsType, OpType, Modes, Endpoints
<1>17. CASE AdoptHandle
  BY <1>17, <1>a, <1>b, <1>c, <1>d DEF AdoptHandle, SettingsType, OpType, Modes, Endpoints
<1>18. CASE StopEmbedded
  BY <1>18, <1>a, <1>b, <1>c, <1>d DEF StopEmbedded, SettingsType, OpType, Modes, Endpoints
<1>19. CASE StopAwaited
  BY <1>19, <1>a, <1>b, <1>c, <1>d DEF StopAwaited, SettingsType, OpType, Modes, Endpoints
<1>20. CASE StartSyncPoller
  BY <1>20, <1>a, <1>b, <1>c, <1>d DEF StartSyncPoller, SettingsType, OpType, Modes, Endpoints
<1>21. CASE UNCHANGED op
  BY <1>21, <1>a
<1> QED
  BY <1>1, <1>2, <1>3, <1>4, <1>5, <1>6, <1>7, <1>8, <1>9, <1>10, <1>11, <1>12, <1>13,
     <1>14, <1>15, <1>16, <1>16b, <1>17, <1>18, <1>19, <1>20, <1>21
     DEF Next, Call, Transition, Quit, Worker, vars, connection, workers, lifecycle,
         Disconnect, QuitStops, QuitAwaits, QuitDisconnects, StopTakesMutex, StopReturns,
         LoopStops, LoopClosed, Tick, ComposeStatus, EmitStatus, PollerStops, PollSample,
         NoteSyncHeight

\* The steps that move a connection.
LEMMA ConnectionFrame ==
  ASSUME [Next]_vars
  PROVE  \/ UNCHANGED <<client, chainID, height, stop, syncStop>>
         \/ Disconnect \/ FlipMode \/ BeginDial \/ InstallConnection \/ SubscribeFails \/
            StartMomentumLoop \/ StartEmbedded \/ StopEmbedded \/ StartSyncPoller \/
            QuitStops \/ QuitDisconnects
         \/ \E g \in Gens : LoopClosed(g) \/ Tick(g) \/ NoteSyncHeight(g)
BY DEF Next, Call, Transition, Quit, Worker, vars, connection, SetNodeMode, SetNodeURL,
       Connect, DeleteEmbeddedData, PersistMode, RemoveData, DialFails, Reuse, Boot, Booted, BootFails,
       AdoptHandle, StopAwaited, QuitAwaits, StopTakesMutex, StopReturns, LoopStops,
       ComposeStatus, EmitStatus, PollerStops, PollSample

\* The steps that move a loop.
LEMMA LoopFrame ==
  ASSUME [Next]_vars
  PROVE  \/ UNCHANGED loop
         \/ StartMomentumLoop
         \/ \E g \in Gens : LoopStops(g) \/ LoopClosed(g) \/ Tick(g) \/ ComposeStatus(g)
              \/ EmitStatus(g)
BY DEF Next, Call, Transition, Quit, Worker, vars, workers, SetNodeMode, SetNodeURL,
       Connect, Disconnect, DeleteEmbeddedData, PersistMode, FlipMode, RemoveData,
       BeginDial, DialFails, InstallConnection, SubscribeFails, StartEmbedded, Reuse, Boot,
       Booted, BootFails, AdoptHandle, StopEmbedded, StopAwaited, StartSyncPoller, QuitStops,
       QuitAwaits, QuitDisconnects, StopTakesMutex, StopReturns, PollerStops, PollSample,
       NoteSyncHeight

\* The steps that move a poller.
LEMMA PollerFrame ==
  ASSUME [Next]_vars
  PROVE  \/ UNCHANGED poller
         \/ StartSyncPoller
         \/ \E g \in Gens : PollerStops(g) \/ PollSample(g) \/ NoteSyncHeight(g)
BY DEF Next, Call, Transition, Quit, Worker, vars, workers, SetNodeMode, SetNodeURL,
       Connect, Disconnect, DeleteEmbeddedData, PersistMode, FlipMode, RemoveData,
       BeginDial, DialFails, InstallConnection, SubscribeFails, StartMomentumLoop,
       StartEmbedded, Reuse, Boot, Booted, BootFails, AdoptHandle, StopEmbedded, StopAwaited,
       QuitStops, QuitAwaits, QuitDisconnects, StopTakesMutex, StopReturns, LoopStops,
       LoopClosed, Tick, ComposeStatus, EmitStatus

\* The steps that emit a status.
LEMMA ShownFrame ==
  ASSUME [Next]_vars
  PROVE  \/ UNCHANGED shown
         \/ Disconnect \/ FlipMode \/ DialFails \/ InstallConnection \/ SubscribeFails \/
            Reuse \/ Boot \/ BootFails \/ QuitDisconnects
         \/ \E g \in Gens : LoopClosed(g) \/ EmitStatus(g) \/ NoteSyncHeight(g)
BY DEF Next, Call, Transition, Quit, Worker, vars, SetNodeMode, SetNodeURL, Connect,
       DeleteEmbeddedData, PersistMode, RemoveData, BeginDial, StartMomentumLoop,
       StartEmbedded, Booted, AdoptHandle, StopEmbedded, StopAwaited, StartSyncPoller, QuitStops,
       QuitAwaits, StopTakesMutex, StopReturns, LoopStops, Tick, ComposeStatus, PollerStops,
       PollSample

ConnectionFields ==
  /\ client \in ClientType /\ stop \in 0..MaxGen /\ syncStop \in 0..MaxGen
  /\ chainID \in Nat /\ height \in Nat

\* The client and what is cached of its node keep their types.
LEMMA ConnectionTypesStep ==
  ASSUME TypeOK, OpFields, Connected, [Next]_vars
  PROVE  ConnectionFields'
<1>a. client \in ClientType /\ stop \in 0..MaxGen /\ syncStop \in 0..MaxGen
      /\ chainID \in Nat /\ height \in Nat /\ loop \in LoopsType /\ poller \in PollersType
  BY DEF TypeOK, ClientType, LoopsType, StatusType, ShownType, PollersType
<1>b. 0 \in 0..MaxGen
  BY MaxGenNat
<1>c. op.gen \in 0..MaxGen
  BY Types DEF OpType
<1>d. NoClient \in ClientType
  BY <1>b DEF NoClient, ClientType
<1>e. \A e \in Endpoints : Chain[e] \in Nat /\ Top[e] \in Nat
  BY NodeAssumption
<1>1. CASE Disconnect
  BY <1>1, <1>a, <1>b, <1>c, <1>d, <1>e
     DEF Disconnect, ConnectionFields, OpFields, DisconnectLocked, DegradeConnection, HideHandle,
         connection
<1>2. CASE FlipMode
  BY <1>2, <1>a, <1>b, <1>c, <1>d, <1>e
     DEF FlipMode, ConnectionFields, OpFields, DisconnectLocked, DegradeConnection, HideHandle,
         connection
<1>3. CASE BeginDial
  BY <1>3, <1>a, <1>b, <1>c, <1>d, <1>e
     DEF BeginDial, ConnectionFields, OpFields, DisconnectLocked, DegradeConnection, HideHandle,
         connection
<1>4. CASE InstallConnection
  <2>1. CASE connGen = op.gen
    <3>1. op.ep \in Endpoints /\ client' = [ep |-> op.ep, gen |-> op.gen] /\ chainID' = Chain[op.ep]
          /\ height' \in 0..Top[op.ep] /\ UNCHANGED <<stop, syncStop>>
      BY <1>4, <2>1 DEF InstallConnection, OpFields
    <3>2. client' \in ClientType
      BY <3>1, <1>c DEF ClientType
    <3> QED
      BY <3>1, <3>2, <1>a, <1>e DEF ConnectionFields
  <2>2. CASE connGen # op.gen
    BY <1>4, <2>2, <1>a DEF InstallConnection, ConnectionFields
  <2> QED
    BY <2>1, <2>2
<1>5. CASE SubscribeFails
  <2>1. CASE connGen = op.gen
    BY <1>5, <2>1, <1>b, <1>d
       DEF SubscribeFails, ConnectionFields, DisconnectLocked, DegradeConnection, connection
  <2>2. CASE connGen # op.gen
    BY <1>5, <2>2, <1>a
       DEF SubscribeFails, ConnectionFields, DisconnectLocked, DegradeConnection, connection
  <2> QED
    BY <2>1, <2>2
<1>6. CASE StartMomentumLoop
  BY <1>6, <1>a, <1>b, <1>c, <1>d, <1>e
     DEF StartMomentumLoop, ConnectionFields, OpFields, DisconnectLocked, DegradeConnection,
         HideHandle, connection
<1>7. CASE StartEmbedded
  BY <1>7, <1>a, <1>b, <1>c, <1>d, <1>e
     DEF StartEmbedded, ConnectionFields, OpFields, DisconnectLocked, DegradeConnection,
         HideHandle, connection
<1>8. CASE StopEmbedded
  BY <1>8, <1>a, <1>b, <1>c, <1>d, <1>e
     DEF StopEmbedded, ConnectionFields, OpFields, DisconnectLocked, DegradeConnection,
         HideHandle, connection
<1>9. CASE StartSyncPoller
  BY <1>9, <1>a, <1>b, <1>c, <1>d, <1>e
     DEF StartSyncPoller, ConnectionFields, OpFields, DisconnectLocked, DegradeConnection,
         HideHandle, connection
<1>10. CASE QuitStops
  BY <1>10, <1>a, <1>b, <1>c, <1>d, <1>e
     DEF QuitStops, ConnectionFields, OpFields, DisconnectLocked, DegradeConnection, HideHandle,
         connection
<1>11. CASE QuitDisconnects
  BY <1>11, <1>a, <1>b, <1>c, <1>d, <1>e
     DEF QuitDisconnects, ConnectionFields, OpFields, DisconnectLocked, DegradeConnection,
         HideHandle, connection
<1>12. ASSUME NEW g \in Gens, LoopClosed(g) PROVE ConnectionFields'
  <2>1. CASE connGen = g
    BY <1>12, <2>1, <1>b, <1>d
       DEF LoopClosed, ConnectionFields, DisconnectLocked, DegradeConnection, connection
  <2>2. CASE connGen # g
    BY <1>12, <2>2, <1>a
       DEF LoopClosed, ConnectionFields, DisconnectLocked, DegradeConnection, connection
  <2> QED
    BY <2>1, <2>2
<1>13. ASSUME NEW g \in Gens, Tick(g) PROVE ConnectionFields'
  BY <1>13, <1>a, <1>b, <1>c, <1>d, <1>e
     DEF Tick, ConnectionFields, OpFields, DisconnectLocked, DegradeConnection, HideHandle,
         connection
<1>14. ASSUME NEW g \in Gens, NoteSyncHeight(g) PROVE ConnectionFields'
  <2>1. poller[g].sample \in Nat
    BY <1>a DEF PollersType
  <2> QED
    BY <1>14, <2>1, <1>a DEF NoteSyncHeight, ConnectionFields
<1> QED
  BY <1>a, <1>1, <1>2, <1>3, <1>4, <1>5, <1>6, <1>7, <1>8, <1>9, <1>10, <1>11, <1>12, <1>13,
         <1>14, ConnectionFrame DEF ConnectionFields

\* The loops keep their types.
LEMMA LoopTypesStep ==
  ASSUME TypeOK, [Next]_vars
  PROVE  loop' \in LoopsType
<1>a. mode \in Modes \cup {""} /\ chainID \in Nat /\ loop \in LoopsType /\ poller \in PollersType
      /\ shown \in ShownType /\ op \in OpType
  BY DEF TypeOK, LoopsType, PollersType, StatusType, ShownType, OpType
<1>b. Down \in StatusType /\ NoEndpoint \in Endpoints \cup {NoEndpoint}
  BY DEF Down, StatusType, Modes
<1>c. \A m \in Modes \cup {""}, n \in Nat : \A c \in BOOLEAN : Status(m, c, n) \in StatusType
  BY DEF Status, StatusType, Modes
<1>d. op.ep \in Endpoints \cup {NoEndpoint}
  BY <1>a DEF OpType
<1>1. CASE StartMomentumLoop
  <2>1. [at |-> "select", ep |-> op.ep, snap |-> Down]
          \in [at : {"none", "select", "compose", "emit"}, ep : Endpoints \cup {NoEndpoint}, snap : StatusType]
    BY <1>b, <1>d
  <2>2. loop' = loop \/ loop' = [loop EXCEPT ![op.gen] = [at |-> "select", ep |-> op.ep, snap |-> Down]]
    BY <1>1 DEF StartMomentumLoop
  <2> QED
    BY <1>a, <2>1, <2>2 DEF LoopsType
<1>2. ASSUME NEW g \in Gens, LoopStops(g) PROVE loop' \in LoopsType
  BY <1>2, <1>a, <1>b, <1>c, <1>d DEF LoopStops, LoopsType, NoLoop, workers
<1>3. ASSUME NEW g \in Gens, LoopClosed(g) PROVE loop' \in LoopsType
  BY <1>3, <1>a, <1>b, <1>c, <1>d DEF LoopClosed, LoopsType, NoLoop, workers
<1>4. ASSUME NEW g \in Gens, Tick(g) PROVE loop' \in LoopsType
  BY <1>4, <1>a, <1>b, <1>c, <1>d DEF Tick, LoopsType, NoLoop, workers
<1>5. ASSUME NEW g \in Gens, ComposeStatus(g) PROVE loop' \in LoopsType
  BY <1>5, <1>a, <1>b, <1>c, <1>d DEF ComposeStatus, LoopsType, NoLoop, workers
<1>6. ASSUME NEW g \in Gens, EmitStatus(g) PROVE loop' \in LoopsType
  BY <1>6, <1>a, <1>b, <1>c, <1>d DEF EmitStatus, LoopsType, NoLoop, workers
<1> QED
  BY <1>a, <1>1, <1>2, <1>3, <1>4, <1>5, <1>6, LoopFrame

\* The pollers keep their types.
LEMMA PollerTypesStep ==
  ASSUME TypeOK, Connecting, [Next]_vars
  PROVE  poller' \in PollersType
<1>a. mode \in Modes \cup {""} /\ chainID \in Nat /\ loop \in LoopsType /\ poller \in PollersType
      /\ shown \in ShownType /\ op \in OpType
  BY DEF TypeOK, LoopsType, PollersType, StatusType, ShownType, OpType
<1>b. Top[Local] \in Nat
  BY NodeAssumption DEF Endpoints
<1>1. CASE StartSyncPoller
  BY <1>1, <1>a, <1>b DEF StartSyncPoller, PollersType, NoPoller, Connecting, workers
<1>2. ASSUME NEW g \in Gens, PollerStops(g) PROVE poller' \in PollersType
  BY <1>2, <1>a, <1>b DEF PollerStops, PollersType, NoPoller, Connecting, workers
<1>3. ASSUME NEW g \in Gens, PollSample(g) PROVE poller' \in PollersType
  <2>1. PICK h \in 1..Top[Local] : poller' = [poller EXCEPT ![g] = [at |-> "note", sample |-> h]]
    BY <1>3 DEF PollSample
  <2>2. h \in Nat
    BY <1>b
  <2> QED
    BY <1>a, <2>1, <2>2 DEF PollersType
<1>4. ASSUME NEW g \in Gens, NoteSyncHeight(g) PROVE poller' \in PollersType
  BY <1>4, <1>a, <1>b DEF NoteSyncHeight, PollersType, NoPoller, Connecting, workers
<1> QED
  BY <1>a, <1>1, <1>2, <1>3, <1>4, PollerFrame

\* What is emitted is a status.
LEMMA ShownTypesStep ==
  ASSUME TypeOK, OpFields, Connected, [Next]_vars
  PROVE  shown' \in ShownType
<1>a. mode \in Modes \cup {""} /\ chainID \in Nat /\ loop \in LoopsType /\ poller \in PollersType
      /\ shown \in ShownType /\ op \in OpType
  BY DEF TypeOK, LoopsType, PollersType, StatusType, ShownType, OpType
<1>b. chainID' \in Nat
  BY ConnectionTypesStep DEF ConnectionFields
<1>c. \A m \in Modes \cup {""}, n \in Nat : \A c \in BOOLEAN : Status(m, c, n) \in ShownType
  <2>1. 0 \in 0..MaxGen
    BY MaxGenNat
  <2>2. \A m \in Modes \cup {""} : (IF m = "" THEN "remote" ELSE m) \in Modes
    BY DEF Modes
  <2> QED BY <2>1, <2>2 DEF Status, ShownType
<1>1. CASE Disconnect
  BY <1>1, <1>a, <1>b, <1>c
     DEF Disconnect, EmitStatusLocked, DegradeConnection, OpFields, LoopsType
<1>2. CASE FlipMode
  BY <1>2, <1>a, <1>b, <1>c DEF FlipMode, EmitStatusLocked, DegradeConnection, OpFields, LoopsType
<1>3. CASE DialFails
  BY <1>3, <1>a, <1>b, <1>c
     DEF DialFails, EmitStatusLocked, DegradeConnection, OpFields, LoopsType
<1>4. CASE InstallConnection
  BY <1>4, <1>a, <1>b, <1>c
     DEF InstallConnection, EmitStatusLocked, DegradeConnection, OpFields, LoopsType
<1>5. CASE SubscribeFails
  BY <1>5, <1>a, <1>b, <1>c
     DEF SubscribeFails, EmitStatusLocked, DegradeConnection, OpFields, LoopsType
<1>6. CASE Reuse
  BY <1>6, <1>a, <1>b, <1>c DEF Reuse, EmitStatusLocked, DegradeConnection, OpFields, LoopsType
<1>7. CASE Boot
  BY <1>7, <1>a, <1>b, <1>c DEF Boot, EmitStatusLocked, DegradeConnection, OpFields, LoopsType
<1>8. CASE Booted
  BY <1>8, <1>a, <1>b, <1>c DEF Booted, EmitStatusLocked, DegradeConnection, OpFields, LoopsType
<1>8b. CASE BootFails
  BY <1>8b, <1>a, <1>b, <1>c DEF BootFails, EmitStatusLocked, DegradeConnection, OpFields, LoopsType
<1>9. CASE QuitDisconnects
  BY <1>9, <1>a, <1>b, <1>c
     DEF QuitDisconnects, EmitStatusLocked, DegradeConnection, OpFields, LoopsType
<1>10. ASSUME NEW g \in Gens, LoopClosed(g) PROVE shown' \in ShownType
  BY <1>10, <1>a, <1>b, <1>c
     DEF LoopClosed, EmitStatusLocked, DegradeConnection, OpFields, LoopsType
<1>11. ASSUME NEW g \in Gens, EmitStatus(g) PROVE shown' \in ShownType
  <2>1. shown' = [loop[g].snap EXCEPT !.by = g]
    BY <1>11 DEF EmitStatus
  <2>2. loop[g].snap \in StatusType /\ g \in 0..MaxGen
    <3>1. loop[g].snap \in StatusType
      BY <1>a DEF LoopsType
    <3>2. g \in 0..MaxGen
      BY MaxGenNat DEF Gens
    <3> QED BY <3>1, <3>2
  <2> DEFINE snap == loop[g].snap
  <2>3. /\ snap.mode \in Modes /\ snap.connected \in BOOLEAN /\ snap.chain \in Nat
        /\ [snap EXCEPT !.by = g]
             = [mode |-> snap.mode, connected |-> snap.connected, chain |-> snap.chain, by |-> g]
    BY <2>2 DEF StatusType
  <2> QED BY <2>1, <2>2, <2>3 DEF ShownType
<1>12. ASSUME NEW g \in Gens, NoteSyncHeight(g) PROVE shown' \in ShownType
  BY <1>12, <1>a, <1>b, <1>c
     DEF NoteSyncHeight, EmitStatusLocked, DegradeConnection, OpFields, LoopsType
<1> QED
  BY <1>a, <1>1, <1>2, <1>3, <1>4, <1>5, <1>6, <1>7, <1>8, <1>8b, <1>9, <1>10, <1>11, <1>12, ShownFrame

\* Every field keeps its type.
LEMMA TypeStep ==
  ASSUME TypeOK, LoopsArePast, Spends, OpFields, Connecting, Connected, [Next]_vars
  PROVE  TypeOK'
<1>1. ControlTypes' /\ op' \in OpType /\ transitions' \in 0..MaxTransitions
  BY ControlTypesStep, OpTypeStep, TransitionsStep
<1>2. ConnectionFields' /\ connGen' \in 0..MaxGen
  BY ConnectionTypesStep, GenBound
<1>3. loop' \in LoopsType /\ poller' \in PollersType /\ shown' \in ShownType
  BY LoopTypesStep, PollerTypesStep, ShownTypesStep
<1>4. /\ settings' \in [nodeMode : Modes, url : Remotes] /\ mode' \in Modes \cup {""}
      /\ {embedded', stopping', wedged'} \subseteq BOOLEAN
  BY <1>1 DEF ControlTypes, SettingsType
<1>5. /\ client' \in ClientType /\ {connGen', stop', syncStop'} \subseteq 0..MaxGen
      /\ {chainID', height'} \subseteq Nat
  BY <1>2 DEF ConnectionFields
<1> QED
  BY <1>1, <1>3, <1>4, <1>5
     DEF TypeOK, ControlTypes, OpType, ClientType, LoopsType, PollersType, StatusType, ShownType

-----------------------------------------------------------------------------
(* The invariant.                                                          *)

\* Before the first call nothing is connected.
LEMMA InvInit == ASSUME Init PROVE Inv
<1> MaxGen \in Nat /\ MaxTransitions \in Nat
  BY MaxGenNat, NodeAssumption
<1>a. connGen = 0 /\ stop = 0 /\ syncStop = 0 /\ chainID = 0 /\ height = 0 /\ transitions = 0
  BY DEF Init
<1>b. op = Idle /\ quit = "running" /\ node = "off"
  BY DEF Init
<1>c. settings \in [nodeMode : Modes, url : Remotes] /\ mode = "" /\ client = NoClient /\ shown = Down
  BY DEF Init
<1>d. embedded = FALSE /\ stopping = FALSE /\ wedged = FALSE
  BY DEF Init
<1>e. NoClient \in ClientType /\ Idle \in OpType
  <2>1. 0 \in 0..MaxGen
    OBVIOUS
  <2>2. NoClient \in ClientType
    BY <2>1 DEF NoClient, ClientType
  <2> QED
    BY <2>1, <2>2 DEF Idle, OpType, Modes
<1>1. TypeOK
  <2>1. /\ {connGen, stop, syncStop} \subseteq 0..MaxGen /\ {chainID, height} \subseteq Nat
        /\ transitions \in 0..MaxTransitions
    BY <1>a
  <2>2. client \in [ep : Endpoints \cup {NoEndpoint}, gen : 0..MaxGen]
    BY <1>c, <1>e DEF ClientType
  <2>3. Down \in ShownType /\ Down \in StatusType
    BY MaxGenNat DEF Down, Modes, ShownType, StatusType
  <2>4. /\ loop \in [Gens -> [at : {"none", "select", "compose", "emit"},
                            ep : Endpoints \cup {NoEndpoint},
                            snap : StatusType]]
        /\ poller \in [Gens -> [at : {"none", "select", "note"}, sample : Nat]]
        /\ shown = Down
    BY <2>3 DEF Init, NoLoop, NoPoller
  <2>5. op \in OpType
    BY <1>b, <1>e
  <2> QED
    BY <1>b, <1>c, <1>d, <2>1, <2>2, <2>3, <2>4, <2>5 DEF TypeOK, OpType, StatusType, ShownType
<1>2. LoopsArePast /\ Connecting /\ Connected
  BY DEF Init, LoopsArePast, Connecting, Connected, ClientOfIntent, NoLoop, Idle, Gens
<1>3. OpFields /\ ModeFollows /\ NodeOwned /\ NotRefused
  BY DEF Init, OpFields, ModeFollows, NodeOwned, HandleIsLive, NotRefused, Idle
<1>4. Spends
  <2>1. connGen = 0 /\ connGen \notin Gens /\ transitions = 0 /\ op.pc = "idle" /\ quit = "running"
    BY <1>a, <1>b, IdlePc DEF Gens
  <2>2. Due = 0 /\ QuitDue = 1
    BY <2>1, DueIs, QuitDueIs
  <2>3. LoopDue = 0
    BY <2>1 DEF LoopDue
  <2> QED
    BY <2>1, <2>2, <2>3 DEF Spends
<1> QED
  BY <1>1, <1>2, <1>3, <1>4 DEF Inv

\* Every step keeps the invariant.
LEMMA InvNext == ASSUME Inv, [Next]_vars PROVE Inv'
BY TypeStep, SpendStep, PastStep, FieldsStep, ConnectingStep, ConnectedStep, ModeStep, OwnedStep,
   RefusedStep DEF Inv

\* The invariant holds in every state.
LEMMA Invariant == Spec => []Inv
BY InvInit, InvNext, PTL DEF Spec

-----------------------------------------------------------------------------
(* What follows.                                                           *)

\* Every field keeps its type, whatever the calls, the faults and the quit;
\* generations never run past the bound of the model.
THEOREM NodeTypes == Spec => []TypeOK
<1>1. Inv => TypeOK
  BY DEF Inv
<1> QED
  BY <1>1, Invariant, PTL

\* The mode in memory is the one on disk, the client and its chain identifier
\* belong to the intent to connect, and a connected node has its subscription
\* (setNode, disconnectLocked, SetNodeMode, Connect).
THEOREM AgreesAlways == Spec => []ConnectionAgrees
<1>1. op = Idle => op.pc = "idle"
  BY IdlePc
<1>2. Inv => ConnectionAgrees
  BY <1>1 DEF Inv, ConnectionAgrees, ModesAgree, ModeFollows, Connected, ConnectedHasLoop
<1> QED
  BY <1>2, Invariant, PTL

\* At most one embedded node: a handle is of a live node nobody stops, none is
\* started while a stop has its mutex, and no data directory is removed under
\* a live one (startEmbedded, stopEmbedded, DeleteEmbeddedData).
THEOREM OnlyOneNode == Spec => []OneEmbeddedNode
<1>1. Inv => OneEmbeddedNode
  BY DEF Inv, OneEmbeddedNode, NodeOwned, HandleIsLive, NoStartDuringStop, DeleteOnlyStopped
<1> QED
  BY <1>1, Invariant, PTL

\* The dial and the subscription are never superseded: from BeginDial to the
\* momentum loop the transition that holds opMu owns the intent to connect.
THEOREM DialKeepsIntent ==
  Spec => [](op.pc \in {"dialing", "subscribe"} => connGen = op.gen)
<1>1. Inv => (op.pc \in {"dialing", "subscribe"} => connGen = op.gen)
  BY DEF Inv, Connecting
<1> QED
  BY <1>1, Invariant, PTL

\* Who ends a connection, and under which step its height moves.
LEMMA OwnStep ==
  ASSUME Inv, [Next]_vars
  PROVE  OwnerTearsDown /\ HeightNotLowered
<1> USE DEF OwnerTearsDown, HeightNotLowered
<1>1. op \in OpType /\ loop \in LoopsType
  BY Types, ConnectionTypes DEF Inv
<1>2. height \in Nat /\ transitions \in Nat
  BY ConnectionTypes DEF Inv, TypeOK
<1>3. ClientOfIntent /\ Connecting
  BY DEF Inv, Connected
<1>4. CASE client' = client /\ height' = height
  BY <1>2, <1>4
<1>5. CASE Disconnect
  <2>1. transitions' # transitions
    BY <1>2, <1>5 DEF Disconnect
  <2>2. client = NoClient \/ client' # client
    BY <1>5 DEF Disconnect, DisconnectLocked
  <2> QED
    BY <2>1, <2>2
<1>6. CASE FlipMode \/ BeginDial
  <2>1. op' # op
    BY <1>1, <1>6 DEF FlipMode, BeginDial, Goto, OpType
  <2>2. client = NoClient \/ client' # client
    BY <1>6 DEF FlipMode, BeginDial, DisconnectLocked
  <2> QED
    BY <2>1, <2>2
<1>7. CASE InstallConnection
  <2>1. client = NoClient
    BY <1>3, <1>7 DEF InstallConnection, Connecting
  <2> QED
    BY <2>1
<1>8. CASE SubscribeFails
  <2>1. op'.pc # op.pc
    BY <1>1, <1>8, IdlePc DEF SubscribeFails, Failed, Goto, Done, OpType
  <2>2. client = NoClient \/ client' # client \/ height' = height
    BY <1>8 DEF SubscribeFails, DegradeConnection, DisconnectLocked, connection
  <2> QED
    BY <1>2, <2>1, <2>2
<1>9. CASE StartEmbedded
  <2>1. op'.pc # op.pc
    BY <1>1, <1>9, IdlePc DEF StartEmbedded, Goto, Done, OpType
  <2>2. client = NoClient \/ client' # client \/ height' = height
    BY <1>9 DEF StartEmbedded, DisconnectLocked, connection
  <2> QED
    BY <1>2, <2>1, <2>2
<1>10. CASE QuitDisconnects
  <2>1. quit' # quit
    BY <1>10 DEF QuitDisconnects
  <2>2. client = NoClient \/ client' # client
    BY <1>10 DEF QuitDisconnects, DisconnectLocked
  <2> QED
    BY <2>1, <2>2
<1>11. ASSUME NEW g \in Gens, LoopClosed(g) PROVE OwnerTearsDown /\ HeightNotLowered
  <2>1. CASE connGen = g
    <3>1. client # NoClient => client.gen = g
      BY <1>3, <2>1 DEF ClientOfIntent
    <3>2. loop'[g] # loop[g]
      BY <1>1, <1>11 DEF LoopClosed, NoLoop, LoopsType
    <3>3. client = NoClient \/ client' # client
      BY <1>11, <2>1 DEF LoopClosed, DegradeConnection, DisconnectLocked
    <3> QED
      BY <3>1, <3>2, <3>3
  <2>2. CASE connGen # g
    BY <1>4, <1>11, <2>2 DEF LoopClosed, DegradeConnection, connection
  <2> QED
    BY <2>1, <2>2
<1>12. ASSUME NEW g \in Gens, Tick(g) PROVE OwnerTearsDown /\ HeightNotLowered
  <2>1. client' = client
    BY <1>12 DEF Tick
  <2>2. PICK h \in 1..Top[loop[g].ep] : height' = IF h > height THEN h ELSE height
    BY <1>12 DEF Tick
  <2>3. height' >= height
    BY <1>2, <2>2
  <2> QED
    BY <2>1, <2>3
<1>13. ASSUME NEW g \in Gens, NoteSyncHeight(g) PROVE OwnerTearsDown /\ HeightNotLowered
  <2>1. client' = client
    BY <1>13 DEF NoteSyncHeight
  <2>2. poller[g].sample \in Nat
    BY DEF Inv, TypeOK
  <2>3. height' >= height
    BY <1>2, <1>13, <2>2 DEF NoteSyncHeight
  <2> QED
    BY <2>1, <2>3
<1>14. CASE StartMomentumLoop \/ StopEmbedded \/ StartSyncPoller \/ QuitStops
  BY <1>4, <1>14 DEF StartMomentumLoop, StopEmbedded, StartSyncPoller, QuitStops
<1> QED
  BY <1>4, <1>5, <1>6, <1>7, <1>8, <1>9, <1>10, <1>11, <1>12, <1>13, <1>14, ConnectionFrame

\* A transition leaves the guards of startEmbedded only through them.
LEMMA StartFrame ==
  ASSUME TypeOK, op.pc = "start", op'.pc = "idle", [Next]_vars
  PROVE  StartEmbedded
<1> op = Idle => op.pc = "idle"
  BY IdlePc
<1> QED
  BY DEF Next, Call, Transition, Quit, Worker, vars, Take, SetNodeMode, SetNodeURL, Connect,
         Disconnect, DeleteEmbeddedData, PersistMode, FlipMode, RemoveData, BeginDial,
         DialFails, InstallConnection, SubscribeFails, StartMomentumLoop, Reuse, Boot,
         Booted, BootFails, AdoptHandle, StopEmbedded, StopAwaited, StartSyncPoller, QuitStops,
         QuitAwaits, QuitDisconnects, StopTakesMutex, StopReturns, LoopStops, LoopClosed,
         Tick, ComposeStatus, EmitStatus, PollerStops, PollSample, NoteSyncHeight

\* No superseded loop ends the connection after it, no height goes down under
\* one connection, and a refused transition has written no mode
\* (degradeConnection, noteSyncHeight, SetNodeMode).
THEOREM OwnSteps == Spec => StepsStayTheirOwn
<1>1. ASSUME Inv, [Next]_vars PROVE RefusedWritesNothing
  <2>1. ASSUME op.pc = "start", op' = Idle, quit = "running" PROVE settings.nodeMode = op.was
    <3>1. StartEmbedded
      BY <1>1, <2>1, StartFrame, IdlePc DEF Inv
    <3>2. wedged \/ stopping
      <4>1. op'.pc = "idle" /\ op \in OpType
        BY <1>1, <2>1, IdlePc, Types DEF Inv
      <4> QED
        BY <3>1, <4>1 DEF StartEmbedded, Goto, OpType
    <3>3. ~stopping
      BY <2>1, <1>1 DEF Inv, NodeOwned
    <3> QED
      BY <1>1, <2>1, <3>2, <3>3 DEF Inv, NotRefused
  <2> QED
    BY <2>1 DEF RefusedWritesNothing
<1>2. ASSUME Inv, [Next]_vars PROVE [OwnerTearsDown /\ HeightNotLowered /\ RefusedWritesNothing]_vars
  BY <1>1, <1>2, OwnStep
<1> QED
  BY <1>2, Invariant, PTL DEF Spec, StepsStayTheirOwn

-----------------------------------------------------------------------------
(***************************************************************************)
(* AutoReceive: its constants and variables, and the instance.             *)
(***************************************************************************)
CONSTANTS
  Wallets, NoWallet, Indexes, Blocks, Tasks,
  MaxStale, MaxStarts, MaxClicks, MaxLocks, MaxDrops, MaxFailures

VARIABLES
  session, conn, pending, autoStop,
  receiveLoop,     \* AutoReceive's loop
  receiving, store, saved, task, used, upset

Receive == INSTANCE AutoReceive WITH loop <- receiveLoop

\* A sweep gives up after a round without progress at the earliest, and there are
\* finitely many blocks.
ReceiveBounds == Receive!ReceiveAssumption /\ MaxStale > 0 /\ IsFiniteSet(Blocks)

-----------------------------------------------------------------------------
(* The inductive invariants.                                               *)

LoopPcs == {"none", "claimed", "client", "address", "sweep", "pass", "wait", "select"}
TaskPcs == {"idle", "save", "toggled", "follow", "init", "restop", "stop", "start", "starting"}
Entries == Blocks \X Receive!Accounts

\* stale never reaches MaxStale: the sweep ends there.
LoopRecords ==
  [pc : LoopPcs, conn : 0..(MaxDrops + 1), account : Receive!Accounts \cup {<<NoWallet, 0>>},
   stopped : BOOLEAN, signal : BOOLEAN, todo : SUBSET Entries, before : 0..Cardinality(Blocks),
   stale : 0..(MaxStale - 1), gaveUp : {"no", "failed", "stalled"}]
TaskRecords ==
  [kind : {"idle", "follow", "init", "toggle"}, pc : TaskPcs, index : Indexes, loop : 0..MaxStarts,
   arg : BOOLEAN]
UsedRecords ==
  [starts : 0..MaxStarts, clicks : 0..MaxClicks, locks : 0..MaxLocks, drops : 0..MaxDrops,
   failures : 0..MaxFailures]

\* TypeOK with the types of the tasks and counters, and one entry per block.
ReceiveTypes ==
  /\ session \in [wallet : Wallets \cup {NoWallet}, index : Indexes]
  /\ conn \in 0..(MaxDrops + 1) /\ autoStop \in 0..MaxStarts
  /\ pending \subseteq Entries /\ \A p, q \in pending : p[1] = q[1] => p = q
  /\ receiveLoop \in [Receive!Loops -> LoopRecords] /\ receiving \in BOOLEAN /\ saved \in BOOLEAN
  /\ store \in [enabled : BOOLEAN, account : Indexes \cup {-1}]
  /\ task \in [Tasks -> TaskRecords] /\ used \in UsedRecords
  /\ upset \subseteq {"overlap", "lock", "drop", "wallet"}

Starts(t, l) ==
  task[t].pc = "starting" /\ task[t].loop = l /\ receiveLoop[l].pc \in {"claimed", "client", "address"}

\* Every loop was started, and a start that is not over belongs to one task.
StartsInv ==
  /\ \A l \in Receive!Loops : l > used.starts => receiveLoop[l] = Receive!NoLoop
  /\ \A t \in Tasks : task[t].pc = "starting" => \E l \in Receive!Loops : Starts(t, l)
  /\ \A t, u \in Tasks, l \in Receive!Loops : Starts(t, l) /\ Starts(u, l) => t = u
  /\ \A l \in Receive!Loops : receiveLoop[l].pc \in {"claimed", "client", "address"} =>
       \E t \in Tasks : Starts(t, l)

SlotInv == ReceiveTypes /\ StartsInv /\ Receive!SlotOwned

\* The loop in the slot is on the connection there is.
ServeInv ==
  /\ "drop" \notin upset => conn # 0
  /\ autoStop # 0 /\ receiveLoop[autoStop].pc \notin {"none", "claimed"} =>
       conn # 0 /\ receiveLoop[autoStop].conn = conn

\* Nothing overlapped since the last toggle on its own: one task is under way at most.
AtRest == \A t \in Tasks : task[t].pc = "idle"
OffInv ==
  /\ \A t, u \in Tasks : task[t].pc # "idle" /\ task[u].pc # "idle" => t = u
  /\ \A t \in Tasks : task[t].pc = "idle" <=> task[t] = Receive!Idle
  /\ \A t \in Tasks : task[t].pc = "save" => task[t].arg = store.enabled
  /\ (\A t \in Tasks : task[t].pc # "save") => saved = store.enabled
  /\ \A t \in Tasks : task[t].pc \in {"restop", "start", "starting"} => store.enabled
  /\ \A t \in Tasks : task[t].pc = "stop" => ~store.enabled
  /\ \A t \in Tasks : task[t].pc = "start" => autoStop = 0
  /\ (\A t \in Tasks : task[t].pc \notin {"save", "toggled", "stop"}) /\ ~store.enabled =>
       autoStop = 0

\* Nothing else came between either: the loop in the slot receives for the account
\* the store has in mind, unless the task under way is about to see to it, and that
\* is the active one unless the task is about to see to that.
Settled == {"idle", "follow", "init"}
FollowInv ==
  /\ \A t \in Tasks : task[t].pc # "idle" =>
       session.wallet # NoWallet /\ task[t].index = session.index
  /\ \A t \in Tasks : task[t].pc = "starting" => autoStop = task[t].loop
  /\ (\A t \in Tasks : task[t].pc \in Settled) /\ store.account # -1 =>
       /\ autoStop # 0 /\ receiveLoop[autoStop].account[2] = store.account
       /\ session.wallet # NoWallet => receiveLoop[autoStop].account[1] = session.wallet
  /\ \A t \in Tasks : task[t].pc = "starting" /\ receiveLoop[task[t].loop].pc = "address" =>
       receiveLoop[task[t].loop].account = Receive!Active
  /\ AtRest /\ store.enabled /\ session.wallet # NoWallet => store.account = session.index

-----------------------------------------------------------------------------
(* Facts about the data.                                                   *)

LEMMA ReceiveConstants ==
  /\ Receive!NoLoop.pc = "none" /\ ~Receive!NoLoop.stopped
  /\ Receive!Idle.pc = "idle" /\ Receive!Idle.kind = "idle" /\ Receive!Idle.loop = 0
  BY DEF Receive!NoLoop, Receive!Idle

LEMMA ReceiveTyped ==
  ASSUME Receive!ReceiveAssumption, MaxStale > 0, IsFiniteSet(Blocks)
  PROVE  /\ Receive!NoLoop \in LoopRecords /\ Receive!Idle \in TaskRecords
         /\ Cardinality(Blocks) \in Nat /\ Receive!Loops = 1..MaxStarts
  <1>1. Cardinality(Blocks) \in Nat
    BY FS_CardinalityType
  <1>2. 0 \in 0..(MaxDrops + 1) /\ 0 \in 0..(MaxStale - 1) /\ 0 \in 0..Cardinality(Blocks)
        /\ 0 \in 0..MaxStarts /\ 0 \in Indexes
    BY <1>1 DEF Receive!ReceiveAssumption
  <1> QED BY <1>1, <1>2 DEF Receive!NoLoop, Receive!Idle, LoopRecords, TaskRecords, LoopPcs,
                           TaskPcs, Receive!Loops

\* The node's queue of an account has at most one entry per block.
LEMMA QueueSize ==
  ASSUME IsFiniteSet(Blocks), ReceiveTypes, NEW S \in SUBSET pending
  PROVE  Cardinality(S) \in 0..Cardinality(Blocks)
  <1> DEFINE B == {b \in Blocks : \E p \in S : p[1] = b}
             f == [b \in B |-> CHOOSE p \in S : p[1] = b]
  <1>1. IsFiniteSet(B) /\ Cardinality(B) <= Cardinality(Blocks) /\ Cardinality(B) \in Nat
        /\ Cardinality(Blocks) \in Nat
    BY FS_Subset, FS_CardinalityType
  <1>2. \A p \in S : p[1] \in B
    BY DEF ReceiveTypes, Entries
  <1>3. \A p \in S : f[p[1]] = p
    BY <1>2 DEF ReceiveTypes
  <1>4. \A b \in B : f[b] \in S
    OBVIOUS
  <1>5. f \in [B -> S]
    BY <1>4
  <1>6. \A p \in S : \E b \in B : f[b] = p
    BY <1>2, <1>3
  <1>7. f \in Surjection(B, S)
    BY <1>5, <1>6 DEF Surjection
  <1>8. IsFiniteSet(S) /\ Cardinality(S) <= Cardinality(B)
    BY <1>1, <1>7, FS_Surjection
  <1>9. Cardinality(S) \in Nat
    BY <1>8, FS_CardinalityType
  <1> QED BY <1>1, <1>8, <1>9

LEMMA TaskPc ==
  ASSUME task \in [Tasks -> TaskRecords], NEW t \in Tasks, NEW pc \in TaskPcs,
         task' = [task EXCEPT ![t].pc = pc]
  PROVE  /\ task' \in [Tasks -> TaskRecords] /\ task'[t].pc = pc
         /\ task'[t].index = task[t].index /\ task'[t].loop = task[t].loop
         /\ task'[t].arg = task[t].arg
         /\ \A u \in Tasks \ {t} : task'[u] = task[u]
  BY DEF TaskRecords

LEMMA TaskIdle ==
  ASSUME Receive!Idle \in TaskRecords, task \in [Tasks -> TaskRecords], NEW t \in Tasks,
         Receive!Return(t)
  PROVE  /\ task' \in [Tasks -> TaskRecords] /\ task'[t] = Receive!Idle /\ task'[t].pc = "idle"
         /\ \A u \in Tasks \ {t} : task'[u] = task[u]
  BY ReceiveConstants DEF Receive!Return

LEMMA LoopPc ==
  ASSUME receiveLoop \in [Receive!Loops -> LoopRecords], NEW l \in Receive!Loops,
         NEW pc \in LoopPcs, receiveLoop' = Receive!Set(l, pc)
  PROVE  /\ receiveLoop' \in [Receive!Loops -> LoopRecords] /\ receiveLoop'[l].pc = pc
         /\ receiveLoop'[l].stopped = receiveLoop[l].stopped
         /\ receiveLoop'[l].conn = receiveLoop[l].conn
         /\ receiveLoop'[l].account = receiveLoop[l].account
         /\ \A k \in Receive!Loops \ {l} : receiveLoop'[k] = receiveLoop[k]
  BY DEF LoopRecords, Receive!Set

LEMMA LoopEnds ==
  ASSUME Receive!NoLoop \in LoopRecords, receiveLoop \in [Receive!Loops -> LoopRecords],
         NEW l \in Receive!Loops, receiveLoop' = [receiveLoop EXCEPT ![l] = Receive!NoLoop]
  PROVE  /\ receiveLoop' \in [Receive!Loops -> LoopRecords] /\ receiveLoop'[l] = Receive!NoLoop
         /\ receiveLoop'[l].pc = "none"
         /\ \A k \in Receive!Loops \ {l} : receiveLoop'[k] = receiveLoop[k]
  BY ReceiveConstants

\* Closing the stop channel of the slot's loop.
LEMMA StopsOne ==
  ASSUME receiveLoop \in [Receive!Loops -> LoopRecords], autoStop \in {0} \cup Receive!Loops,
         0 \notin Receive!Loops, receiveLoop' = Receive!CloseStop(receiveLoop)
  PROVE  /\ receiveLoop' \in [Receive!Loops -> LoopRecords]
         /\ \A l \in Receive!Loops \ {autoStop} : receiveLoop'[l] = receiveLoop[l]
         /\ \A l \in Receive!Loops :
              /\ receiveLoop'[l].pc = receiveLoop[l].pc /\ receiveLoop'[l].conn = receiveLoop[l].conn
              /\ receiveLoop'[l].account = receiveLoop[l].account
         /\ autoStop # 0 => receiveLoop'[autoStop].stopped
  <1>1. CASE autoStop = 0
    BY <1>1 DEF Receive!CloseStop
  <1>2. CASE autoStop # 0
    BY <1>2 DEF Receive!CloseStop, LoopRecords
  <1> QED BY <1>1, <1>2

LEMMA UsedMore ==
  ASSUME used \in UsedRecords, NEW what \in {"starts", "clicks", "locks", "drops", "failures"},
         NEW max \in Nat, Receive!ReceiveAssumption,
         max = CASE what = "starts" -> MaxStarts [] what = "clicks" -> MaxClicks
               [] what = "locks" -> MaxLocks [] what = "drops" -> MaxDrops
               [] what = "failures" -> MaxFailures,
         Receive!Spend(what, max)
  PROVE  used' \in UsedRecords /\ used'[what] = used[what] + 1 /\ (what # "starts" => used'.starts = used.starts)
  BY DEF UsedRecords, Receive!Spend, Receive!ReceiveAssumption

-----------------------------------------------------------------------------
(* The slot: one loop that still runs, one task per start.                 *)

Early == {"claimed", "client", "address"}

\* What a step must keep of tasks and loops for the starts to be kept.
LEMMA StartsKept ==
  ASSUME StartsInv,
         \A t \in Tasks : /\ task'[t].pc = "starting" <=> task[t].pc = "starting"
                          /\ task[t].pc = "starting" => task'[t].loop = task[t].loop,
         \A l \in Receive!Loops : /\ receiveLoop'[l].pc \in Early <=> receiveLoop[l].pc \in Early
                                  /\ l > used.starts => receiveLoop'[l] = receiveLoop[l],
         used'.starts = used.starts
  PROVE  StartsInv'
  <1>1. \A t \in Tasks, l \in Receive!Loops : Starts(t, l)' <=> Starts(t, l)
    BY DEF Starts, Early
  <1>2. Receive!Loops' = Receive!Loops /\ Receive!NoLoop' = Receive!NoLoop
    BY DEF Receive!Loops, Receive!NoLoop
  <1> QED BY <1>1, <1>2 DEF StartsInv, Early

\* The task of a start returns, and its loop has subscribed or is gone.
LEMMA StartsEnd ==
  ASSUME StartsInv, NEW t \in Tasks, NEW l \in Receive!Loops, Starts(t, l),
         task'[t].pc = "idle", \A u \in Tasks \ {t} : task'[u] = task[u],
         receiveLoop'[l].pc \notin Early, l \in Nat, used.starts \in Nat, l <= used.starts,
         \A k \in Receive!Loops \ {l} : receiveLoop'[k] = receiveLoop[k],
         used'.starts = used.starts
  PROVE  StartsInv'
  <1>1. ASSUME NEW u \in Tasks, NEW k \in Receive!Loops, Starts(u, k)'
        PROVE  u # t /\ k # l /\ Starts(u, k)
    <2>1. task'[u].pc = "starting" /\ receiveLoop'[k].pc \in Early
      BY <1>1 DEF Starts, Early
    <2>2. task'[u] = task[u] /\ receiveLoop'[k] = receiveLoop[k] /\ u # t /\ k # l
      BY <2>1
    <2> QED BY <1>1, <2>2 DEF Starts
  <1>2. \A u \in Tasks, k \in Receive!Loops : Starts(u, k) /\ u # t => k # l /\ Starts(u, k)'
    BY DEF Starts, StartsInv
  <1>3. \A k \in Receive!Loops : k > used'.starts => receiveLoop'[k] = Receive!NoLoop
    <2>1. ~(l > used.starts)
      OBVIOUS
    <2> QED BY <2>1 DEF StartsInv
  <1>4. ASSUME NEW u \in Tasks, task'[u].pc = "starting"
        PROVE  \E k \in Receive!Loops : Starts(u, k)'
    BY <1>2, <1>4 DEF StartsInv
  <1>5. ASSUME NEW k \in Receive!Loops, receiveLoop'[k].pc \in Early
        PROVE  \E u \in Tasks : Starts(u, k)'
    <2>1. k # l /\ receiveLoop[k].pc \in Early
      BY <1>5
    <2>2. PICK u \in Tasks : Starts(u, k)
      BY <2>1 DEF StartsInv, Early
    <2>3. u # t
      BY <2>1, <2>2 DEF Starts
    <2> QED BY <1>2, <2>2, <2>3
  <1>6. \A u, v \in Tasks, k \in Receive!Loops : Starts(u, k)' /\ Starts(v, k)' => u = v
    BY <1>1 DEF StartsInv
  <1> QED BY <1>3, <1>4, <1>5, <1>6 DEF StartsInv, Early, Receive!NoLoop

LEMMA SlotKept ==
  ASSUME Receive!SlotOwned, autoStop' = autoStop,
         \A l \in Receive!Loops : /\ receiveLoop'[l].pc = "none" <=> receiveLoop[l].pc = "none"
                                  /\ receiveLoop'[l].stopped = receiveLoop[l].stopped
  PROVE  Receive!SlotOwned'
  BY DEF Receive!SlotOwned, Receive!Alive, Receive!Loops

\* A loop ends and gives back the slot, if it is its own.
LEMMA SlotReleased ==
  ASSUME Receive!SlotOwned, NEW l \in Receive!Loops, Receive!ReleaseSlot(l), 0 \notin Receive!Loops,
         receiveLoop'[l].pc = "none",
         \A k \in Receive!Loops \ {l} : receiveLoop'[k] = receiveLoop[k]
  PROVE  Receive!SlotOwned'
  <1>1. \A k \in Receive!Loops : autoStop' = k <=> k # l /\ autoStop = k
    BY DEF Receive!ReleaseSlot
  <1>2. \A k \in Receive!Loops : Receive!Alive(k)' /\ ~receiveLoop'[k].stopped <=>
          k # l /\ Receive!Alive(k) /\ ~receiveLoop[k].stopped
    BY DEF Receive!Alive
  <1>3. Receive!Loops' = Receive!Loops
    BY DEF Receive!Loops
  <1> QED BY <1>1, <1>2, <1>3 DEF Receive!SlotOwned, Receive!Alive

LEMMA SlotStopped ==
  ASSUME Receive!SlotOwned, receiveLoop \in [Receive!Loops -> LoopRecords],
         autoStop \in {0} \cup Receive!Loops, 0 \notin Receive!Loops, Receive!StopAutoReceive
  PROVE  Receive!SlotOwned'
  <1>1. autoStop' = 0 /\ receiveLoop' = Receive!CloseStop(receiveLoop)
    BY DEF Receive!StopAutoReceive
  <1>2. \A l \in Receive!Loops : receiveLoop'[l].pc # "none" => receiveLoop'[l].stopped
    BY <1>1, StopsOne DEF Receive!SlotOwned, Receive!Alive
  <1>3. Receive!Loops' = Receive!Loops
    BY DEF Receive!Loops
  <1> QED BY <1>1, <1>2, <1>3 DEF Receive!SlotOwned, Receive!Alive
-----------------------------------------------------------------------------
(* The steps of a loop.                                                    *)

LEMMA LoopFacts ==
  ASSUME ReceiveBounds, SlotInv
  PROVE  /\ Receive!Loops \subseteq Nat \ {0} /\ autoStop \in {0} \cup Receive!Loops
         /\ 0 \notin Receive!Loops /\ used.starts \in Nat /\ used \in UsedRecords
         /\ Receive!NoLoop \in LoopRecords /\ Receive!Idle \in TaskRecords
         /\ receiveLoop \in [Receive!Loops -> LoopRecords] /\ task \in [Tasks -> TaskRecords]
         /\ \A l \in Receive!Loops : receiveLoop[l].pc # "none" => l <= used.starts
  <1>1. Receive!Loops \subseteq Nat \ {0} /\ 0 \notin Receive!Loops
        /\ autoStop \in {0} \cup Receive!Loops /\ used.starts \in Nat
    BY DEF ReceiveBounds, Receive!ReceiveAssumption, Receive!Loops, SlotInv, ReceiveTypes,
           UsedRecords
  <1>2. \A l \in Receive!Loops : receiveLoop[l].pc # "none" => l <= used.starts
    <2> SUFFICES ASSUME NEW l \in Receive!Loops, receiveLoop[l].pc # "none"
                 PROVE  l <= used.starts
      OBVIOUS
    <2>1. ~(l > used.starts)
      BY ReceiveConstants DEF SlotInv, StartsInv
    <2> QED BY <1>1, <2>1
  <1> QED BY <1>1, <1>2, ReceiveTyped DEF SlotInv, ReceiveTypes, ReceiveBounds

LEMMA LoopMoves ==
  ASSUME ReceiveBounds, SlotInv, NEW l \in Receive!Loops, receiveLoop[l].pc # "none",
         receiveLoop'[l].pc # "none", \A k \in Receive!Loops \ {l} : receiveLoop'[k] = receiveLoop[k],
         receiveLoop'[l].pc \in Early <=> receiveLoop[l].pc \in Early,
         receiveLoop'[l].stopped = receiveLoop[l].stopped,
         UNCHANGED <<autoStop, task>>, used'.starts = used.starts
  PROVE  StartsInv' /\ Receive!SlotOwned'
  <1>1. ~(l > used.starts)
    BY LoopFacts
  <1>2. \A k \in Receive!Loops : /\ receiveLoop'[k].pc \in Early <=> receiveLoop[k].pc \in Early
                                 /\ k > used.starts => receiveLoop'[k] = receiveLoop[k]
                                 /\ receiveLoop'[k].pc = "none" <=> receiveLoop[k].pc = "none"
                                 /\ receiveLoop'[k].stopped = receiveLoop[k].stopped
    BY <1>1
  <1>3. StartsInv'
    BY <1>2, StartsKept DEF SlotInv
  <1> QED BY <1>2, <1>3, SlotKept DEF SlotInv

\* What the node still has for an account is a set of entries, one per block.
LEMMA FetchedTypes ==
  ASSUME ReceiveBounds, ReceiveTypes, NEW l \in Receive!Loops
  PROVE  Receive!Fetched(l) \in SUBSET Entries
         /\ Cardinality(Receive!Fetched(l)) \in 0..Cardinality(Blocks)
  <1>1. Receive!Fetched(l) \in SUBSET pending
    BY DEF Receive!Fetched, Receive!Queue
  <1>2. pending \subseteq Entries
    BY DEF ReceiveTypes
  <1> QED BY <1>1, <1>2, QueueSize DEF ReceiveBounds

LEMMA TypesOfLoop ==
  ASSUME ReceiveTypes, receiveLoop' \in [Receive!Loops -> LoopRecords], receiving' \in BOOLEAN,
         used' \in UsedRecords, UNCHANGED <<session, conn, pending, autoStop, store, saved, task, upset>>
  PROVE  ReceiveTypes'
  BY DEF ReceiveTypes, Receive!Loops, LoopRecords, TaskRecords, UsedRecords, Entries, Receive!Accounts

\* The instance counts as FiniteSets does.
LEMMA SameCardinality == \A S : Receive!Cardinality(S) = Cardinality(S)
  BY Zenon DEF Receive!Cardinality, Cardinality

LEMMA LoopRound ==
  ASSUME receiveLoop \in [Receive!Loops -> LoopRecords], NEW l \in Receive!Loops,
         NEW pc \in LoopPcs, NEW todo \in SUBSET Entries, NEW before \in 0..Cardinality(Blocks),
         NEW stale \in 0..(MaxStale - 1), NEW gaveUp \in {"no", receiveLoop[l].gaveUp},
         receiveLoop' = [receiveLoop EXCEPT ![l].pc = pc, ![l].todo = todo, ![l].gaveUp = gaveUp,
                                            ![l].before = before, ![l].stale = stale]
  PROVE  /\ receiveLoop' \in [Receive!Loops -> LoopRecords] /\ receiveLoop'[l].pc = pc
         /\ receiveLoop'[l].stopped = receiveLoop[l].stopped
         /\ receiveLoop'[l].conn = receiveLoop[l].conn
         /\ receiveLoop'[l].account = receiveLoop[l].account
         /\ \A k \in Receive!Loops \ {l} : receiveLoop'[k] = receiveLoop[k]
  <1> DEFINE r == [receiveLoop[l] EXCEPT !.pc = pc, !.todo = todo, !.gaveUp = gaveUp,
                                         !.before = before, !.stale = stale]
  <1>1. receiveLoop[l] \in LoopRecords
    OBVIOUS
  <1>2. r \in LoopRecords /\ r.pc = pc /\ r.stopped = receiveLoop[l].stopped
        /\ r.conn = receiveLoop[l].conn /\ r.account = receiveLoop[l].account
    BY <1>1 DEF LoopRecords
  <1>3. receiveLoop' = [receiveLoop EXCEPT ![l] = r]
    OBVIOUS
  <1> HIDE DEF r
  <1>4. receiveLoop' \in [Receive!Loops -> LoopRecords]
    BY <1>2, <1>3
  <1>5. receiveLoop'[l] = r
    BY <1>3
  <1>6. \A k \in Receive!Loops \ {l} : receiveLoop'[k] = receiveLoop[k]
    BY <1>3
  <1> QED BY <1>2, <1>4, <1>5, <1>6

LEMMA LoopSweepEnds ==
  ASSUME receiveLoop \in [Receive!Loops -> LoopRecords], NEW l \in Receive!Loops,
         NEW why \in {"no", "failed", "stalled"}, Receive!SweepEnds(l, why)
  PROVE  /\ receiveLoop' \in [Receive!Loops -> LoopRecords] /\ receiveLoop'[l].pc = "select"
         /\ receiveLoop'[l].stopped = receiveLoop[l].stopped
         /\ receiveLoop'[l].conn = receiveLoop[l].conn
         /\ receiveLoop'[l].account = receiveLoop[l].account
         /\ \A k \in Receive!Loops \ {l} : receiveLoop'[k] = receiveLoop[k]
  <1> DEFINE r == [receiveLoop[l] EXCEPT !.pc = "select", !.todo = {}, !.gaveUp = why]
  <1>1. receiveLoop[l] \in LoopRecords
    OBVIOUS
  <1>2. r \in LoopRecords /\ r.pc = "select" /\ r.stopped = receiveLoop[l].stopped
        /\ r.conn = receiveLoop[l].conn /\ r.account = receiveLoop[l].account
    BY <1>1 DEF LoopRecords, LoopPcs
  <1>3. receiveLoop' = [receiveLoop EXCEPT ![l] = r]
    BY DEF Receive!SweepEnds
  <1> HIDE DEF r
  <1> QED BY <1>2, <1>3

\* A fetch that answers or fails counts as nothing but a failure.
LEMMA FetchCounts ==
  ASSUME ReceiveBounds, SlotInv, NEW l \in Receive!Loops,
         Receive!FetchFails(l) \/ Receive!Answered(l) \/ used' = used
  PROVE  used' \in UsedRecords /\ used'.starts = used.starts
  <1>1. CASE Receive!Spend("failures", MaxFailures)
    BY <1>1, UsedMore DEF SlotInv, ReceiveTypes, ReceiveBounds, Receive!ReceiveAssumption
  <1>2. CASE used' = used
    BY <1>2, LoopFacts
  <1> QED BY <1>1, <1>2 DEF Receive!FetchFails, Receive!Answered

LEMMA SlotSweepBegins ==
  ASSUME ReceiveBounds, SlotInv, UNCHANGED upset, NEW l \in Receive!Loops, Receive!SweepBegins(l)
  PROVE  SlotInv'
  <1>1. receiveLoop[l].pc = "sweep" /\ UNCHANGED <<session, conn, pending, autoStop, store, saved, task>>
    BY DEF Receive!SweepBegins, Receive!world, Receive!frontend
  <1>2. /\ receiveLoop' \in [Receive!Loops -> LoopRecords] /\ receiving' \in BOOLEAN
        /\ receiveLoop'[l].pc \in {"select", "pass"}
        /\ receiveLoop'[l].stopped = receiveLoop[l].stopped
        /\ \A k \in Receive!Loops \ {l} : receiveLoop'[k] = receiveLoop[k]
    <2>1. ASSUME NEW why \in {"no", "failed", "stalled"}, receiving' = receiving,
                 receiveLoop' = [receiveLoop EXCEPT ![l].pc = "select", ![l].gaveUp = why]
          PROVE  /\ receiveLoop' \in [Receive!Loops -> LoopRecords] /\ receiving' \in BOOLEAN
                 /\ receiveLoop'[l].pc \in {"select", "pass"}
                 /\ receiveLoop'[l].stopped = receiveLoop[l].stopped
                 /\ \A k \in Receive!Loops \ {l} : receiveLoop'[k] = receiveLoop[k]
      <3> DEFINE r == [receiveLoop[l] EXCEPT !.pc = "select", !.gaveUp = why]
      <3>1. receiveLoop[l] \in LoopRecords
        BY LoopFacts
      <3>2. r \in LoopRecords /\ r.pc = "select" /\ r.stopped = receiveLoop[l].stopped
        BY <3>1 DEF LoopRecords, LoopPcs
      <3>3. receiveLoop' = [receiveLoop EXCEPT ![l] = r]
        BY <2>1
      <3> HIDE DEF r
      <3>4. receiving \in BOOLEAN /\ receiveLoop \in [Receive!Loops -> LoopRecords]
        BY DEF SlotInv, ReceiveTypes
      <3> QED BY <2>1, <3>2, <3>3, <3>4
    <2>2. CASE /\ receiving' = TRUE
               /\ receiveLoop' = [receiveLoop EXCEPT ![l].pc = "pass", ![l].todo = Receive!Fetched(l),
                     ![l].gaveUp = "no", ![l].before = Cardinality(Receive!Fetched(l)), ![l].stale = 0]
      <3>1. /\ Receive!Fetched(l) \in SUBSET Entries
            /\ Cardinality(Receive!Fetched(l)) \in 0..Cardinality(Blocks)
        BY FetchedTypes DEF SlotInv
      <3>2. 0 \in 0..(MaxStale - 1) /\ "pass" \in LoopPcs
        BY DEF ReceiveBounds, Receive!ReceiveAssumption, LoopPcs
      <3>3. ASSUME NEW todo \in SUBSET Entries, NEW before \in 0..Cardinality(Blocks),
                   receiveLoop' = [receiveLoop EXCEPT ![l].pc = "pass", ![l].todo = todo,
                     ![l].gaveUp = "no", ![l].before = before, ![l].stale = 0]
            PROVE  /\ receiveLoop' \in [Receive!Loops -> LoopRecords]
                   /\ receiveLoop'[l].pc = "pass"
                   /\ receiveLoop'[l].stopped = receiveLoop[l].stopped
                   /\ \A k \in Receive!Loops \ {l} : receiveLoop'[k] = receiveLoop[k]
        <4>1. receiveLoop \in [Receive!Loops -> LoopRecords] /\ "no" \in {"no", receiveLoop[l].gaveUp}
          BY LoopFacts
        <4> QED BY <3>2, <3>3, <4>1, LoopRound
      <3> QED BY <2>2, <3>1, <3>3
    <2> QED BY <2>1, <2>2, SameCardinality DEF Receive!SweepBegins
  <1>3. used' \in UsedRecords /\ used'.starts = used.starts
    BY FetchCounts DEF Receive!SweepBegins
  <1>4. ReceiveTypes'
    BY <1>1, <1>2, <1>3, TypesOfLoop DEF SlotInv
  <1> QED BY <1>1, <1>2, <1>3, <1>4, LoopMoves DEF SlotInv, Early

LEMMA SlotSweepEnds ==
  ASSUME ReceiveBounds, SlotInv, UNCHANGED upset, NEW l \in Receive!Loops, Receive!Sweeping(l),
         NEW why \in {"no", "failed", "stalled"}, Receive!SweepEnds(l, why),
         used' \in UsedRecords, used'.starts = used.starts
  PROVE  SlotInv'
  <1>1. receiveLoop[l].pc \in {"pass", "wait"}
        /\ UNCHANGED <<session, conn, pending, autoStop, store, saved, task>>
    BY DEF Receive!SweepEnds, Receive!Sweeping, Receive!world, Receive!frontend
  <1>2. /\ receiveLoop' \in [Receive!Loops -> LoopRecords] /\ receiving' \in BOOLEAN
        /\ receiveLoop'[l].pc = "select"
        /\ receiveLoop'[l].stopped = receiveLoop[l].stopped
        /\ \A k \in Receive!Loops \ {l} : receiveLoop'[k] = receiveLoop[k]
    BY LoopSweepEnds DEF Receive!SweepEnds, SlotInv, ReceiveTypes
  <1>3. ReceiveTypes'
    BY <1>1, <1>2, TypesOfLoop DEF SlotInv
  <1> QED BY <1>1, <1>2, <1>3, LoopMoves DEF SlotInv, Early

LEMMA SlotRefetch ==
  ASSUME ReceiveBounds, SlotInv, UNCHANGED upset, NEW l \in Receive!Loops, Receive!Refetch(l)
  PROVE  SlotInv'
  <1> DEFINE next == Receive!Fetched(l)
             stale == IF Cardinality(next) >= receiveLoop[l].before THEN receiveLoop[l].stale + 1 ELSE 0
             Goes == /\ stale # MaxStale
                     /\ receiveLoop' = [receiveLoop EXCEPT ![l].pc = "pass", ![l].todo = next,
                                          ![l].before = Cardinality(next), ![l].stale = stale]
                     /\ UNCHANGED <<session, conn, pending, autoStop, receiving, store, saved, task>>
  <1>1. used' \in UsedRecords /\ used'.starts = used.starts /\ Receive!Sweeping(l)
    BY FetchCounts DEF Receive!Refetch, Receive!Sweeping
  <1>2. Goes \/ \E why \in {"no", "failed", "stalled"} : Receive!SweepEnds(l, why)
    BY SameCardinality DEF Receive!Refetch, Receive!world, Receive!frontend
  <1>3. ASSUME NEW why \in {"no", "failed", "stalled"}, Receive!SweepEnds(l, why)
        PROVE  SlotInv'
    BY <1>1, <1>3, SlotSweepEnds
  <1>4. CASE Goes
    <2>1. next \in SUBSET Entries /\ Cardinality(next) \in 0..Cardinality(Blocks)
      BY FetchedTypes DEF SlotInv
    <2>2. stale \in 0..(MaxStale - 1)
      <3>1. receiveLoop[l].stale \in 0..(MaxStale - 1)
        BY DEF SlotInv, ReceiveTypes, LoopRecords
      <3>2. MaxStale \in Nat /\ MaxStale > 0
        BY DEF ReceiveBounds, Receive!ReceiveAssumption
      <3>3. stale \in 0..MaxStale
        BY <3>1, <3>2
      <3> QED BY <1>4, <3>2, <3>3
    <2>3. receiveLoop' = [receiveLoop EXCEPT ![l].pc = "pass", ![l].todo = next,
             ![l].gaveUp = receiveLoop[l].gaveUp, ![l].before = Cardinality(next), ![l].stale = stale]
      <3>1. receiveLoop[l] \in LoopRecords
        BY LoopFacts
      <3> HIDE DEF next, stale
      <3>2. [receiveLoop[l] EXCEPT !.pc = "pass", !.todo = next, !.gaveUp = receiveLoop[l].gaveUp,
                                   !.before = Cardinality(next), !.stale = stale]
            = [receiveLoop[l] EXCEPT !.pc = "pass", !.todo = next, !.before = Cardinality(next),
                                     !.stale = stale]
        BY <3>1 DEF LoopRecords
      <3> QED BY <1>4, <3>2 DEF next, stale
    <2>4. /\ UNCHANGED <<session, conn, pending, autoStop, receiving, store, saved, task>>
          /\ receiveLoop[l].pc \in {"pass", "wait"}
      BY <1>1, <1>4 DEF Receive!Sweeping
    <2> HIDE DEF next, stale, Goes
    <2>5. /\ receiveLoop' \in [Receive!Loops -> LoopRecords]
          /\ receiveLoop'[l].pc = "pass"
          /\ receiveLoop'[l].stopped = receiveLoop[l].stopped
          /\ \A k \in Receive!Loops \ {l} : receiveLoop'[k] = receiveLoop[k]
      <3>1. receiveLoop \in [Receive!Loops -> LoopRecords] /\ "pass" \in LoopPcs
        BY LoopFacts DEF LoopPcs
      <3> QED BY <2>1, <2>2, <2>3, <3>1, LoopRound
    <2>6. ReceiveTypes'
      <3>1. receiving' \in BOOLEAN
        BY <2>4 DEF SlotInv, ReceiveTypes
      <3> QED BY <1>1, <2>4, <2>5, <3>1, TypesOfLoop DEF SlotInv
    <2> QED BY <1>1, <2>4, <2>5, <2>6, LoopMoves DEF SlotInv, Early
  <1> QED BY <1>2, <1>3, <1>4

LEMMA SlotLoopPc ==
  ASSUME ReceiveBounds, SlotInv, UNCHANGED upset, NEW l \in Receive!Loops, Receive!PassEnds(l) \/ Receive!NextSignal(l)
  PROVE  SlotInv'
  <1>1. receiveLoop[l].pc \in {"pass", "select"}
        /\ UNCHANGED <<session, conn, pending, autoStop, receiving, store, saved, task, used>>
    BY DEF Receive!PassEnds, Receive!NextSignal, Receive!world, Receive!frontend
  <1>2. /\ receiveLoop' \in [Receive!Loops -> LoopRecords]
        /\ receiveLoop'[l].pc \in {"wait", "sweep"}
        /\ receiveLoop'[l].stopped = receiveLoop[l].stopped
        /\ \A k \in Receive!Loops \ {l} : receiveLoop'[k] = receiveLoop[k]
    BY DEF Receive!PassEnds, Receive!NextSignal, Receive!Set, SlotInv, ReceiveTypes, LoopRecords, LoopPcs
  <1>3. ReceiveTypes'
    <2>1. receiving' \in BOOLEAN /\ used' \in UsedRecords
      BY <1>1 DEF SlotInv, ReceiveTypes
    <2> QED BY <1>1, <1>2, <2>1, TypesOfLoop DEF SlotInv
  <1> QED BY <1>1, <1>2, <1>3, LoopMoves DEF SlotInv, Early

LEMMA SlotReceiveBlock ==
  ASSUME ReceiveBounds, SlotInv, UNCHANGED upset, NEW l \in Receive!Loops, NEW p \in Blocks \X Receive!Accounts,
         Receive!ReceiveBlock(l, p)
  PROVE  SlotInv'
  <1>1. receiveLoop[l].pc = "pass"
        /\ UNCHANGED <<session, conn, autoStop, receiving, store, saved, task>>
    BY DEF Receive!ReceiveBlock, Receive!frontend
  <1>2. /\ receiveLoop' \in [Receive!Loops -> LoopRecords]
        /\ receiveLoop'[l].pc = "pass"
        /\ receiveLoop'[l].stopped = receiveLoop[l].stopped
        /\ \A k \in Receive!Loops \ {l} : receiveLoop'[k] = receiveLoop[k]
    <2>1. receiveLoop' = [receiveLoop EXCEPT ![l].todo = @ \ {p}] /\ receiveLoop[l].pc = "pass"
      BY DEF Receive!ReceiveBlock
    <2> QED BY <2>1 DEF SlotInv, ReceiveTypes, LoopRecords
  <1>3. pending' \subseteq pending
    BY DEF Receive!ReceiveBlock
  <1>4. used' \in UsedRecords /\ used'.starts = used.starts
    <2>1. CASE Receive!Spend("failures", MaxFailures)
      BY <2>1, UsedMore DEF SlotInv, ReceiveTypes, ReceiveBounds, Receive!ReceiveAssumption
    <2>2. CASE used' = used
      BY <2>2 DEF SlotInv, ReceiveTypes
    <2> QED BY <2>1, <2>2 DEF Receive!ReceiveBlock
  <1>5. ReceiveTypes'
    BY <1>1, <1>2, <1>3, <1>4 DEF SlotInv, ReceiveTypes, Receive!Loops, LoopRecords, TaskRecords,
       UsedRecords, Entries, Receive!Accounts
  <1> QED BY <1>1, <1>2, <1>4, <1>5, LoopMoves DEF SlotInv, Early

LEMMA SlotLoopExits ==
  ASSUME ReceiveBounds, SlotInv, UNCHANGED upset, NEW l \in Receive!Loops, Receive!LoopExits(l)
  PROVE  SlotInv'
  <1>1. receiveLoop[l].pc = "select"
        /\ UNCHANGED <<session, conn, pending, receiving, store, saved, task, used>>
    BY DEF Receive!LoopExits, Receive!world, Receive!frontend
  <1>2. receiveLoop' = [receiveLoop EXCEPT ![l] = Receive!NoLoop] /\ Receive!ReleaseSlot(l)
    BY DEF Receive!LoopExits
  <1>3. /\ receiveLoop' \in [Receive!Loops -> LoopRecords] /\ receiveLoop'[l] = Receive!NoLoop
        /\ receiveLoop'[l].pc = "none"
        /\ \A k \in Receive!Loops \ {l} : receiveLoop'[k] = receiveLoop[k]
    BY <1>2, LoopFacts, LoopEnds
  <1>4. Receive!SlotOwned'
    BY <1>2, <1>3, LoopFacts, SlotReleased DEF SlotInv
  <1>5. StartsInv'
    <2>1. ~(l > used.starts)
      BY <1>1, LoopFacts
    <2> QED BY <1>1, <1>3, <2>1, StartsKept DEF SlotInv, Early
  <1>6. autoStop' \in 0..MaxStarts
    BY <1>2 DEF Receive!ReleaseSlot, SlotInv, ReceiveTypes, ReceiveBounds, Receive!ReceiveAssumption
  <1>7. ReceiveTypes'
    BY <1>1, <1>3, <1>6 DEF SlotInv, ReceiveTypes, Receive!Loops, LoopRecords, TaskRecords,
       UsedRecords, Entries, Receive!Accounts
  <1> QED BY <1>4, <1>5, <1>7 DEF SlotInv
-----------------------------------------------------------------------------
(* The steps of the world, of the user and of the store.                   *)

LEMMA TasksMove ==
  ASSUME ReceiveBounds, SlotInv, UNCHANGED <<autoStop, receiveLoop>>, used'.starts = used.starts,
         \A t \in Tasks : /\ task'[t].pc = "starting" <=> task[t].pc = "starting"
                          /\ task[t].pc = "starting" => task'[t].loop = task[t].loop
  PROVE  StartsInv' /\ Receive!SlotOwned'
  <1>1. StartsInv'
    BY StartsKept DEF SlotInv
  <1>2. Receive!SlotOwned'
    BY SlotKept DEF SlotInv
  <1> QED BY <1>1, <1>2

\* The stop channel of the slot's loop is closed, and the slot given up.
LEMMA StopsKept ==
  ASSUME ReceiveBounds, SlotInv, Receive!StopAutoReceive, used'.starts = used.starts,
         \A t \in Tasks : /\ task'[t].pc = "starting" <=> task[t].pc = "starting"
                          /\ task[t].pc = "starting" => task'[t].loop = task[t].loop
  PROVE  /\ StartsInv' /\ Receive!SlotOwned' /\ autoStop' = 0
         /\ receiveLoop' \in [Receive!Loops -> LoopRecords]
  <1>1. receiveLoop' = Receive!CloseStop(receiveLoop) /\ autoStop' = 0
    BY DEF Receive!StopAutoReceive
  <1>2. /\ receiveLoop' \in [Receive!Loops -> LoopRecords]
        /\ \A l \in Receive!Loops \ {autoStop} : receiveLoop'[l] = receiveLoop[l]
        /\ \A l \in Receive!Loops : receiveLoop'[l].pc = receiveLoop[l].pc
    BY <1>1, LoopFacts, StopsOne
  <1>3. Receive!SlotOwned'
    BY LoopFacts, SlotStopped DEF SlotInv
  <1>4. \A l \in Receive!Loops : l > used.starts => l # autoStop
    <2> SUFFICES ASSUME NEW l \in Receive!Loops, l > used.starts PROVE l # autoStop
      OBVIOUS
    <2>1. receiveLoop[l].pc = "none"
      BY ReceiveConstants DEF SlotInv, StartsInv
    <2> QED BY <2>1 DEF SlotInv, Receive!SlotOwned, Receive!Alive
  <1>5. StartsInv'
    BY <1>2, <1>4, StartsKept DEF SlotInv
  <1> QED BY <1>1, <1>2, <1>3, <1>5

LEMMA SlotArrive ==
  ASSUME ReceiveBounds, SlotInv, NEW b \in Blocks, NEW a \in Receive!Accounts, Receive!Arrive(b, a)
  PROVE  SlotInv'
  <1>1. UNCHANGED <<session, conn, autoStop, receiving, store, saved, task, upset>>
    BY DEF Receive!Arrive, Receive!frontend
  <1>2. used' \in UsedRecords /\ used'.starts = used.starts
    BY UsedMore DEF Receive!Arrive, SlotInv, ReceiveTypes, ReceiveBounds, Receive!ReceiveAssumption
  <1>3. pending' \subseteq Entries /\ \A p, q \in pending' : p[1] = q[1] => p = q
    <2>1. pending' = pending \cup {<<b, a>>} /\ \A p \in pending : p[1] # b
      BY DEF Receive!Arrive
    <2>2. <<b, a>> \in Entries /\ <<b, a>>[1] = b
      BY DEF Entries
    <2> QED BY <2>1, <2>2 DEF SlotInv, ReceiveTypes
  <1>4. /\ receiveLoop' \in [Receive!Loops -> LoopRecords]
        /\ \A l \in Receive!Loops : /\ receiveLoop'[l].pc = receiveLoop[l].pc
                                    /\ receiveLoop'[l].stopped = receiveLoop[l].stopped
                                    /\ receiveLoop[l].pc = "none" => receiveLoop'[l] = receiveLoop[l]
    <2> DEFINE r(l) == IF Receive!Subscribed(l) /\ receiveLoop[l].account = a
                            /\ receiveLoop[l].conn = conn
                       THEN [receiveLoop[l] EXCEPT !.signal = TRUE] ELSE receiveLoop[l]
    <2>1. receiveLoop' = [l \in Receive!Loops |-> r(l)]
      BY DEF Receive!Arrive
    <2>2. ASSUME NEW l \in Receive!Loops
          PROVE  /\ r(l) \in LoopRecords /\ r(l).pc = receiveLoop[l].pc
                 /\ r(l).stopped = receiveLoop[l].stopped
                 /\ receiveLoop[l].pc = "none" => r(l) = receiveLoop[l]
      <3>1. receiveLoop[l] \in LoopRecords
        BY LoopFacts
      <3>2. CASE Receive!Subscribed(l)
        <4>1. /\ [receiveLoop[l] EXCEPT !.signal = TRUE] \in LoopRecords
              /\ [receiveLoop[l] EXCEPT !.signal = TRUE].pc = receiveLoop[l].pc
              /\ [receiveLoop[l] EXCEPT !.signal = TRUE].stopped = receiveLoop[l].stopped
          BY <3>1 DEF LoopRecords
        <4>2. receiveLoop[l].pc # "none"
          BY <3>2 DEF Receive!Subscribed
        <4> QED BY <3>1, <4>1, <4>2
      <3>3. CASE ~Receive!Subscribed(l)
        BY <3>1, <3>3
      <3> QED BY <3>2, <3>3
    <2> HIDE DEF r
    <2> QED BY <2>1, <2>2
  <1>5. ReceiveTypes'
    BY <1>1, <1>2, <1>3, <1>4 DEF SlotInv, ReceiveTypes, Receive!Loops, LoopRecords, TaskRecords,
       UsedRecords, Entries, Receive!Accounts
  <1>6. StartsInv'
    <2>1. \A l \in Receive!Loops : l > used.starts => receiveLoop'[l] = receiveLoop[l]
      BY <1>4, ReceiveConstants DEF SlotInv, StartsInv
    <2> QED BY <1>1, <1>2, <1>4, <2>1, StartsKept DEF SlotInv
  <1>7. Receive!SlotOwned'
    BY <1>1, <1>4, SlotKept DEF SlotInv
  <1> QED BY <1>5, <1>6, <1>7 DEF SlotInv

LEMMA SlotDisconnect ==
  ASSUME ReceiveBounds, SlotInv, Receive!Disconnect
  PROVE  SlotInv'
  <1>1. UNCHANGED <<session, pending, receiving, store, saved, task>> /\ conn' = 0
        /\ Receive!StopAutoReceive
    BY DEF Receive!Disconnect, Receive!frontend, Receive!StopAutoReceive
  <1>2. used' \in UsedRecords /\ used'.starts = used.starts
    BY UsedMore DEF Receive!Disconnect, SlotInv, ReceiveTypes, ReceiveBounds, Receive!ReceiveAssumption
  <1>3. StartsInv' /\ Receive!SlotOwned' /\ autoStop' = 0
        /\ receiveLoop' \in [Receive!Loops -> LoopRecords]
    BY <1>1, <1>2, StopsKept
  <1>4. 0 \in 0..(MaxDrops + 1) /\ 0 \in 0..MaxStarts
        /\ upset' \subseteq {"overlap", "lock", "drop", "wallet"}
    BY DEF ReceiveBounds, Receive!ReceiveAssumption, Receive!Disconnect, SlotInv, ReceiveTypes
  <1>5. ReceiveTypes'
    BY <1>1, <1>2, <1>3, <1>4 DEF SlotInv, ReceiveTypes, Receive!Loops, LoopRecords, TaskRecords,
       UsedRecords, Entries, Receive!Accounts
  <1> QED BY <1>3, <1>5 DEF SlotInv

LEMMA SlotConnect ==
  ASSUME ReceiveBounds, SlotInv, Receive!Connect
  PROVE  SlotInv'
  <1>1. UNCHANGED <<session, pending, autoStop, receiveLoop, receiving, store, saved, task, used, upset>>
    BY DEF Receive!Connect, Receive!frontend, Receive!backend
  <1>2. conn' \in 0..(MaxDrops + 1)
    BY DEF Receive!Connect, SlotInv, ReceiveTypes, UsedRecords, ReceiveBounds, Receive!ReceiveAssumption
  <1>3. ReceiveTypes'
    BY <1>1, <1>2 DEF SlotInv, ReceiveTypes, Receive!Loops, LoopRecords, TaskRecords,
       UsedRecords, Entries, Receive!Accounts
  <1> QED BY <1>1, <1>3, TasksMove DEF SlotInv

LEMMA SlotLock ==
  ASSUME ReceiveBounds, SlotInv, Receive!Lock
  PROVE  SlotInv'
  <1>1. UNCHANGED <<conn, pending, autoStop, receiveLoop, receiving, store, saved, task>>
    BY DEF Receive!Lock, Receive!frontend, Receive!backend
  <1>2. used' \in UsedRecords /\ used'.starts = used.starts
    BY UsedMore DEF Receive!Lock, SlotInv, ReceiveTypes, ReceiveBounds, Receive!ReceiveAssumption
  <1>3. /\ session' \in [wallet : Wallets \cup {NoWallet}, index : Indexes]
        /\ upset' \subseteq {"overlap", "lock", "drop", "wallet"}
    BY DEF Receive!Lock, Receive!Locked, ReceiveBounds, Receive!ReceiveAssumption, SlotInv, ReceiveTypes
  <1>4. ReceiveTypes'
    BY <1>1, <1>2, <1>3 DEF SlotInv, ReceiveTypes, Receive!Loops, LoopRecords, TaskRecords,
       UsedRecords, Entries, Receive!Accounts
  <1> QED BY <1>1, <1>2, <1>4, TasksMove DEF SlotInv

\* A new task, created for an idle one.
LEMMA Created ==
  ASSUME ReceiveBounds, SlotInv, NEW t \in Tasks, NEW i \in Indexes,
         NEW kind \in {"follow", "init"}, Receive!Create(t, kind, kind, i)
  PROVE  /\ task' \in [Tasks -> TaskRecords]
         /\ task[t].pc = "idle" /\ task'[t].pc = kind /\ task'[t].index = i
         /\ \A u \in Tasks \ {t} : task'[u] = task[u]
  <1> DEFINE r == [Receive!Idle EXCEPT !.kind = kind, !.pc = kind, !.index = i]
  <1>1. task[t] = Receive!Idle /\ task' = [task EXCEPT ![t] = r]
    BY DEF Receive!Create
  <1>2. r \in TaskRecords /\ r.pc = kind /\ r.index = i
    BY LoopFacts DEF TaskRecords, TaskPcs
  <1> HIDE DEF r
  <1> QED BY <1>1, <1>2, LoopFacts, ReceiveConstants

LEMMA SlotUser ==
  ASSUME ReceiveBounds, SlotInv, NEW t \in Tasks, Receive!User(t)
  PROVE  SlotInv'
  <1>1. ASSUME NEW i \in Indexes, Receive!SwitchAccount(t, i)
        PROVE  SlotInv'
    <2>1. UNCHANGED <<conn, pending, autoStop, receiveLoop, receiving, store, saved>>
      BY <1>1 DEF Receive!SwitchAccount, Receive!backend
    <2>2. used' \in UsedRecords /\ used'.starts = used.starts
      BY <1>1, UsedMore DEF Receive!SwitchAccount, SlotInv, ReceiveTypes, ReceiveBounds,
         Receive!ReceiveAssumption
    <2>3. /\ session' \in [wallet : Wallets \cup {NoWallet}, index : Indexes]
          /\ upset' \subseteq {"overlap", "lock", "drop", "wallet"}
      BY <1>1 DEF Receive!SwitchAccount, Receive!Overlap, SlotInv, ReceiveTypes
    <2>4. /\ task' \in [Tasks -> TaskRecords] /\ task[t].pc = "idle" /\ task'[t].pc = "follow"
          /\ \A u \in Tasks \ {t} : task'[u] = task[u]
      BY <1>1, Created DEF Receive!SwitchAccount
    <2>5. ReceiveTypes'
      BY <2>1, <2>2, <2>3, <2>4 DEF SlotInv, ReceiveTypes, Receive!Loops, LoopRecords, TaskRecords,
         UsedRecords, Entries, Receive!Accounts
    <2> QED BY <2>1, <2>2, <2>4, <2>5, TasksMove DEF SlotInv
  <1>2. ASSUME NEW w \in Wallets, Receive!Unlock(t, w)
        PROVE  SlotInv'
    <2>1. UNCHANGED <<conn, pending, autoStop, receiveLoop, receiving, store, saved, used>>
      BY <1>2 DEF Receive!Unlock, Receive!backend
    <2>2. 0 \in Indexes
      BY DEF ReceiveBounds, Receive!ReceiveAssumption
    <2>3. /\ session' \in [wallet : Wallets \cup {NoWallet}, index : Indexes]
          /\ upset' \subseteq {"overlap", "lock", "drop", "wallet"}
      BY <1>2, <2>2 DEF Receive!Unlock, Receive!Overlap, SlotInv, ReceiveTypes
    <2>4. /\ task' \in [Tasks -> TaskRecords] /\ task[t].pc = "idle" /\ task'[t].pc = "init"
          /\ \A u \in Tasks \ {t} : task'[u] = task[u]
      BY <1>2, <2>2, Created DEF Receive!Unlock
    <2>5. ReceiveTypes'
      BY <2>1, <2>3, <2>4 DEF SlotInv, ReceiveTypes, Receive!Loops, LoopRecords, TaskRecords,
         UsedRecords, Entries, Receive!Accounts
    <2> QED BY <2>1, <2>4, <2>5, TasksMove DEF SlotInv
  <1>3. ASSUME Receive!Toggle(t)
        PROVE  SlotInv'
    <2> DEFINE r == [kind |-> "toggle", pc |-> "save", index |-> session.index, loop |-> 0,
                     arg |-> ~store.enabled]
    <2>1. UNCHANGED <<session, conn, pending, autoStop, receiveLoop, receiving, saved>>
      BY <1>3 DEF Receive!Toggle, Receive!backend, Receive!world
    <2>2. used' \in UsedRecords /\ used'.starts = used.starts
      BY <1>3, UsedMore DEF Receive!Toggle, SlotInv, ReceiveTypes, ReceiveBounds,
         Receive!ReceiveAssumption
    <2>3. /\ store' \in [enabled : BOOLEAN, account : Indexes \cup {-1}]
          /\ upset' \subseteq {"overlap", "lock", "drop", "wallet"}
      BY <1>3 DEF Receive!Toggle, Receive!Upset, SlotInv, ReceiveTypes
    <2>4. task[t] = Receive!Idle /\ task' = [task EXCEPT ![t] = r]
      BY <1>3 DEF Receive!Toggle
    <2>5. r \in TaskRecords /\ r.pc = "save"
      BY DEF SlotInv, ReceiveTypes, ReceiveBounds, Receive!ReceiveAssumption, TaskRecords, TaskPcs
    <2> HIDE DEF r
    <2>6. /\ task' \in [Tasks -> TaskRecords] /\ task[t].pc = "idle" /\ task'[t].pc = "save"
          /\ \A u \in Tasks \ {t} : task'[u] = task[u]
      BY <2>4, <2>5, LoopFacts, ReceiveConstants
    <2>7. ReceiveTypes'
      BY <2>1, <2>2, <2>3, <2>6 DEF SlotInv, ReceiveTypes, Receive!Loops, LoopRecords, TaskRecords,
         UsedRecords, Entries, Receive!Accounts
    <2> QED BY <2>1, <2>2, <2>6, <2>7, TasksMove DEF SlotInv
  <1> QED BY <1>1, <1>2, <1>3 DEF Receive!User
LEMMA SlotTaskOnly ==
  ASSUME ReceiveBounds, SlotInv, UNCHANGED upset, NEW t \in Tasks,
         Receive!SaveToggle(t) \/ Receive!Toggled(t) \/ Receive!FollowAccount(t) \/ Receive!InitStore(t)
  PROVE  SlotInv'
  <1>1. UNCHANGED <<session, conn, pending, autoStop, receiveLoop, receiving, used>>
    BY DEF Receive!SaveToggle, Receive!Toggled, Receive!FollowAccount, Receive!InitStore,
           Receive!world, Receive!backend
  <1>2. saved' \in BOOLEAN /\ store' \in [enabled : BOOLEAN, account : Indexes \cup {-1}]
    BY DEF Receive!SaveToggle, Receive!Toggled, Receive!FollowAccount, Receive!InitStore,
           SlotInv, ReceiveTypes, TaskRecords
  <1>3. /\ task' \in [Tasks -> TaskRecords] /\ task[t].pc # "starting" /\ task'[t].pc # "starting"
        /\ \A u \in Tasks \ {t} : task'[u] = task[u]
    <2>1. task[t].pc # "starting"
      BY DEF Receive!SaveToggle, Receive!Toggled, Receive!FollowAccount, Receive!InitStore
    <2>2. \/ \E pc \in TaskPcs : pc # "starting" /\ task' = [task EXCEPT ![t].pc = pc]
          \/ Receive!Return(t)
      BY DEF Receive!SaveToggle, Receive!Toggled, Receive!FollowAccount, Receive!InitStore, TaskPcs
    <2> QED BY <2>1, <2>2, TaskPc, TaskIdle, LoopFacts
  <1>4. ReceiveTypes'
    BY <1>1, <1>2, <1>3 DEF SlotInv, ReceiveTypes, Receive!Loops, LoopRecords, TaskRecords,
       UsedRecords, Entries, Receive!Accounts
  <1> QED BY <1>1, <1>3, <1>4, TasksMove DEF SlotInv

LEMMA SlotStop ==
  ASSUME ReceiveBounds, SlotInv, UNCHANGED upset, NEW t \in Tasks, Receive!StopBeforeStart(t) \/ Receive!Stop(t)
  PROVE  SlotInv'
  <1>1. UNCHANGED <<session, conn, pending, receiving, saved, used>> /\ Receive!StopAutoReceive
    BY DEF Receive!StopBeforeStart, Receive!Stop, Receive!world
  <1>2. store' \in [enabled : BOOLEAN, account : Indexes \cup {-1}]
    BY DEF Receive!StopBeforeStart, Receive!Stop, SlotInv, ReceiveTypes
  <1>3. /\ task' \in [Tasks -> TaskRecords] /\ task[t].pc # "starting" /\ task'[t].pc # "starting"
        /\ \A u \in Tasks \ {t} : task'[u] = task[u]
    <2>1. task[t].pc # "starting" /\ "start" \in TaskPcs
      BY DEF Receive!StopBeforeStart, Receive!Stop, TaskPcs
    <2>2. task' = [task EXCEPT ![t].pc = "start"] \/ Receive!Return(t)
      BY DEF Receive!StopBeforeStart, Receive!Stop
    <2> QED BY <2>1, <2>2, TaskPc, TaskIdle, LoopFacts
  <1>4. /\ StartsInv' /\ Receive!SlotOwned' /\ autoStop' = 0
        /\ receiveLoop' \in [Receive!Loops -> LoopRecords]
    BY <1>1, <1>3, StopsKept
  <1>5. autoStop' \in 0..MaxStarts
    BY <1>4 DEF ReceiveBounds, Receive!ReceiveAssumption
  <1>6. ReceiveTypes'
    BY <1>1, <1>2, <1>3, <1>4, <1>5 DEF SlotInv, ReceiveTypes, Receive!Loops, LoopRecords,
       TaskRecords, UsedRecords, Entries, Receive!Accounts
  <1> QED BY <1>4, <1>6 DEF SlotInv

\* The slot is claimed by a loop that never ran.
LEMMA SlotClaim ==
  ASSUME ReceiveBounds, SlotInv, UNCHANGED upset, NEW t \in Tasks, Receive!ClaimSlot(t)
  PROVE  SlotInv'
  <1>1. UNCHANGED <<session, conn, pending, receiving, saved>> /\ task[t].pc = "start"
    BY DEF Receive!ClaimSlot, Receive!world
  <1>2. CASE autoStop # 0
    <2>1. UNCHANGED <<autoStop, receiveLoop, used>> /\ Receive!Return(t)
          /\ store' = [store EXCEPT !.account = task[t].index]
      BY <1>2 DEF Receive!ClaimSlot
    <2>2. store' \in [enabled : BOOLEAN, account : Indexes \cup {-1}]
      BY <2>1 DEF SlotInv, ReceiveTypes, TaskRecords
    <2>3. /\ task' \in [Tasks -> TaskRecords] /\ task'[t].pc # "starting"
          /\ \A u \in Tasks \ {t} : task'[u] = task[u]
      BY <2>1, TaskIdle, LoopFacts
    <2>4. ReceiveTypes'
      BY <1>1, <2>1, <2>2, <2>3 DEF SlotInv, ReceiveTypes, Receive!Loops, LoopRecords, TaskRecords,
         UsedRecords, Entries, Receive!Accounts
    <2> QED BY <1>1, <2>1, <2>3, <2>4, TasksMove DEF SlotInv
  <1>3. CASE autoStop = 0
    <2>1. PICK l \in Receive!Loops :
            /\ l = used.starts + 1 /\ Receive!Spend("starts", MaxStarts)
            /\ autoStop' = l
            /\ receiveLoop' = Receive!Set(l, "claimed")
            /\ task' = [task EXCEPT ![t].pc = "starting", ![t].loop = l]
            /\ UNCHANGED store
      BY <1>3 DEF Receive!ClaimSlot
    <2>2. used' \in UsedRecords /\ used'.starts = used.starts + 1
      BY <2>1, UsedMore DEF SlotInv, ReceiveTypes, ReceiveBounds, Receive!ReceiveAssumption
    <2>3. receiveLoop[l] = Receive!NoLoop /\ l \in 0..MaxStarts
      <3>1. l > used.starts
        BY <2>1, LoopFacts
      <3>2. l \in 0..MaxStarts
        BY DEF Receive!Loops, ReceiveBounds, Receive!ReceiveAssumption
      <3> QED BY <3>1, <3>2 DEF SlotInv, StartsInv
    <2>4. /\ receiveLoop' \in [Receive!Loops -> LoopRecords] /\ receiveLoop'[l].pc = "claimed"
          /\ ~receiveLoop'[l].stopped
          /\ \A k \in Receive!Loops \ {l} : receiveLoop'[k] = receiveLoop[k]
      BY <2>1, <2>3, LoopFacts, LoopPc, ReceiveConstants DEF LoopPcs
    <2>5. /\ task' \in [Tasks -> TaskRecords] /\ task'[t].pc = "starting" /\ task'[t].loop = l
          /\ \A u \in Tasks \ {t} : task'[u] = task[u]
      <3> DEFINE r == [task[t] EXCEPT !.pc = "starting", !.loop = l]
      <3>1. task[t] \in TaskRecords
        BY LoopFacts
      <3>2. r \in TaskRecords /\ r.pc = "starting" /\ r.loop = l
        BY <2>3, <3>1 DEF TaskRecords, TaskPcs
      <3>3. task' = [task EXCEPT ![t] = r]
        BY <2>1, LoopFacts
      <3> HIDE DEF r
      <3> QED BY <3>2, <3>3, LoopFacts
    <2>6. ReceiveTypes'
      BY <1>1, <2>1, <2>2, <2>3, <2>4, <2>5 DEF SlotInv, ReceiveTypes, Receive!Loops, LoopRecords,
         TaskRecords, UsedRecords, Entries, Receive!Accounts
    <2>7. Receive!SlotOwned'
      <3>1. \A k \in Receive!Loops : Receive!Alive(k) => receiveLoop[k].stopped
        BY <1>3, LoopFacts DEF SlotInv, Receive!SlotOwned
      <3>2. \A k \in Receive!Loops : Receive!Alive(k)' /\ ~receiveLoop'[k].stopped <=> k = l
        BY <2>4, <3>1 DEF Receive!Alive
      <3>3. Receive!Loops' = Receive!Loops
        BY DEF Receive!Loops
      <3> QED BY <2>1, <3>2, <3>3 DEF Receive!SlotOwned, Receive!Alive
    <2>8. StartsInv'
      <3>1. \A u \in Tasks, k \in Receive!Loops :
              Starts(u, k)' <=> (u = t /\ k = l) \/ (u # t /\ k # l /\ Starts(u, k))
        <4> SUFFICES ASSUME NEW u \in Tasks, NEW k \in Receive!Loops
                     PROVE  Starts(u, k)' <=> (u = t /\ k = l) \/ (u # t /\ k # l /\ Starts(u, k))
          OBVIOUS
        <4>1. ~Starts(u, l)
          BY <2>3, ReceiveConstants DEF Starts
        <4>2. CASE u = t
          BY <2>4, <2>5, <4>2 DEF Starts
        <4>3. CASE u # t /\ k = l
          <5>1. task[u].pc = "starting" => task[u].loop # l
            <6> SUFFICES ASSUME task[u].pc = "starting" PROVE task[u].loop # l
              OBVIOUS
            <6>1. PICK j \in Receive!Loops : Starts(u, j)
              BY DEF SlotInv, StartsInv
            <6> QED BY <4>1, <6>1 DEF Starts
          <5> QED BY <2>5, <4>3, <5>1 DEF Starts
        <4>4. CASE u # t /\ k # l
          BY <2>4, <2>5, <4>4 DEF Starts
        <4> QED BY <4>2, <4>3, <4>4
      <3>2. \A k \in Receive!Loops : k > used'.starts => receiveLoop'[k] = Receive!NoLoop
        <4> SUFFICES ASSUME NEW k \in Receive!Loops, k > used'.starts
                     PROVE  receiveLoop'[k] = Receive!NoLoop
          OBVIOUS
        <4>1. k > used.starts /\ k # l
          BY <2>1, <2>2, LoopFacts
        <4> QED BY <2>4, <4>1 DEF SlotInv, StartsInv
      <3>3. ASSUME NEW u \in Tasks, task'[u].pc = "starting"
            PROVE  \E k \in Receive!Loops : Starts(u, k)'
        <4>1. CASE u = t
          BY <3>1, <4>1
        <4>2. CASE u # t
          <5>1. task[u].pc = "starting"
            BY <2>5, <3>3, <4>2
          <5>2. PICK k \in Receive!Loops : Starts(u, k)
            BY <5>1 DEF SlotInv, StartsInv
          <5>3. k # l
            BY <2>3, <5>2, ReceiveConstants DEF Starts
          <5> QED BY <3>1, <4>2, <5>2, <5>3
        <4> QED BY <4>1, <4>2
      <3>4. ASSUME NEW k \in Receive!Loops, receiveLoop'[k].pc \in Early
            PROVE  \E u \in Tasks : Starts(u, k)'
        <4>1. CASE k = l
          BY <3>1, <4>1
        <4>2. CASE k # l
          <5>1. receiveLoop[k].pc \in Early
            BY <2>4, <3>4, <4>2
          <5>2. PICK u \in Tasks : Starts(u, k)
            BY <5>1 DEF SlotInv, StartsInv, Early
          <5>3. u # t
            BY <1>1, <5>2 DEF Starts
          <5> QED BY <3>1, <4>2, <5>2, <5>3
        <4> QED BY <4>1, <4>2
      <3>5. \A u, v \in Tasks, k \in Receive!Loops : Starts(u, k)' /\ Starts(v, k)' => u = v
        BY <3>1 DEF SlotInv, StartsInv
      <3>6. Receive!Loops' = Receive!Loops /\ Receive!NoLoop' = Receive!NoLoop
        BY DEF Receive!Loops, Receive!NoLoop
      <3> QED BY <3>2, <3>3, <3>4, <3>5, <3>6 DEF StartsInv, Early
    <2> QED BY <2>6, <2>7, <2>8 DEF SlotInv
  <1> QED BY <1>2, <1>3

LEMMA StartFacts ==
  ASSUME ReceiveBounds, SlotInv, NEW t \in Tasks, NEW l \in Receive!Loops, NEW pc \in Early,
         Receive!Starting(t, l, pc)
  PROVE  Starts(t, l) /\ l \in Nat /\ l <= used.starts /\ receiveLoop[l].pc = pc /\ pc # "none"
  BY LoopFacts DEF Receive!Starting, Starts, Early

LEMMA SlotStartFails ==
  ASSUME ReceiveBounds, SlotInv, UNCHANGED upset, NEW t \in Tasks, NEW l \in Receive!Loops, NEW pc \in Early,
         Receive!Starting(t, l, pc), Receive!StartFails(t, l)
  PROVE  SlotInv'
  <1>1. UNCHANGED <<session, conn, pending, receiving, store, saved, used>>
        /\ Receive!ReleaseSlot(l) /\ Receive!Return(t)
        /\ receiveLoop' = [receiveLoop EXCEPT ![l] = Receive!NoLoop]
    BY DEF Receive!StartFails, Receive!world
  <1>2. /\ receiveLoop' \in [Receive!Loops -> LoopRecords] /\ receiveLoop'[l].pc = "none"
        /\ \A k \in Receive!Loops \ {l} : receiveLoop'[k] = receiveLoop[k]
    BY <1>1, LoopFacts, LoopEnds
  <1>3. /\ task' \in [Tasks -> TaskRecords] /\ task'[t].pc = "idle"
        /\ \A u \in Tasks \ {t} : task'[u] = task[u]
    BY <1>1, LoopFacts, TaskIdle
  <1>4. Receive!SlotOwned'
    BY <1>1, <1>2, LoopFacts, SlotReleased DEF SlotInv
  <1>5. StartsInv'
    <2>1. receiveLoop'[l].pc \notin Early
      BY <1>2 DEF Early
    <2>2. Starts(t, l) /\ l \in Nat /\ l <= used.starts
      BY StartFacts
    <2> QED BY <1>1, <1>2, <1>3, <2>1, <2>2, LoopFacts, StartsEnd DEF SlotInv
  <1>6. autoStop' \in 0..MaxStarts
    BY <1>1 DEF Receive!ReleaseSlot, SlotInv, ReceiveTypes, ReceiveBounds, Receive!ReceiveAssumption
  <1>7. ReceiveTypes'
    BY <1>1, <1>2, <1>3, <1>6 DEF SlotInv, ReceiveTypes, Receive!Loops, LoopRecords,
       TaskRecords, UsedRecords, Entries, Receive!Accounts
  <1> QED BY <1>4, <1>5, <1>7 DEF SlotInv

LEMMA SlotSnapshot ==
  ASSUME ReceiveBounds, SlotInv, UNCHANGED upset, NEW t \in Tasks, NEW l \in Receive!Loops,
         Receive!SnapshotClient(t, l) \/ Receive!SnapshotAddress(t, l)
  PROVE  SlotInv'
  <1>1. CASE Receive!StartFails(t, l)
    <2>1. Receive!Starting(t, l, "claimed") \/ Receive!Starting(t, l, "client")
      BY DEF Receive!SnapshotClient, Receive!SnapshotAddress
    <2> QED BY <1>1, <2>1, SlotStartFails DEF Early
  <1>2. CASE ~Receive!StartFails(t, l)
    <2>1. /\ UNCHANGED <<session, conn, pending, autoStop, receiving, store, saved, task, used>>
          /\ receiveLoop[l].pc \in {"claimed", "client"}
      BY <1>2 DEF Receive!SnapshotClient, Receive!SnapshotAddress, Receive!Starting, Receive!world,
         Receive!frontend
    <2>2. /\ receiveLoop' \in [Receive!Loops -> LoopRecords]
          /\ receiveLoop'[l].pc \in {"client", "address"}
          /\ receiveLoop'[l].stopped = receiveLoop[l].stopped
          /\ \A k \in Receive!Loops \ {l} : receiveLoop'[k] = receiveLoop[k]
      <3>1. receiveLoop[l] \in LoopRecords
        BY LoopFacts
      <3>2. CASE receiveLoop' = [receiveLoop EXCEPT ![l].pc = "client", ![l].conn = conn]
        <4> DEFINE r == [receiveLoop[l] EXCEPT !.pc = "client", !.conn = conn]
        <4>1. r \in LoopRecords /\ r.pc = "client" /\ r.stopped = receiveLoop[l].stopped
          BY <3>1 DEF LoopRecords, LoopPcs, SlotInv, ReceiveTypes
        <4>2. receiveLoop' = [receiveLoop EXCEPT ![l] = r]
          BY <3>2, LoopFacts
        <4> HIDE DEF r
        <4> QED BY <4>1, <4>2, LoopFacts
      <3>3. CASE receiveLoop' = [receiveLoop EXCEPT ![l].pc = "address", ![l].account = Receive!Active]
                 /\ Receive!Unlocked
        <4> DEFINE r == [receiveLoop[l] EXCEPT !.pc = "address", !.account = Receive!Active]
        <4>1. Receive!Active \in Receive!Accounts
          BY <3>3 DEF Receive!Active, Receive!Unlocked, Receive!Accounts, SlotInv, ReceiveTypes
        <4>2. r \in LoopRecords /\ r.pc = "address" /\ r.stopped = receiveLoop[l].stopped
          BY <3>1, <4>1 DEF LoopRecords, LoopPcs
        <4>3. receiveLoop' = [receiveLoop EXCEPT ![l] = r]
          BY <3>3, LoopFacts
        <4> HIDE DEF r
        <4> QED BY <4>2, <4>3, LoopFacts
      <3> QED BY <1>2, <3>2, <3>3 DEF Receive!SnapshotClient, Receive!SnapshotAddress
    <2>3. receiving' \in BOOLEAN /\ used' \in UsedRecords
      BY <2>1 DEF SlotInv, ReceiveTypes
    <2>4. ReceiveTypes'
      BY <2>1, <2>2, <2>3, TypesOfLoop DEF SlotInv
    <2> QED BY <2>1, <2>2, <2>4, LoopMoves DEF SlotInv, Early
  <1> QED BY <1>1, <1>2

LEMMA SlotSubscribe ==
  ASSUME ReceiveBounds, SlotInv, UNCHANGED upset, NEW t \in Tasks, NEW l \in Receive!Loops, Receive!Subscribe(t, l)
  PROVE  SlotInv'
  <1>1. Receive!Starting(t, l, "address") /\ "address" \in Early
    BY DEF Receive!Subscribe, Early
  <1>2. CASE Receive!StartFails(t, l)
    BY <1>1, <1>2, SlotStartFails
  <1>3. CASE ~Receive!StartFails(t, l)
    <2>1. /\ UNCHANGED <<session, conn, pending, autoStop, receiving, saved, used>>
          /\ receiveLoop' = Receive!Set(l, "sweep") /\ Receive!Return(t)
          /\ store' = [store EXCEPT !.account = task[t].index]
      BY <1>3 DEF Receive!Subscribe, Receive!world
    <2>2. store' \in [enabled : BOOLEAN, account : Indexes \cup {-1}]
      BY <2>1 DEF SlotInv, ReceiveTypes, TaskRecords
    <2>3. /\ receiveLoop' \in [Receive!Loops -> LoopRecords] /\ receiveLoop'[l].pc = "sweep"
          /\ receiveLoop'[l].stopped = receiveLoop[l].stopped
          /\ \A k \in Receive!Loops \ {l} : receiveLoop'[k] = receiveLoop[k]
      BY <2>1, LoopFacts, LoopPc DEF LoopPcs
    <2>4. /\ task' \in [Tasks -> TaskRecords] /\ task'[t].pc = "idle"
          /\ \A u \in Tasks \ {t} : task'[u] = task[u]
      BY <2>1, LoopFacts, TaskIdle
    <2>5. Starts(t, l) /\ l \in Nat /\ l <= used.starts /\ receiveLoop[l].pc # "none"
      BY <1>1, StartFacts
    <2>6. StartsInv'
      <3>1. receiveLoop'[l].pc \notin Early
        BY <2>3 DEF Early
      <3> QED BY <2>1, <2>3, <2>4, <2>5, <3>1, LoopFacts, StartsEnd DEF SlotInv
    <2>7. Receive!SlotOwned'
      BY <2>1, <2>3, <2>5, SlotKept DEF SlotInv
    <2>8. ReceiveTypes'
      BY <2>1, <2>2, <2>3, <2>4 DEF SlotInv, ReceiveTypes, Receive!Loops, LoopRecords,
         TaskRecords, UsedRecords, Entries, Receive!Accounts
    <2> QED BY <2>6, <2>7, <2>8 DEF SlotInv
  <1> QED BY <1>2, <1>3

-----------------------------------------------------------------------------
LEMMA SlotInit == ASSUME ReceiveBounds, Receive!Init PROVE SlotInv
  <1>1. 0 \in 0..(MaxDrops + 1) /\ 1 \in 0..(MaxDrops + 1) /\ 0 \in 0..MaxStarts /\ 0 \in Indexes
        /\ 0 \in 0..MaxClicks /\ 0 \in 0..MaxLocks /\ 0 \in 0..MaxDrops /\ 0 \in 0..MaxFailures
    BY DEF ReceiveBounds, Receive!ReceiveAssumption
  <1>2. Receive!NoLoop \in LoopRecords /\ Receive!Idle \in TaskRecords
    BY ReceiveTyped DEF ReceiveBounds
  <1>3. ReceiveTypes
    <2>1. /\ session \in [wallet : Wallets \cup {NoWallet}, index : Indexes]
          /\ conn \in 0..(MaxDrops + 1) /\ autoStop \in 0..MaxStarts /\ pending = {}
          /\ receiving \in BOOLEAN /\ saved \in BOOLEAN /\ upset = {}
          /\ store \in [enabled : BOOLEAN, account : Indexes \cup {-1}]
      BY <1>1 DEF Receive!Init, Receive!Locked
    <2>2. receiveLoop \in [Receive!Loops -> LoopRecords] /\ task \in [Tasks -> TaskRecords]
      BY <1>2 DEF Receive!Init
    <2>3. used \in UsedRecords
      BY <1>1 DEF Receive!Init, UsedRecords
    <2> QED BY <2>1, <2>2, <2>3 DEF ReceiveTypes
  <1>4. StartsInv
    BY ReceiveConstants DEF Receive!Init, StartsInv, Starts
  <1>5. Receive!SlotOwned
    <2>1. 0 \notin Receive!Loops
      BY DEF Receive!Loops, ReceiveBounds, Receive!ReceiveAssumption
    <2> QED BY <2>1, ReceiveConstants DEF Receive!Init, Receive!SlotOwned, Receive!Alive
  <1> QED BY <1>3, <1>4, <1>5 DEF SlotInv

LEMMA SlotTaskStep ==
  ASSUME ReceiveBounds, SlotInv, NEW t \in Tasks, Receive!TaskStep(t) PROVE SlotInv'
  <1>1. UNCHANGED upset
    BY DEF Receive!TaskStep
  <1>2. ASSUME NEW l \in Receive!Loops,
               Receive!SnapshotClient(t, l) \/ Receive!SnapshotAddress(t, l) \/ Receive!Subscribe(t, l)
        PROVE  SlotInv'
    BY <1>1, <1>2, SlotSnapshot, SlotSubscribe
  <1>3. CASE Receive!SaveToggle(t) \/ Receive!Toggled(t) \/ Receive!FollowAccount(t) \/ Receive!InitStore(t)
    BY <1>1, <1>3, SlotTaskOnly
  <1>4. CASE Receive!StopBeforeStart(t) \/ Receive!Stop(t)
    BY <1>1, <1>4, SlotStop
  <1>5. CASE Receive!ClaimSlot(t)
    BY <1>1, <1>5, SlotClaim
  <1> QED BY <1>2, <1>3, <1>4, <1>5 DEF Receive!TaskStep

LEMMA SlotLoopStep ==
  ASSUME ReceiveBounds, SlotInv, NEW l \in Receive!Loops, Receive!LoopStep(l) PROVE SlotInv'
  <1>1. UNCHANGED upset
    BY DEF Receive!LoopStep
  <1>2. ASSUME NEW p \in Blocks \X Receive!Accounts, Receive!ReceiveBlock(l, p) PROVE SlotInv'
    BY <1>1, <1>2, SlotReceiveBlock
  <1>3. CASE Receive!SweepStops(l)
    BY <1>1, <1>3, SlotSweepEnds, LoopFacts DEF Receive!SweepStops
  <1>4. CASE Receive!SweepBegins(l)
    BY <1>1, <1>4, SlotSweepBegins
  <1>5. CASE Receive!PassEnds(l) \/ Receive!NextSignal(l)
    BY <1>1, <1>5, SlotLoopPc
  <1>6. CASE Receive!Refetch(l)
    BY <1>1, <1>6, SlotRefetch
  <1>7. CASE Receive!LoopExits(l)
    BY <1>1, <1>7, SlotLoopExits
  <1> QED BY <1>2, <1>3, <1>4, <1>5, <1>6, <1>7 DEF Receive!LoopStep

LEMMA SlotNext == ASSUME ReceiveBounds, SlotInv, [Receive!Next]_Receive!vars PROVE SlotInv'
  <1>1. ASSUME NEW t \in Tasks, Receive!User(t) \/ Receive!TaskStep(t) PROVE SlotInv'
    BY <1>1, SlotUser, SlotTaskStep
  <1>2. ASSUME NEW l \in Receive!Loops, Receive!LoopStep(l) PROVE SlotInv'
    BY <1>2, SlotLoopStep
  <1>3. ASSUME NEW b \in Blocks, NEW a \in Receive!Accounts, Receive!Arrive(b, a) PROVE SlotInv'
    BY <1>3, SlotArrive
  <1>4. CASE Receive!Lock
    BY <1>4, SlotLock
  <1>5. CASE Receive!Disconnect
    BY <1>5, SlotDisconnect
  <1>6. CASE Receive!Connect
    BY <1>6, SlotConnect
  <1>7. CASE UNCHANGED Receive!vars
    <2>1. UNCHANGED <<session, conn, pending, autoStop, receiveLoop, receiving, store, saved, task, used,
                upset>>
      BY <1>7 DEF Receive!vars, Receive!world, Receive!backend, Receive!frontend
    <2>2. ReceiveTypes'
      BY <2>1 DEF SlotInv, ReceiveTypes, Receive!Loops, LoopRecords, TaskRecords, UsedRecords,
         Entries, Receive!Accounts
    <2> QED BY <2>1, <2>2, TasksMove DEF SlotInv
  <1> QED BY <1>1, <1>2, <1>3, <1>4, <1>5, <1>6, <1>7 DEF Receive!Next

LEMMA SlotInvariant == ASSUME ReceiveBounds PROVE Receive!Spec => []SlotInv
  <1>1. Receive!Init => SlotInv
    BY SlotInit
  <1>2. SlotInv /\ [Receive!Next]_Receive!vars => SlotInv'
    BY SlotNext
  <1> QED BY <1>1, <1>2, PTL DEF Receive!Spec

\* Every field of auto-receive keeps its type, and a start in progress belongs to one
\* of the store's tasks (StartAutoReceive; the start action of autoReceive.ts).
THEOREM ReceiveKeepsTypes == ASSUME ReceiveBounds PROVE Receive!Spec => []Receive!TypeOK
  <1>1. ASSUME SlotInv PROVE Receive!TypeOK
    <2>1. MaxStale - 1 \in Int /\ 0..(MaxStale - 1) \subseteq 0..MaxStale
      BY DEF ReceiveBounds, Receive!ReceiveAssumption
    <2>2. receiveLoop \in [Receive!Loops ->
            [pc : {"none", "claimed", "client", "address", "sweep", "pass", "wait", "select"},
             conn : 0..(MaxDrops + 1), account : Receive!Accounts \cup {<<NoWallet, 0>>},
             stopped : BOOLEAN, signal : BOOLEAN, todo : SUBSET (Blocks \X Receive!Accounts),
             before : 0..Receive!Cardinality(Blocks), stale : 0..MaxStale,
             gaveUp : {"no", "failed", "stalled"}]]
      <3>1. receiveLoop \in [Receive!Loops -> LoopRecords] /\ Receive!Cardinality(Blocks) = Cardinality(Blocks)
        BY <1>1, SameCardinality DEF SlotInv, ReceiveTypes
      <3> QED BY <2>1, <3>1 DEF LoopRecords, LoopPcs, Entries
    <2>3. \A l \in Receive!Loops : receiveLoop[l].pc \in {"claimed", "client", "address"} =>
            \E t \in Tasks : task[t].pc = "starting" /\ task[t].loop = l
      BY <1>1 DEF SlotInv, StartsInv, Starts
    <2> QED BY <1>1, <2>2, <2>3 DEF SlotInv, ReceiveTypes, Entries, Receive!TypeOK
  <1> QED BY <1>1, SlotInvariant, PTL

\* However starts, stops, failed starts, lost connections and exits overlap, autoStop
\* names exactly the loop that still runs and was not told to stop: no phantom
\* "already running", and no loop gives back another one's slot (StartAutoReceive's
\* claim, releaseSlot, StopAutoReceive, disconnectLocked).
THEOREM SlotIsOwned == ASSUME ReceiveBounds PROVE Receive!Spec => []Receive!SlotOwned
  <1>1. SlotInv => Receive!SlotOwned
    BY DEF SlotInv
  <1> QED BY <1>1, SlotInvariant, PTL
-----------------------------------------------------------------------------
(* The loop in the slot is on the connection there is.                     *)

\* A loop goes on with the connection and the account it started with.
GoesOn(l) ==
  /\ receiveLoop'[l].conn = receiveLoop[l].conn /\ receiveLoop'[l].account = receiveLoop[l].account
  /\ \/ receiveLoop'[l].pc = receiveLoop[l].pc
     \/ Receive!Subscribed(l) /\ receiveLoop'[l].pc \in {"sweep", "pass", "wait", "select"}

Leaves(l) == l # autoStop /\ Receive!Subscribed(l) /\ receiveLoop'[l] = Receive!NoLoop

LEMMA ServeKept ==
  ASSUME ServeInv, conn' = conn, upset \subseteq upset' \/ conn # 0,
         autoStop' # 0 => autoStop' = autoStop /\ GoesOn(autoStop)
  PROVE  ServeInv'
  <1>1. "drop" \notin upset' => conn' # 0
    BY DEF ServeInv
  <1>2. CASE autoStop' = 0
    BY <1>1, <1>2 DEF ServeInv
  <1>3. CASE autoStop' # 0
    BY <1>1, <1>3 DEF ServeInv, GoesOn, Receive!Subscribed
  <1> QED BY <1>2, <1>3

\* A loop's step: each loop goes on, or it is not the slot's and leaves.
LEMMA LoopsGoOn ==
  ASSUME ReceiveBounds, SlotInv, ServeInv, NEW l \in Receive!Loops, Receive!LoopStep(l)
  PROVE  /\ UNCHANGED <<session, conn, store, saved, task, upset, autoStop>>
         /\ \A k \in Receive!Loops : GoesOn(k) \/ Leaves(k)
  <1>1. UNCHANGED <<session, conn, store, saved, task, upset>> /\ Receive!Subscribed(l)
    BY DEF Receive!LoopStep, Receive!SweepBegins, Receive!SweepStops, Receive!SweepEnds,
           Receive!PassEnds, Receive!Refetch, Receive!ReceiveBlock, Receive!NextSignal,
           Receive!LoopExits, Receive!Sweeping, Receive!Subscribed, Receive!frontend, Receive!world
  <1>2. receiveLoop \in [Receive!Loops -> LoopRecords]
    BY LoopFacts
  <1>3. CASE Receive!LoopExits(l)
    <2>1. autoStop # l
      <3> SUFFICES ASSUME autoStop = l PROVE FALSE
        OBVIOUS
      <3>1. receiveLoop[l].conn = conn
        BY <1>3, LoopFacts DEF Receive!LoopExits, ServeInv
      <3>2. receiveLoop[l].stopped
        BY <1>3, <3>1 DEF Receive!LoopExits
      <3> QED BY <3>2 DEF SlotInv, Receive!SlotOwned
    <2>2. autoStop' = autoStop /\ receiveLoop' = [receiveLoop EXCEPT ![l] = Receive!NoLoop]
      BY <1>3, <2>1 DEF Receive!LoopExits, Receive!ReleaseSlot
    <2>3. Leaves(l) /\ \A k \in Receive!Loops \ {l} : GoesOn(k)
      BY <1>1, <1>2, <2>1, <2>2 DEF Leaves, GoesOn
    <2> QED BY <1>1, <2>2, <2>3
  <1>4. CASE ~Receive!LoopExits(l)
    <2>1. autoStop' = autoStop
      BY <1>4 DEF Receive!LoopStep, Receive!SweepBegins, Receive!SweepStops, Receive!SweepEnds,
         Receive!PassEnds, Receive!Refetch, Receive!ReceiveBlock, Receive!NextSignal
    <2>2. /\ receiveLoop'[l].pc \in {"sweep", "pass", "wait", "select"}
          /\ receiveLoop'[l].conn = receiveLoop[l].conn
          /\ receiveLoop'[l].account = receiveLoop[l].account
          /\ \A k \in Receive!Loops \ {l} : receiveLoop'[k] = receiveLoop[k]
      <3>1. receiveLoop[l] \in LoopRecords
        BY <1>2
      <3>2. ASSUME NEW why \in {"no", "failed", "stalled"}, Receive!SweepEnds(l, why)
            PROVE  /\ receiveLoop'[l].pc \in {"sweep", "pass", "wait", "select"}
                   /\ receiveLoop'[l].conn = receiveLoop[l].conn
                   /\ receiveLoop'[l].account = receiveLoop[l].account
                   /\ \A k \in Receive!Loops \ {l} : receiveLoop'[k] = receiveLoop[k]
        BY <1>2, <3>2, LoopSweepEnds
      <3>3. CASE Receive!SweepBegins(l) \/ Receive!PassEnds(l) \/ Receive!NextSignal(l)
        BY <1>2, <3>1, <3>3 DEF Receive!SweepBegins, Receive!PassEnds, Receive!NextSignal, Receive!Set,
           LoopRecords
      <3>4. CASE Receive!Refetch(l) /\ ~\E why \in {"no", "failed", "stalled"} : Receive!SweepEnds(l, why)
        BY <1>2, <3>1, <3>4 DEF Receive!Refetch, LoopRecords
      <3>5. ASSUME NEW p \in Blocks \X Receive!Accounts, Receive!ReceiveBlock(l, p)
            PROVE  /\ receiveLoop'[l].pc \in {"sweep", "pass", "wait", "select"}
                   /\ receiveLoop'[l].conn = receiveLoop[l].conn
                   /\ receiveLoop'[l].account = receiveLoop[l].account
                   /\ \A k \in Receive!Loops \ {l} : receiveLoop'[k] = receiveLoop[k]
        BY <1>2, <3>1, <3>5 DEF Receive!ReceiveBlock, LoopRecords
      <3> QED BY <1>4, <3>2, <3>3, <3>4, <3>5 DEF Receive!LoopStep, Receive!SweepStops
    <2>3. \A k \in Receive!Loops : GoesOn(k)
      BY <1>1, <2>2 DEF GoesOn
    <2> QED BY <1>1, <2>1, <2>3
  <1> QED BY <1>3, <1>4

LEMMA ArriveGoesOn ==
  ASSUME ReceiveBounds, SlotInv, NEW b \in Blocks, NEW a \in Receive!Accounts, Receive!Arrive(b, a)
  PROVE  /\ UNCHANGED <<session, conn, store, saved, task, upset, autoStop>>
         /\ \A l \in Receive!Loops : GoesOn(l)
  <1>1. UNCHANGED <<session, conn, store, saved, task, upset, autoStop>>
    BY DEF Receive!Arrive, Receive!frontend
  <1>2. ASSUME NEW l \in Receive!Loops PROVE GoesOn(l)
    <2>1. receiveLoop'[l] \in {receiveLoop[l], [receiveLoop[l] EXCEPT !.signal = TRUE]}
      BY DEF Receive!Arrive
    <2>2. receiveLoop[l] \in LoopRecords
      BY LoopFacts
    <2> QED BY <2>1, <2>2 DEF GoesOn, LoopRecords
  <1> QED BY <1>1, <1>2

\* The steps of a start in progress.
LEMMA ServeStarts ==
  ASSUME ReceiveBounds, SlotInv, ServeInv, NEW t \in Tasks, NEW l \in Receive!Loops, UNCHANGED upset,
         Receive!SnapshotClient(t, l) \/ Receive!SnapshotAddress(t, l) \/ Receive!Subscribe(t, l)
  PROVE  ServeInv'
  <1>1. conn' = conn /\ receiveLoop \in [Receive!Loops -> LoopRecords] /\ autoStop \in {0} \cup Receive!Loops
    BY LoopFacts DEF Receive!SnapshotClient, Receive!SnapshotAddress, Receive!Subscribe,
       Receive!StartFails, Receive!world
  <1>2. CASE Receive!StartFails(t, l)
    <2>1. autoStop' # 0 => autoStop' = autoStop /\ autoStop # l
      BY <1>2 DEF Receive!StartFails, Receive!ReleaseSlot
    <2>2. autoStop' # 0 => receiveLoop'[autoStop] = receiveLoop[autoStop]
      BY <1>1, <1>2, <2>1 DEF Receive!StartFails
    <2> QED BY <1>1, <2>1, <2>2, ServeKept DEF GoesOn
  <1>3. CASE ~Receive!StartFails(t, l)
    <2>1. autoStop' = autoStop
      BY <1>3 DEF Receive!SnapshotClient, Receive!SnapshotAddress, Receive!Subscribe
    <2>2. \A k \in Receive!Loops \ {l} : receiveLoop'[k] = receiveLoop[k]
      BY <1>1, <1>3 DEF Receive!SnapshotClient, Receive!SnapshotAddress, Receive!Subscribe, Receive!Set
    <2>3. CASE autoStop # l
      BY <1>1, <2>1, <2>2, <2>3, ServeKept DEF GoesOn
    <2>4. CASE autoStop = l
      <3>1. receiveLoop[l] \in LoopRecords
        BY <1>1
      <3>2. conn # 0 /\ receiveLoop'[l].conn = conn
        <4>1. CASE Receive!SnapshotClient(t, l)
          BY <1>1, <1>3, <3>1, <4>1 DEF Receive!SnapshotClient, LoopRecords
        <4>2. CASE Receive!SnapshotAddress(t, l) \/ Receive!Subscribe(t, l)
          <5>1. receiveLoop[l].pc \in {"client", "address"} /\ receiveLoop'[l].conn = receiveLoop[l].conn
            BY <1>1, <1>3, <3>1, <4>2 DEF Receive!SnapshotAddress, Receive!Subscribe,
               Receive!Starting, Receive!Set, LoopRecords
          <5>2. autoStop # 0
            BY <2>4, LoopFacts
          <5> QED BY <2>4, <5>1, <5>2 DEF ServeInv
        <4> QED BY <4>1, <4>2
      <3> QED BY <1>1, <2>1, <2>4, <3>2 DEF ServeInv
    <2> QED BY <2>3, <2>4
  <1> QED BY <1>2, <1>3

LEMMA ServeTaskStep ==
  ASSUME ReceiveBounds, SlotInv, ServeInv, NEW t \in Tasks, Receive!TaskStep(t)
  PROVE  ServeInv'
  <1>1. UNCHANGED upset
    BY DEF Receive!TaskStep
  <1>2. ASSUME NEW l \in Receive!Loops,
               Receive!SnapshotClient(t, l) \/ Receive!SnapshotAddress(t, l) \/ Receive!Subscribe(t, l)
        PROVE  ServeInv'
    BY <1>1, <1>2, ServeStarts
  <1>3. CASE Receive!SaveToggle(t) \/ Receive!Toggled(t) \/ Receive!FollowAccount(t) \/ Receive!InitStore(t)
    <2>1. UNCHANGED <<conn, autoStop, receiveLoop>>
      BY <1>3 DEF Receive!SaveToggle, Receive!Toggled, Receive!FollowAccount, Receive!InitStore,
         Receive!backend, Receive!world
    <2> QED BY <1>1, <2>1, ServeKept DEF GoesOn
  <1>4. CASE Receive!StopBeforeStart(t) \/ Receive!Stop(t)
    <2>1. conn' = conn /\ autoStop' = 0
      BY <1>4 DEF Receive!StopBeforeStart, Receive!Stop, Receive!StopAutoReceive, Receive!world
    <2> QED BY <1>1, <2>1, ServeKept
  <1>5. CASE Receive!ClaimSlot(t)
    <2>1. conn' = conn
      BY <1>5 DEF Receive!ClaimSlot, Receive!world
    <2>2. CASE autoStop # 0
      <3>1. UNCHANGED <<autoStop, receiveLoop>>
        BY <1>5, <2>2 DEF Receive!ClaimSlot
      <3> QED BY <1>1, <2>1, <3>1, ServeKept DEF GoesOn
    <2>3. CASE autoStop = 0
      <3>1. PICK l \in Receive!Loops : autoStop' = l /\ receiveLoop' = Receive!Set(l, "claimed")
        BY <1>5, <2>3 DEF Receive!ClaimSlot
      <3>2. receiveLoop'[autoStop'].pc = "claimed"
        BY <3>1, LoopPc, LoopFacts DEF LoopPcs
      <3> QED BY <1>1, <2>1, <3>2 DEF ServeInv
    <2> QED BY <2>2, <2>3
  <1> QED BY <1>2, <1>3, <1>4, <1>5 DEF Receive!TaskStep

LEMMA ServeNext == ASSUME ReceiveBounds, SlotInv, ServeInv, [Receive!Next]_Receive!vars PROVE ServeInv'
  <1>1. ASSUME NEW t \in Tasks, Receive!TaskStep(t) PROVE ServeInv'
    BY <1>1, ServeTaskStep
  <1>2. ASSUME NEW l \in Receive!Loops, Receive!LoopStep(l) PROVE ServeInv'
    <2>1. UNCHANGED <<conn, upset, autoStop>> /\ (autoStop # 0 => GoesOn(autoStop))
      BY <1>2, LoopsGoOn, LoopFacts DEF Leaves
    <2> QED BY <2>1, ServeKept
  <1>3. ASSUME NEW b \in Blocks, NEW a \in Receive!Accounts, Receive!Arrive(b, a) PROVE ServeInv'
    <2>1. UNCHANGED <<conn, upset, autoStop>> /\ (autoStop # 0 => GoesOn(autoStop))
      BY <1>3, ArriveGoesOn, LoopFacts
    <2> QED BY <2>1, ServeKept
  <1>4. CASE Receive!Disconnect
    BY <1>4 DEF Receive!Disconnect, ServeInv
  <1>5. CASE Receive!Connect
    <2>1. UNCHANGED <<autoStop, receiveLoop>> /\ conn = 0 /\ conn' = used.drops + 1
      BY <1>5 DEF Receive!Connect, Receive!backend
    <2>2. conn' # 0
      BY <2>1 DEF SlotInv, ReceiveTypes, UsedRecords, ReceiveBounds, Receive!ReceiveAssumption
    <2> QED BY <2>1, <2>2 DEF ServeInv
  <1>6. CASE Receive!Lock \/ UNCHANGED Receive!vars \/ \E t \in Tasks : Receive!User(t)
    <2>1. UNCHANGED <<conn, autoStop, receiveLoop>>
      BY <1>6 DEF Receive!Lock, Receive!vars, Receive!User, Receive!SwitchAccount, Receive!Unlock,
         Receive!Toggle, Receive!world, Receive!backend
    <2>2. upset \subseteq upset' \/ "drop" \in upset' \/ conn # 0
      BY <1>6 DEF Receive!Lock, Receive!vars, Receive!User, Receive!SwitchAccount, Receive!Unlock,
         Receive!Toggle, Receive!Upset
    <2>3. CASE "drop" \in upset'
      BY <2>1, <2>3 DEF ServeInv
    <2>4. CASE upset \subseteq upset' \/ conn # 0
      BY <2>1, <2>4, ServeKept DEF GoesOn
    <2> QED BY <2>2, <2>3, <2>4
  <1> QED BY <1>1, <1>2, <1>3, <1>4, <1>5, <1>6 DEF Receive!Next

-----------------------------------------------------------------------------
(* Since a toggle on its own, and while no action begins before the last   *)
(* one is over, the store and the backend agree.                           *)

\* Steps that touch neither the store nor its tasks, and claim no slot.
LEMMA OffKept ==
  ASSUME OffInv, UNCHANGED <<store, saved, task>>, autoStop' \in {autoStop, 0}
  PROVE  OffInv'
  BY DEF OffInv, Receive!Idle

\* The one task under way takes a step.
LEMMA OffMoves ==
  ASSUME NEW t \in Tasks, \A u \in Tasks \ {t} : task'[u] = Receive!Idle,
         task'[t].pc = "idle" <=> task'[t] = Receive!Idle,
         task'[t].pc = "save" => task'[t].arg = store'.enabled,
         task'[t].pc # "save" => saved' = store'.enabled,
         task'[t].pc \in {"restop", "start", "starting"} => store'.enabled,
         task'[t].pc = "stop" => ~store'.enabled,
         task'[t].pc = "start" => autoStop' = 0,
         task'[t].pc \notin {"save", "toggled", "stop"} /\ ~store'.enabled => autoStop' = 0
  PROVE  OffInv'
  <1>1. \A u \in Tasks \ {t} : task'[u].pc = "idle"
    BY ReceiveConstants
  <1>2. Receive!Idle' = Receive!Idle
    BY DEF Receive!Idle
  <1> QED BY <1>1, <1>2 DEF OffInv

LEMMA OneTask ==
  ASSUME OffInv, NEW t \in Tasks, task[t].pc # "idle"
  PROVE  \A u \in Tasks \ {t} : task[u] = Receive!Idle /\ task[u].pc = "idle"
  BY DEF OffInv

\* An action of the user that overlaps no other: a toggle sets everything right,
\* and before a switch or an unlock it was.
LEMMA OnItsOwn ==
  ASSUME NEW t \in Tasks, Receive!User(t), "overlap" \notin upset'
  PROVE  /\ \A u \in Tasks : task[u] = Receive!Idle /\ task[u].pc = "idle"
         /\ ~Receive!Toggle(t) => upset \subseteq upset'
  <1>1. Receive!Quiet
    BY DEF Receive!User, Receive!SwitchAccount, Receive!Unlock, Receive!Toggle, Receive!Overlap, Receive!Upset
  <1> QED BY <1>1, ReceiveConstants DEF Receive!Quiet, Receive!User, Receive!SwitchAccount, Receive!Unlock

LEMMA OffUser ==
  ASSUME ReceiveBounds, SlotInv, "overlap" \notin upset => OffInv, "overlap" \notin upset',
         NEW t \in Tasks, Receive!User(t)
  PROVE  OffInv'
  <1>1. \A u \in Tasks : task[u] = Receive!Idle /\ task[u].pc = "idle"
    BY OnItsOwn
  <1>3. ASSUME NEW i \in Indexes, Receive!SwitchAccount(t, i)
        PROVE  OffInv'
    <2>1. /\ task[t].pc = "idle" /\ task'[t].pc = "follow"
          /\ \A u \in Tasks \ {t} : task'[u] = task[u]
      BY <1>3, Created DEF Receive!SwitchAccount
    <2>2. UNCHANGED <<autoStop, store, saved>>
      BY <1>3 DEF Receive!SwitchAccount, Receive!backend
    <2>3. saved = store.enabled /\ (~store.enabled => autoStop = 0)
      <3>1. upset \subseteq upset'
        BY <1>3 DEF Receive!SwitchAccount
      <3> QED BY <1>1, <3>1 DEF OffInv
    <2> QED BY <1>1, <2>3, <2>1, <2>2, OffMoves, ReceiveConstants
  <1>4. ASSUME NEW w \in Wallets, Receive!Unlock(t, w)
        PROVE  OffInv'
    <2>1. 0 \in Indexes
      BY DEF ReceiveBounds, Receive!ReceiveAssumption
    <2>2. /\ task[t].pc = "idle" /\ task'[t].pc = "init"
          /\ \A u \in Tasks \ {t} : task'[u] = task[u]
      BY <1>4, <2>1, Created DEF Receive!Unlock
    <2>3. UNCHANGED <<autoStop, store, saved>>
      BY <1>4 DEF Receive!Unlock, Receive!backend
    <2>4. saved = store.enabled /\ (~store.enabled => autoStop = 0)
      <3>1. upset \subseteq upset'
        BY <1>4 DEF Receive!Unlock
      <3> QED BY <1>1, <3>1 DEF OffInv
    <2> QED BY <1>1, <2>4, <2>2, <2>3, OffMoves, ReceiveConstants
  <1>5. ASSUME Receive!Toggle(t)
        PROVE  OffInv'
    <2> DEFINE r == [kind |-> "toggle", pc |-> "save", index |-> session.index, loop |-> 0,
                     arg |-> ~store.enabled]
    <2>1. task' = [task EXCEPT ![t] = r] /\ store' = [store EXCEPT !.enabled = ~@]
      BY <1>5 DEF Receive!Toggle
    <2>2. r.pc = "save" /\ r.arg = ~store.enabled
      OBVIOUS
    <2> HIDE DEF r
    <2>3. task'[t] = r /\ \A u \in Tasks \ {t} : task'[u] = Receive!Idle
      BY <1>1, <2>1, LoopFacts
    <2>4. store'.enabled = ~store.enabled
      BY <2>1 DEF SlotInv, ReceiveTypes
    <2> QED BY <2>2, <2>3, <2>4, OffMoves, ReceiveConstants
  <1> QED BY <1>3, <1>4, <1>5 DEF Receive!User

LEMMA OffTask ==
  ASSUME ReceiveBounds, SlotInv, OffInv, NEW t \in Tasks,
         Receive!SaveToggle(t) \/ Receive!Toggled(t) \/ Receive!FollowAccount(t) \/ Receive!InitStore(t)
  PROVE  OffInv'
  <1>1. task[t].pc \in {"save", "toggled", "follow", "init"} /\ UNCHANGED <<autoStop>>
    BY DEF Receive!SaveToggle, Receive!Toggled, Receive!FollowAccount, Receive!InitStore, Receive!backend
  <1>2. \A u \in Tasks \ {t} : task[u] = Receive!Idle /\ task[u].pc = "idle"
    BY <1>1, OneTask
  <1>3. /\ store \in [enabled : BOOLEAN, account : Indexes \cup {-1}]
        /\ task \in [Tasks -> TaskRecords]
    BY DEF SlotInv, ReceiveTypes
  <1>4. CASE Receive!SaveToggle(t)
    <2>1. task' = [task EXCEPT ![t].pc = "toggled"] /\ saved' = task[t].arg /\ store' = store
          /\ task[t].pc = "save" /\ "toggled" \in TaskPcs
      BY <1>4 DEF Receive!SaveToggle, TaskPcs
    <2>2. task'[t].pc = "toggled" /\ \A u \in Tasks \ {t} : task'[u] = Receive!Idle
      BY <1>2, <1>3, <2>1, TaskPc
    <2>3. task[t].arg = store.enabled
      BY <2>1 DEF OffInv
    <2> QED BY <2>1, <2>2, <2>3, OffMoves, ReceiveConstants
  <1>5. CASE Receive!Toggled(t)
    <2> DEFINE next == IF store.enabled THEN "restop" ELSE "stop"
    <2>1. task' = [task EXCEPT ![t].pc = next] /\ UNCHANGED <<saved, store>>
          /\ task[t].pc = "toggled" /\ next \in TaskPcs
      BY <1>5 DEF Receive!Toggled, TaskPcs
    <2>2. task'[t].pc = next /\ \A u \in Tasks \ {t} : task'[u] = Receive!Idle
      BY <1>2, <1>3, <2>1, TaskPc
    <2>3. saved = store.enabled
      <3>1. \A u \in Tasks : task[u].pc # "save"
        BY <1>2, <2>1
      <3> QED BY <3>1 DEF OffInv
    <2>4. (next = "restop" /\ store.enabled) \/ (next = "stop" /\ ~store.enabled)
      OBVIOUS
    <2> HIDE DEF next
    <2> QED BY <2>1, <2>2, <2>3, <2>4, OffMoves, ReceiveConstants
  <1>6. CASE Receive!FollowAccount(t) \/ Receive!InitStore(t)
    <2>1. task[t].pc \in {"follow", "init"}
      BY <1>6 DEF Receive!FollowAccount, Receive!InitStore
    <2>2. saved = store.enabled /\ (~store.enabled => autoStop = 0)
      <3>1. \A u \in Tasks : task[u].pc \notin {"save", "toggled", "stop"}
        BY <1>2, <2>1
      <3> QED BY <3>1 DEF OffInv
    <2>3. store'.enabled = store.enabled /\ saved' = saved
      BY <1>3, <1>6, <2>2 DEF Receive!FollowAccount, Receive!InitStore
    <2>4. \/ task' = [task EXCEPT ![t].pc = "restop"] /\ store.enabled
          \/ Receive!Return(t)
      BY <1>6, <2>2 DEF Receive!FollowAccount, Receive!InitStore
    <2>5. \/ task'[t].pc = "restop" /\ store.enabled
          \/ task'[t] = Receive!Idle
      BY <1>3, <2>4, TaskPc, TaskIdle, LoopFacts DEF TaskPcs
    <2>6. \A u \in Tasks \ {t} : task'[u] = Receive!Idle
      BY <1>2, <1>3, <2>4, TaskPc, TaskIdle, LoopFacts DEF TaskPcs
    <2> QED BY <1>1, <2>2, <2>3, <2>5, <2>6, OffMoves, ReceiveConstants
  <1> QED BY <1>4, <1>5, <1>6

LEMMA OffStop ==
  ASSUME ReceiveBounds, SlotInv, OffInv, NEW t \in Tasks, Receive!StopBeforeStart(t) \/ Receive!Stop(t)
  PROVE  OffInv'
  <1>1. task[t].pc \in {"restop", "stop"} /\ autoStop' = 0 /\ saved' = saved
    BY DEF Receive!StopBeforeStart, Receive!Stop, Receive!StopAutoReceive
  <1>2. \A u \in Tasks \ {t} : task[u] = Receive!Idle /\ task[u].pc = "idle"
    BY <1>1, OneTask
  <1>3. store'.enabled = store.enabled
    BY DEF Receive!StopBeforeStart, Receive!Stop, SlotInv, ReceiveTypes
  <1>4. saved = store.enabled
    <2>1. \A u \in Tasks : task[u].pc # "save"
      BY <1>1, <1>2
    <2> QED BY <2>1 DEF OffInv
  <1>5. \/ task'[t].pc = "start" /\ store.enabled
        \/ task'[t] = Receive!Idle
    <2>1. CASE Receive!StopBeforeStart(t)
      <3>1. task' = [task EXCEPT ![t].pc = "start"] /\ task[t].pc = "restop" /\ "start" \in TaskPcs
        BY <2>1 DEF Receive!StopBeforeStart, TaskPcs
      <3> QED BY <3>1, TaskPc, LoopFacts DEF OffInv
    <2>2. CASE Receive!Stop(t)
      BY <2>2, TaskIdle, LoopFacts DEF Receive!Stop
    <2> QED BY <2>1, <2>2
  <1>6. \A u \in Tasks \ {t} : task'[u] = Receive!Idle
    <2>1. task' = [task EXCEPT ![t].pc = "start"] \/ Receive!Return(t)
      BY DEF Receive!StopBeforeStart, Receive!Stop
    <2> QED BY <1>2, <2>1, TaskPc, TaskIdle, LoopFacts DEF TaskPcs
  <1> QED BY <1>1, <1>3, <1>4, <1>5, <1>6, OffMoves, ReceiveConstants

LEMMA OffStarts ==
  ASSUME ReceiveBounds, SlotInv, OffInv, NEW t \in Tasks,
         \/ Receive!ClaimSlot(t)
         \/ \E l \in Receive!Loops :
              Receive!SnapshotClient(t, l) \/ Receive!SnapshotAddress(t, l) \/ Receive!Subscribe(t, l)
  PROVE  OffInv'
  <1>1. task[t].pc \in {"start", "starting"} /\ saved' = saved
    BY DEF Receive!ClaimSlot, Receive!SnapshotClient, Receive!SnapshotAddress, Receive!Subscribe,
           Receive!Starting, Receive!StartFails, Receive!frontend
  <1>2. \A u \in Tasks \ {t} : task[u] = Receive!Idle /\ task[u].pc = "idle"
    BY <1>1, OneTask
  <1>3. store'.enabled = store.enabled
    BY DEF Receive!ClaimSlot, Receive!SnapshotClient, Receive!SnapshotAddress, Receive!Subscribe,
           Receive!StartFails, Receive!frontend, SlotInv, ReceiveTypes
  <1>4. saved = store.enabled /\ store.enabled
    <2>1. \A u \in Tasks : task[u].pc # "save"
      BY <1>1, <1>2
    <2> QED BY <1>1, <2>1 DEF OffInv
  <1>5. \/ task' = task /\ task[t].pc = "starting"
        \/ \E l \in Receive!Loops : task' = [task EXCEPT ![t].pc = "starting", ![t].loop = l]
        \/ Receive!Return(t)
    BY DEF Receive!ClaimSlot, Receive!SnapshotClient, Receive!SnapshotAddress, Receive!Subscribe,
           Receive!Starting, Receive!StartFails, Receive!frontend
  <1>6. /\ task'[t].pc = "starting" \/ task'[t] = Receive!Idle
        /\ \A u \in Tasks \ {t} : task'[u] = Receive!Idle
    <2>1. ASSUME NEW l \in Receive!Loops, task' = [task EXCEPT ![t].pc = "starting", ![t].loop = l]
          PROVE  task'[t].pc = "starting" /\ \A u \in Tasks \ {t} : task'[u] = Receive!Idle
      BY <1>2, <2>1, LoopFacts DEF TaskRecords
    <2>2. CASE task' = task /\ task[t].pc = "starting"
      BY <1>2, <2>2
    <2>3. CASE Receive!Return(t)
      BY <1>2, <2>3, TaskIdle, LoopFacts
    <2> QED BY <1>5, <2>1, <2>2, <2>3
  <1> QED BY <1>1, <1>3, <1>4, <1>6, OffMoves, ReceiveConstants

LEMMA OffNext ==
  ASSUME ReceiveBounds, SlotInv, "overlap" \notin upset => OffInv, [Receive!Next]_Receive!vars
  PROVE  ("overlap" \notin upset => OffInv)'
  <1> SUFFICES ASSUME "overlap" \notin upset' PROVE OffInv'
    OBVIOUS
  <1>1. ASSUME NEW t \in Tasks, Receive!User(t) PROVE OffInv'
    BY <1>1, OffUser
  <1>2. ASSUME NEW t \in Tasks, Receive!TaskStep(t) PROVE OffInv'
    <2>1. OffInv
      BY <1>2 DEF Receive!TaskStep
    <2>2. CASE Receive!SaveToggle(t) \/ Receive!Toggled(t) \/ Receive!FollowAccount(t) \/ Receive!InitStore(t)
      BY <2>1, <2>2, OffTask
    <2>3. CASE Receive!StopBeforeStart(t) \/ Receive!Stop(t)
      BY <2>1, <2>3, OffStop
    <2>4. CASE \/ Receive!ClaimSlot(t)
               \/ \E l \in Receive!Loops :
                    Receive!SnapshotClient(t, l) \/ Receive!SnapshotAddress(t, l) \/ Receive!Subscribe(t, l)
      BY <2>1, <2>4, OffStarts
    <2> QED BY <1>2, <2>2, <2>3, <2>4 DEF Receive!TaskStep
  <1>3. ASSUME NEW l \in Receive!Loops, Receive!LoopStep(l) PROVE OffInv'
    <2>1. UNCHANGED <<store, saved, task, upset>> /\ autoStop' \in {autoStop, 0}
      BY <1>3 DEF Receive!LoopStep, Receive!SweepBegins, Receive!SweepStops, Receive!SweepEnds,
         Receive!PassEnds, Receive!Refetch, Receive!ReceiveBlock, Receive!NextSignal,
         Receive!LoopExits, Receive!ReleaseSlot, Receive!frontend
    <2> QED BY <2>1, OffKept
  <1>4. CASE \/ Receive!Lock \/ Receive!Disconnect \/ Receive!Connect \/ UNCHANGED Receive!vars
             \/ \E b \in Blocks, a \in Receive!Accounts : Receive!Arrive(b, a)
    <2>1. UNCHANGED <<store, saved, task>> /\ autoStop' \in {autoStop, 0} /\ upset \subseteq upset'
      BY <1>4 DEF Receive!Lock, Receive!Disconnect, Receive!Connect, Receive!vars, Receive!Arrive,
         Receive!frontend, Receive!backend
    <2> QED BY <2>1, OffKept
  <1> QED BY <1>1, <1>2, <1>3, <1>4 DEF Receive!Next

LEMMA OffInvariant ==
  ASSUME ReceiveBounds PROVE Receive!Spec => [](SlotInv /\ ("overlap" \notin upset => OffInv))
  <1>1. ASSUME Receive!Init PROVE SlotInv /\ ("overlap" \notin upset => OffInv)
    <2>1. OffInv
      BY <1>1, ReceiveConstants DEF Receive!Init, OffInv
    <2> QED BY <1>1, <2>1, SlotInit
  <1>2. SlotInv /\ ("overlap" \notin upset => OffInv) /\ [Receive!Next]_Receive!vars =>
          (SlotInv /\ ("overlap" \notin upset => OffInv))'
    BY SlotNext, OffNext
  <1> QED BY <1>1, <1>2, PTL DEF Receive!Spec

\* Whatever overlapped before it: once a toggle was on its own, and until an action
\* begins before the last one is over, a toggle that says off means that no loop owns
\* the slot, whatever failed, locked or disconnected in between (toggle, stop).
THEOREM OffIsOff == ASSUME ReceiveBounds PROVE Receive!Spec => []Receive!OffMeansOff
  <1>1. ("overlap" \notin upset => OffInv) => Receive!OffMeansOff
    BY ReceiveConstants DEF OffInv, Receive!OffMeansOff, Receive!Quiet
  <1> QED BY <1>1, OffInvariant, PTL
-----------------------------------------------------------------------------
(* Where nothing else came between either: the loop in the slot receives   *)
(* for the active account.                                                 *)

\* The loops take their steps; the store, the session and the slot stand still.
LEMMA FollowLoops ==
  ASSUME ReceiveBounds, SlotInv, FollowInv, UNCHANGED <<session, store, task, autoStop>>,
         \A l \in Receive!Loops : GoesOn(l) \/ Leaves(l)
  PROVE  FollowInv'
  <1>1. autoStop # 0 => receiveLoop'[autoStop].account = receiveLoop[autoStop].account
    BY LoopFacts DEF GoesOn, Leaves
  <1>2. ASSUME NEW t \in Tasks, task[t].pc = "starting",
               receiveLoop'[task[t].loop].pc = "address"
        PROVE  receiveLoop'[task[t].loop].account = Receive!Active
    <2>1. PICK l \in Receive!Loops : Starts(t, l)
      BY <1>2 DEF SlotInv, StartsInv
    <2>2. task[t].loop = l /\ ~Receive!Subscribed(l)
      BY <2>1 DEF Starts, Receive!Subscribed
    <2>3. receiveLoop[l].pc = "address" /\ receiveLoop'[l].account = receiveLoop[l].account
      BY <1>2, <2>2 DEF GoesOn, Leaves
    <2> QED BY <1>2, <2>2, <2>3 DEF FollowInv
  <1> QED BY <1>1, <1>2 DEF FollowInv, AtRest, Receive!Active

\* The one task under way takes a step.
LEMMA FollowMoves ==
  ASSUME NEW t \in Tasks, \A u \in Tasks \ {t} : task'[u] = Receive!Idle,
         task'[t].pc # "idle" => session'.wallet # NoWallet /\ task'[t].index = session'.index,
         task'[t].pc = "starting" => autoStop' = task'[t].loop,
         task'[t].pc \in Settled /\ store'.account # -1 =>
           /\ autoStop' # 0 /\ receiveLoop'[autoStop'].account[2] = store'.account
           /\ session'.wallet # NoWallet => receiveLoop'[autoStop'].account[1] = session'.wallet,
         task'[t].pc = "starting" /\ receiveLoop'[task'[t].loop].pc = "address" =>
           receiveLoop'[task'[t].loop].account = Receive!Active',
         task'[t].pc = "idle" /\ store'.enabled /\ session'.wallet # NoWallet =>
           store'.account = session'.index
  PROVE  FollowInv'
  <1>1. \A u \in Tasks \ {t} : task'[u].pc = "idle"
    BY ReceiveConstants
  <1> QED BY <1>1 DEF FollowInv, AtRest

LEMMA FollowUser ==
  ASSUME ReceiveBounds, SlotInv, upset = {} => FollowInv, upset' = {}, NEW t \in Tasks, Receive!User(t)
  PROVE  FollowInv'
  <1>1. /\ \A u \in Tasks : task[u] = Receive!Idle /\ task[u].pc = "idle"
        /\ ~Receive!Toggle(t) => upset = {}
    BY OnItsOwn
  <1>2. UNCHANGED <<autoStop, receiveLoop>> /\ store'.account = store.account
    BY DEF Receive!User, Receive!SwitchAccount, Receive!Unlock, Receive!Toggle, Receive!backend,
           Receive!world, SlotInv, ReceiveTypes
  <1>3. ~Receive!Toggle(t) /\ store.account # -1 =>
          /\ autoStop # 0 /\ receiveLoop[autoStop].account[2] = store.account
          /\ session.wallet # NoWallet => receiveLoop[autoStop].account[1] = session.wallet
    BY <1>1 DEF FollowInv, Settled
  <1>4. ASSUME NEW i \in Indexes, Receive!SwitchAccount(t, i) PROVE FollowInv'
    <2>1. session'.wallet = session.wallet /\ session'.index = i /\ session.wallet # NoWallet
      BY <1>4 DEF Receive!SwitchAccount, Receive!Unlocked, SlotInv, ReceiveTypes
    <2>2. /\ task'[t].pc = "follow" /\ task'[t].index = i
          /\ \A u \in Tasks \ {t} : task'[u] = Receive!Idle
      BY <1>1, <1>4, Created DEF Receive!SwitchAccount
    <2>3. store.account # -1 =>
            /\ autoStop # 0 /\ receiveLoop[autoStop].account[2] = store.account
            /\ receiveLoop[autoStop].account[1] = session.wallet
      <3>1. upset = {}
        BY <1>4 DEF Receive!SwitchAccount
      <3> QED BY <1>1, <2>1, <3>1 DEF FollowInv, Settled
    <2> QED BY <1>2, <2>1, <2>2, <2>3, FollowMoves
  <1>5. ASSUME NEW w \in Wallets, Receive!Unlock(t, w) PROVE FollowInv'
    <2>1. session'.wallet = w /\ session'.index = 0 /\ w # NoWallet /\ 0 \in Indexes
      BY <1>5 DEF Receive!Unlock, ReceiveBounds, Receive!ReceiveAssumption
    <2>2. /\ task'[t].pc = "init" /\ task'[t].index = 0
          /\ \A u \in Tasks \ {t} : task'[u] = Receive!Idle
      BY <1>1, <1>5, <2>1, Created DEF Receive!Unlock
    <2>3. store.account # -1 =>
            /\ autoStop # 0 /\ receiveLoop[autoStop].account[2] = store.account
            /\ receiveLoop[autoStop].account[1] = w
      <3>1. upset = {} /\ ~Receive!ForAnother(w)
        BY <1>5 DEF Receive!Unlock
      <3> QED BY <1>1, <3>1 DEF FollowInv, Settled, Receive!ForAnother
    <2> QED BY <1>2, <2>1, <2>2, <2>3, FollowMoves
  <1>6. ASSUME Receive!Toggle(t) PROVE FollowInv'
    <2> DEFINE r == [kind |-> "toggle", pc |-> "save", index |-> session.index, loop |-> 0,
                     arg |-> ~store.enabled]
    <2>1. session' = session /\ session.wallet # NoWallet
      BY <1>6 DEF Receive!Toggle, Receive!Unlocked, Receive!world
    <2>2. task' = [task EXCEPT ![t] = r]
      BY <1>6 DEF Receive!Toggle
    <2>3. r.pc = "save" /\ r.index = session.index
      OBVIOUS
    <2> HIDE DEF r
    <2>4. /\ task'[t].pc = "save" /\ task'[t].index = session.index
          /\ \A u \in Tasks \ {t} : task'[u] = Receive!Idle
      BY <1>1, <2>2, <2>3, LoopFacts
    <2> QED BY <2>1, <2>4, FollowMoves DEF Settled
  <1> QED BY <1>4, <1>5, <1>6 DEF Receive!User

LEMMA FollowTask ==
  ASSUME ReceiveBounds, SlotInv, OffInv, FollowInv, NEW t \in Tasks,
         Receive!SaveToggle(t) \/ Receive!Toggled(t) \/ Receive!FollowAccount(t) \/ Receive!InitStore(t)
  PROVE  FollowInv'
  <1>1. /\ task[t].pc \in {"save", "toggled", "follow", "init"}
        /\ UNCHANGED <<session, autoStop, receiveLoop>>
    BY DEF Receive!SaveToggle, Receive!Toggled, Receive!FollowAccount, Receive!InitStore,
           Receive!backend, Receive!world
  <1>2. \A u \in Tasks \ {t} : task[u] = Receive!Idle /\ task[u].pc = "idle"
    BY <1>1, OneTask
  <1>3. /\ store \in [enabled : BOOLEAN, account : Indexes \cup {-1}]
        /\ task \in [Tasks -> TaskRecords]
    BY DEF SlotInv, ReceiveTypes
  <1>4. session.wallet # NoWallet /\ task[t].index = session.index
    BY <1>1 DEF FollowInv
  <1>5. CASE Receive!SaveToggle(t) \/ Receive!Toggled(t)
    <2>1. \E pc \in {"toggled", "restop", "stop"} : task' = [task EXCEPT ![t].pc = pc]
      BY <1>5 DEF Receive!SaveToggle, Receive!Toggled
    <2>2. /\ task'[t].pc \in {"toggled", "restop", "stop"} /\ task'[t].index = task[t].index
          /\ \A u \in Tasks \ {t} : task'[u] = Receive!Idle
      BY <1>2, <1>3, <2>1, TaskPc DEF TaskPcs
    <2> QED BY <1>1, <1>4, <2>2, FollowMoves DEF Settled
  <1>6. CASE Receive!FollowAccount(t) \/ Receive!InitStore(t)
    <2>1. task[t].pc \in {"follow", "init"}
      BY <1>6 DEF Receive!FollowAccount, Receive!InitStore
    <2>2. saved = store.enabled
      <3>1. \A u \in Tasks : task[u].pc # "save"
        BY <1>2, <2>1
      <3> QED BY <3>1 DEF OffInv
    <2>3. store.account # -1 =>
            /\ autoStop # 0 /\ receiveLoop[autoStop].account[2] = store.account
            /\ receiveLoop[autoStop].account[1] = session.wallet
      <3>1. \A u \in Tasks : task[u].pc \in Settled
        BY <1>2, <2>1 DEF Settled
      <3> QED BY <1>4, <3>1 DEF FollowInv
    <2>4. store'.enabled = store.enabled /\ store'.account = store.account
      BY <1>3, <1>6, <2>2 DEF Receive!FollowAccount, Receive!InitStore
    <2>5. \/ task' = [task EXCEPT ![t].pc = "restop"]
          \/ Receive!Return(t) /\ (store.enabled => task[t].index = store.account)
      BY <1>6, <2>2 DEF Receive!FollowAccount, Receive!InitStore
    <2>6. \A u \in Tasks \ {t} : task'[u] = Receive!Idle
      BY <1>2, <1>3, <2>5, TaskPc, TaskIdle, LoopFacts DEF TaskPcs
    <2>7. CASE task' = [task EXCEPT ![t].pc = "restop"]
      <3>1. task'[t].pc = "restop" /\ task'[t].index = task[t].index
        BY <1>3, <2>7, TaskPc DEF TaskPcs
      <3> QED BY <1>1, <1>4, <2>6, <3>1, FollowMoves DEF Settled
    <2>8. CASE Receive!Return(t) /\ (store.enabled => task[t].index = store.account)
      <3>1. task'[t].pc = "idle"
        BY <1>3, <2>8, TaskIdle, LoopFacts
      <3> QED BY <1>1, <1>4, <2>3, <2>4, <2>6, <2>8, <3>1, FollowMoves
    <2> QED BY <2>5, <2>7, <2>8
  <1> QED BY <1>5, <1>6

LEMMA FollowStop ==
  ASSUME ReceiveBounds, SlotInv, OffInv, FollowInv, NEW t \in Tasks,
         Receive!StopBeforeStart(t) \/ Receive!Stop(t)
  PROVE  FollowInv'
  <1>1. task[t].pc \in {"restop", "stop"} /\ UNCHANGED session
    BY DEF Receive!StopBeforeStart, Receive!Stop, Receive!world
  <1>2. \A u \in Tasks \ {t} : task[u] = Receive!Idle /\ task[u].pc = "idle"
    BY <1>1, OneTask
  <1>3. session.wallet # NoWallet /\ task[t].index = session.index
    BY <1>1 DEF FollowInv
  <1>4. \A u \in Tasks \ {t} : task'[u] = Receive!Idle
    <2>1. task' = [task EXCEPT ![t].pc = "start"] \/ Receive!Return(t)
      BY DEF Receive!StopBeforeStart, Receive!Stop
    <2> QED BY <1>2, <2>1, TaskPc, TaskIdle, LoopFacts DEF TaskPcs
  <1>5. CASE Receive!StopBeforeStart(t)
    <2>1. task'[t].pc = "start" /\ task'[t].index = task[t].index
      BY <1>5, TaskPc, LoopFacts DEF Receive!StopBeforeStart, TaskPcs
    <2> QED BY <1>1, <1>3, <1>4, <2>1, FollowMoves DEF Settled
  <1>6. CASE Receive!Stop(t)
    <2>1. task'[t].pc = "idle" /\ task[t].pc = "stop" /\ store' = [store EXCEPT !.account = -1]
      BY <1>6, TaskIdle, LoopFacts DEF Receive!Stop
    <2>2. store'.account = -1 /\ store'.enabled = store.enabled
      BY <2>1 DEF SlotInv, ReceiveTypes
    <2>3. ~store.enabled
      BY <2>1 DEF OffInv
    <2> QED BY <1>4, <2>1, <2>2, <2>3, FollowMoves
  <1> QED BY <1>5, <1>6

LEMMA FollowClaim ==
  ASSUME ReceiveBounds, SlotInv, OffInv, FollowInv, NEW t \in Tasks, Receive!ClaimSlot(t)
  PROVE  FollowInv'
  <1>1. task[t].pc = "start" /\ UNCHANGED session
    BY DEF Receive!ClaimSlot, Receive!world
  <1>2. \A u \in Tasks \ {t} : task[u] = Receive!Idle /\ task[u].pc = "idle"
    BY <1>1, OneTask
  <1>3. autoStop = 0
    BY <1>1 DEF OffInv
  <1>4. PICK l \in Receive!Loops :
          /\ autoStop' = l /\ receiveLoop' = Receive!Set(l, "claimed")
          /\ task' = [task EXCEPT ![t].pc = "starting", ![t].loop = l]
    BY <1>3 DEF Receive!ClaimSlot
  <1>5. receiveLoop'[l].pc = "claimed"
    BY <1>4, LoopPc, LoopFacts DEF LoopPcs
  <1>6. /\ task'[t].pc = "starting" /\ task'[t].loop = l /\ task'[t].index = task[t].index
        /\ \A u \in Tasks \ {t} : task'[u] = Receive!Idle
    BY <1>2, <1>4, LoopFacts DEF TaskRecords
  <1>7. session.wallet # NoWallet /\ task[t].index = session.index
    BY <1>1 DEF FollowInv
  <1> QED BY <1>1, <1>4, <1>5, <1>6, <1>7, FollowMoves DEF Settled

LEMMA FollowStarts ==
  ASSUME ReceiveBounds, SlotInv, ServeInv, "drop" \notin upset, OffInv, FollowInv, NEW t \in Tasks,
         NEW l \in Receive!Loops,
         Receive!SnapshotClient(t, l) \/ Receive!SnapshotAddress(t, l) \/ Receive!Subscribe(t, l)
  PROVE  FollowInv'
  <1>1. /\ task[t].pc = "starting" /\ task[t].loop = l /\ autoStop = l
        /\ receiveLoop[l].pc \in Early
    BY DEF Receive!SnapshotClient, Receive!SnapshotAddress, Receive!Subscribe, Receive!Starting,
           FollowInv, Early
  <1>2. \A u \in Tasks \ {t} : task[u] = Receive!Idle /\ task[u].pc = "idle"
    BY <1>1, OneTask
  <1>3. /\ conn # 0 /\ l # 0 /\ session.wallet # NoWallet /\ task[t].index = session.index
        /\ receiveLoop[l].pc # "claimed" => receiveLoop[l].conn = conn
    BY <1>1, LoopFacts DEF FollowInv, ServeInv, Early
  <1>4. UNCHANGED session
    BY DEF Receive!SnapshotClient, Receive!SnapshotAddress, Receive!Subscribe, Receive!StartFails,
           Receive!world
  <1>5. CASE Receive!SnapshotClient(t, l)
    <2>1. /\ UNCHANGED <<autoStop, store, task>>
          /\ receiveLoop' = [receiveLoop EXCEPT ![l].pc = "client", ![l].conn = conn]
      BY <1>3, <1>5 DEF Receive!SnapshotClient, Receive!frontend
    <2>2. receiveLoop'[l].pc = "client"
      BY <2>1, LoopFacts DEF LoopRecords
    <2> QED BY <1>1, <1>2, <1>3, <1>4, <2>1, <2>2, FollowMoves DEF Settled
  <1>6. CASE Receive!SnapshotAddress(t, l)
    <2>1. /\ UNCHANGED <<autoStop, store, task>>
          /\ receiveLoop' = [receiveLoop EXCEPT ![l].pc = "address", ![l].account = Receive!Active]
      BY <1>3, <1>6 DEF Receive!SnapshotAddress, Receive!Unlocked, Receive!frontend
    <2>2. receiveLoop'[l].account = Receive!Active /\ Receive!Active' = Receive!Active
      BY <1>4, <2>1, LoopFacts DEF LoopRecords, Receive!Active
    <2>3. /\ task'[t].pc = "starting" /\ task'[t].loop = l /\ autoStop' = l
          /\ task'[t].index = session'.index /\ session'.wallet # NoWallet
          /\ \A u \in Tasks \ {t} : task'[u] = Receive!Idle
      BY <1>1, <1>2, <1>3, <1>4, <2>1
    <2> QED BY <2>2, <2>3, FollowMoves DEF Settled
  <1>7. CASE Receive!Subscribe(t, l)
    <2>1. receiveLoop[l].pc = "address" /\ receiveLoop[l].conn = conn
          /\ receiveLoop[l].account = Receive!Active
      BY <1>1, <1>3, <1>7 DEF Receive!Subscribe, Receive!Starting, FollowInv
    <2>2. /\ autoStop' = autoStop /\ receiveLoop' = Receive!Set(l, "sweep") /\ Receive!Return(t)
          /\ store' = [store EXCEPT !.account = task[t].index]
      BY <1>7, <2>1 DEF Receive!Subscribe
    <2>3. receiveLoop'[l].account = Receive!Active
      BY <2>1, <2>2, LoopPc, LoopFacts DEF LoopPcs
    <2>4. task'[t].pc = "idle" /\ \A u \in Tasks \ {t} : task'[u] = Receive!Idle
      BY <1>2, <2>2, TaskIdle, LoopFacts
    <2>5. store'.account = session.index
      BY <1>3, <2>2 DEF SlotInv, ReceiveTypes
    <2>6. receiveLoop'[l].account[1] = session.wallet /\ receiveLoop'[l].account[2] = session.index
      BY <2>3 DEF Receive!Active
    <2> QED BY <1>1, <1>3, <1>4, <2>2, <2>4, <2>5, <2>6, FollowMoves
  <1> QED BY <1>5, <1>6, <1>7

LEMMA FollowWorld ==
  ASSUME ReceiveBounds, SlotInv, ServeInv, FollowInv, upset = {}, upset' = {},
         \/ Receive!Lock \/ Receive!Disconnect \/ Receive!Connect \/ UNCHANGED Receive!vars
         \/ \E b \in Blocks, a \in Receive!Accounts : Receive!Arrive(b, a)
  PROVE  FollowInv'
  <1>1. ~Receive!Disconnect
    BY DEF Receive!Disconnect
  <1>2. ASSUME NEW b \in Blocks, NEW a \in Receive!Accounts, Receive!Arrive(b, a)
        PROVE  FollowInv'
    BY <1>2, ArriveGoesOn, FollowLoops
  <1>3. CASE Receive!Lock
    <2>1. /\ UNCHANGED <<store, task, autoStop, receiveLoop>> /\ session' = Receive!Locked
          /\ Receive!Quiet
      BY <1>3 DEF Receive!Lock, Receive!frontend, Receive!backend
    <2>2. session'.wallet = NoWallet /\ \A u \in Tasks : task[u].pc = "idle"
      BY <2>1, ReceiveConstants DEF Receive!Locked, Receive!Quiet
    <2> QED BY <2>1, <2>2 DEF FollowInv, AtRest
  <1>4. CASE Receive!Connect \/ UNCHANGED Receive!vars
    <2>1. UNCHANGED <<session, store, task, autoStop, receiveLoop>>
      BY <1>4 DEF Receive!Connect, Receive!vars, Receive!world, Receive!backend, Receive!frontend
    <2> QED BY <2>1, FollowLoops DEF GoesOn
  <1> QED BY <1>1, <1>2, <1>3, <1>4

LEMMA FollowNext ==
  ASSUME ReceiveBounds, SlotInv, ServeInv, upset = {} => OffInv /\ FollowInv,
         [Receive!Next]_Receive!vars
  PROVE  (upset = {} => FollowInv)'
  <1> SUFFICES ASSUME upset' = {} PROVE FollowInv'
    OBVIOUS
  <1>1. ASSUME NEW t \in Tasks, Receive!User(t) PROVE FollowInv'
    BY <1>1, FollowUser
  <1>2. ASSUME NEW t \in Tasks, Receive!TaskStep(t) PROVE FollowInv'
    <2>1. upset = {} /\ OffInv /\ FollowInv
      BY <1>2 DEF Receive!TaskStep
    <2>2. CASE Receive!SaveToggle(t) \/ Receive!Toggled(t) \/ Receive!FollowAccount(t) \/ Receive!InitStore(t)
      BY <2>1, <2>2, FollowTask
    <2>3. CASE Receive!StopBeforeStart(t) \/ Receive!Stop(t)
      BY <2>1, <2>3, FollowStop
    <2>4. CASE Receive!ClaimSlot(t)
      BY <2>1, <2>4, FollowClaim
    <2>5. ASSUME NEW l \in Receive!Loops,
                 Receive!SnapshotClient(t, l) \/ Receive!SnapshotAddress(t, l) \/ Receive!Subscribe(t, l)
          PROVE  FollowInv'
      BY <2>1, <2>5, FollowStarts
    <2> QED BY <1>2, <2>2, <2>3, <2>4, <2>5 DEF Receive!TaskStep
  <1>3. ASSUME NEW l \in Receive!Loops, Receive!LoopStep(l) PROVE FollowInv'
    BY <1>3, LoopsGoOn, FollowLoops
  <1>4. CASE \/ Receive!Lock \/ Receive!Disconnect \/ Receive!Connect \/ UNCHANGED Receive!vars
             \/ \E b \in Blocks, a \in Receive!Accounts : Receive!Arrive(b, a)
    <2>1. upset \subseteq upset'
      BY <1>4 DEF Receive!Lock, Receive!Disconnect, Receive!Connect, Receive!vars, Receive!Arrive
    <2>2. upset = {}
      BY <2>1
    <2> QED BY <1>4, <2>2, FollowWorld
  <1> QED BY <1>1, <1>2, <1>3, <1>4 DEF Receive!Next

\* Whatever came between before it: once a toggle was on its own, with a connection,
\* and until an action begins or the wallet is locked before the last action is over,
\* the connection is lost, or another wallet is unlocked than the one that is received
\* for, auto-receive that is on has a loop, and it receives for the account that is
\* active now (followAccount, init, start; the address StartAutoReceive snapshots).
THEOREM ReceivesForActive == ASSUME ReceiveBounds PROVE Receive!Spec => []Receive!FollowsActive
  <1> DEFINE Off == "overlap" \notin upset => OffInv
             Follow == upset = {} => FollowInv
             I == SlotInv /\ ServeInv /\ Off /\ Follow
  <1>1. ASSUME Receive!Init PROVE I
    <2>1. OffInv
      BY <1>1, ReceiveConstants DEF Receive!Init, OffInv
    <2>2. ServeInv
      BY <1>1 DEF Receive!Init, ServeInv
    <2>3. FollowInv
      BY <1>1, ReceiveConstants DEF Receive!Init, FollowInv
    <2> QED BY <1>1, <2>1, <2>2, <2>3, SlotInit
  <1>2. ASSUME I, [Receive!Next]_Receive!vars PROVE I'
    <2>1. upset = {} => OffInv /\ FollowInv
      BY <1>2
    <2> QED BY <1>2, <2>1, SlotNext, ServeNext, OffNext, FollowNext
  <1>3. ASSUME I PROVE Receive!FollowsActive
    <2> SUFFICES ASSUME Receive!Quiet, upset = {}, store.enabled, Receive!Unlocked
                 PROVE  autoStop # 0 /\ receiveLoop[autoStop].account = Receive!Active
      BY DEF Receive!FollowsActive
    <2>1. \A t \in Tasks : task[t].pc = "idle"
      BY ReceiveConstants DEF Receive!Quiet
    <2>2. session.index \in Indexes /\ session.wallet # NoWallet /\ session.index # -1
      BY <1>3 DEF SlotInv, ReceiveTypes, Receive!Unlocked, ReceiveBounds, Receive!ReceiveAssumption
    <2>3. store.account = session.index
      BY <1>3, <2>1 DEF FollowInv, AtRest, Receive!Unlocked
    <2>4. /\ autoStop # 0 /\ receiveLoop[autoStop].account[2] = session.index
          /\ receiveLoop[autoStop].account[1] = session.wallet
      BY <1>3, <2>1, <2>2, <2>3 DEF FollowInv, Settled
    <2>5. autoStop \in Receive!Loops /\ receiveLoop[autoStop] \in LoopRecords
      BY <1>3, <2>4, LoopFacts
    <2>6. receiveLoop[autoStop].account \in (Wallets \cup {NoWallet}) \X (Indexes \cup {0})
      BY <2>5 DEF LoopRecords, Receive!Accounts
    <2> QED BY <2>4, <2>6 DEF Receive!Active
  <1>4. Receive!Init => I
    BY <1>1
  <1>5. I /\ [Receive!Next]_Receive!vars => I'
    BY <1>2
  <1>6. I => Receive!FollowsActive
    BY <1>3
  <1> HIDE DEF I
  <1> QED BY <1>4, <1>5, <1>6, PTL DEF Receive!Spec

-----------------------------------------------------------------------------
(***************************************************************************)
(* SyncStatus: its constants and variables, and the instance.              *)
(***************************************************************************)
CONSTANTS
  Pollers, Infos, Gaps, StallAfter, MaxSamples, MaxPolls

VARIABLES
  current, pc, now, tracker, samples, lastTarget, history,
  frame            \* SyncStatus's last frame

Sync == INSTANCE SyncStatus WITH shown <- frame

SyncAssumption ==
  Sync!TimesAssumption /\ Sync!InfosAssumption /\ Sync!BoundsAssumption

-----------------------------------------------------------------------------
(* The inductive invariant: what a tracker knows of what was observed.     *)

Reports == [height : Nat, target : Nat, state : {"syncing", "synced", "starting", "none"}]
Observations == [t : Nat, ok : BOOLEAN, info : Reports]
Trackers ==
  [baseline : BOOLEAN, lastHeight : Nat, lastAdvance : Nat, firstErr : Nat \cup {Sync!Never},
   lastState : {"syncing", "synced", "starting", "none", ""}]

\* A poller's observations are in the order of their times, and before the tick
\* it is asking for.
Timed(h, t) ==
  /\ \A i, j \in DOMAIN h : i < j => h[i].t < h[j].t
  /\ \A i \in DOMAIN h : h[i].t <= t

\* The last good sample of h is its g-th observation.
Latest(h, g) == g \in DOMAIN h /\ h[g].ok /\ \A j \in DOMAIN h : j > g => ~h[j].ok

\* The height has stood still, unsynced, since the a-th observation, and not
\* since an earlier one.
Since(h, a) ==
  /\ a \in DOMAIN h /\ h[a].ok
  /\ \A j \in DOMAIN h : j >= a /\ h[j].ok =>
       h[j].info.height = h[a].info.height /\ h[j].info.state # "synced"
  /\ \A b \in DOMAIN h : b < a /\ h[b].ok => \E c \in DOMAIN h :
       /\ b <= c /\ c < a /\ h[c].ok
       /\ h[c].info.height # h[a].info.height \/ h[c].info.state = "synced"

\* What the two clocks of a tracker say of what was observed.
Tracks(h, tr, target) ==
  /\ tr.baseline <=> \E i \in DOMAIN h : h[i].ok
  /\ ~tr.baseline => tr.firstErr = Sync!Never
  /\ tr.baseline => \E g \in DOMAIN h :
       /\ Latest(h, g) /\ tr.lastHeight = h[g].info.height /\ tr.lastState = h[g].info.state
       /\ target = h[g].info.target
       /\ tr.firstErr = IF g = Len(h) THEN Sync!Never ELSE h[g + 1].t
  /\ tr.baseline /\ tr.lastState # "synced" => \E a \in DOMAIN h : Since(h, a) /\ h[a].t = tr.lastAdvance

SyncInv ==
  /\ pc \in [Pollers -> {"off", "waiting", "asking", "ended"}]
  /\ now \in [Pollers -> Nat] /\ lastTarget \in [Pollers -> Nat]
  /\ tracker \in [Pollers -> Trackers] /\ history \in [Pollers -> Seq(Observations)]
  /\ \A p \in Pollers :
       /\ Timed(history[p], now[p]) /\ Tracks(history[p], tracker[p], lastTarget[p])
       /\ pc[p] = "asking" => \A i \in DOMAIN history[p] : history[p][i].t < now[p]

-----------------------------------------------------------------------------
(* What one observation changes.                                           *)

\* An observation is added at the end of what was observed.
LEMMA OneMoreObservation ==
  ASSUME NEW h \in Seq(Observations), NEW e \in Observations
  PROVE  /\ Append(h, e) \in Seq(Observations) /\ Len(h) \in Nat
         /\ Len(Append(h, e)) = Len(h) + 1
         /\ DOMAIN h = 1..Len(h) /\ DOMAIN Append(h, e) = 1..(Len(h) + 1)
         /\ \A i \in 1..Len(h) : h[i] \in Observations /\ Append(h, e)[i] = h[i]
         /\ Append(h, e)[Len(h) + 1] = e
OBVIOUS

\* The observation of a tick comes after all those before it.
LEMMA StaysTimed ==
  ASSUME NEW h \in Seq(Observations), NEW e \in Observations, Timed(h, e.t),
         \A i \in DOMAIN h : h[i].t < e.t
  PROVE  /\ Timed(Append(h, e), e.t) /\ Append(h, e) \in Seq(Observations)
         /\ Sync!Last(Append(h, e)) = e /\ Append(h, e) # h
<1>1. Timed(Append(h, e), e.t)
  BY OneMoreObservation DEF Timed, Observations
<1>2. Append(h, e) \in Seq(Observations) /\ Sync!Last(Append(h, e)) = e
  BY OneMoreObservation DEF Sync!Last
<1>3. Append(h, e) # h
  <2>1. Len(Append(h, e)) = Len(h) + 1 /\ Len(h) \in Nat
    BY OneMoreObservation
  <2> QED
    BY <2>1
<1> QED
  BY <1>1, <1>2, <1>3

\* A good sample: the tracker takes its height and state, forgets the errors, and
\* its clock says since when the height has stood still (observe).
LEMMA GoodSample ==
  ASSUME NEW h \in Seq(Observations), NEW tr \in Trackers, NEW target, NEW t \in Nat, NEW i \in Reports,
         Tracks(h, tr, target), Timed(h, t), \A k \in DOMAIN h : h[k].t < t
  PROVE  LET e == [t |-> t, ok |-> TRUE, info |-> i] IN
         /\ Sync!observe(tr, t, i) \in Trackers
         /\ Tracks(Append(h, e), Sync!observe(tr, t, i), i.target)
<1> DEFINE e == [t |-> t, ok |-> TRUE, info |-> i]
           n == Len(h) + 1
           new == Append(h, e)
           obs == Sync!observe(tr, t, i)
<1>1. /\ e \in Observations /\ e.ok /\ e.t = t /\ e.info = i
      /\ n \in Nat /\ DOMAIN h = 1..Len(h) /\ DOMAIN new = 1..n /\ n \in DOMAIN new /\ Len(new) = n
      /\ Len(h) = n - 1
      /\ \A k \in 1..Len(h) : h[k] \in Observations /\ new[k] = h[k]
      /\ new[n] = e
  <2>1. e \in Observations /\ e.ok /\ e.t = t /\ e.info = i
    BY DEF Observations
  <2> HIDE DEF e
  <2> QED
    BY <2>1, OneMoreObservation
<1>2. /\ obs \in Trackers /\ obs.baseline /\ obs.lastHeight = i.height /\ obs.lastState = i.state
      /\ obs.firstErr = Sync!Never
      /\ obs.lastAdvance = IF Sync!Changed(tr, i) THEN t ELSE Sync!Advance(tr, t, i)
  BY DEF Sync!observe, Trackers, Reports, Sync!Advance, Sync!Changed
<1> HIDE DEF e, n, new, obs
<1>0. /\ \A k \in DOMAIN new : k = n \/ (k \in DOMAIN h /\ k < n)
      /\ \A k \in DOMAIN h : k \in DOMAIN new /\ new[k] = h[k] /\ k \in Nat
      /\ n \in DOMAIN new /\ new[n].ok /\ new[n].info = i /\ new[n].t = t /\ DOMAIN h \subseteq Nat
  BY <1>1
<1>3. Latest(new, n)
  BY <1>1 DEF Latest
<1>4. ASSUME i.state # "synced" PROVE \E a \in DOMAIN new : Since(new, a) /\ new[a].t = obs.lastAdvance
  <2>0. ASSUME \A b \in DOMAIN h : h[b].ok => \E c \in DOMAIN h :
                 b <= c /\ h[c].ok /\ (h[c].info.height # i.height \/ h[c].info.state = "synced")
        PROVE  Since(new, n)
    <3>1. ASSUME NEW j \in DOMAIN new, j >= n, new[j].ok
          PROVE  new[j].info.height = new[n].info.height /\ new[j].info.state # "synced"
      BY <1>0, <1>1, <1>4, <3>1
    <3>2. ASSUME NEW b \in DOMAIN new, b < n, new[b].ok
          PROVE  \E c \in DOMAIN new : /\ b <= c /\ c < n /\ new[c].ok
                                       /\ new[c].info.height # new[n].info.height \/ new[c].info.state = "synced"
      <4>1. b \in DOMAIN h /\ h[b].ok
        BY <1>0, <1>1, <3>2
      <4>2. PICK c \in DOMAIN h : b <= c /\ h[c].ok /\ (h[c].info.height # i.height \/ h[c].info.state = "synced")
        BY <2>0, <4>1
      <4>3. c \in DOMAIN new /\ new[c] = h[c] /\ c < n
        BY <1>0, <1>1
      <4> QED
        BY <1>0, <4>2, <4>3
    <3> QED
      BY <1>0, <3>1, <3>2 DEF Since
  <2>1. ASSUME ~tr.baseline PROVE Since(new, n) /\ obs.lastAdvance = t
    BY <1>2, <2>0, <2>1 DEF Tracks, Sync!Changed
  <2>2. ASSUME tr.baseline, NEW g \in DOMAIN h, Latest(h, g), h[g].info.height # i.height \/ h[g].info.state = "synced"
        PROVE  Since(new, n)
    <3>1. \A b \in DOMAIN h : h[b].ok => b <= g
      BY <1>0, <2>2 DEF Latest
    <3> QED
      BY <2>0, <2>2, <3>1 DEF Latest
  <2>3. ASSUME tr.baseline, tr.lastState # "synced", tr.lastHeight = i.height
        PROVE  /\ obs.lastAdvance = tr.lastAdvance
               /\ \E a \in DOMAIN new : Since(new, a) /\ new[a].t = tr.lastAdvance
    <3>1. obs.lastAdvance = tr.lastAdvance
      BY <1>2, <2>3 DEF Sync!Changed, Sync!Advance
    <3>2. PICK a \in DOMAIN h : Since(h, a) /\ h[a].t = tr.lastAdvance
      BY <2>3 DEF Tracks
    <3>3. PICK g \in DOMAIN h : Latest(h, g) /\ tr.lastHeight = h[g].info.height
      BY <2>3 DEF Tracks
    <3>4. a <= g /\ h[a].info.height = i.height
      BY <1>1, <2>3, <3>2, <3>3 DEF Since, Latest
    <3>5. Since(new, a)
      <4>1. a \in DOMAIN new /\ new[a] = h[a] /\ h[a].ok /\ a < n
        BY <1>0, <1>1, <3>2 DEF Since
      <4>2. ASSUME NEW j \in DOMAIN new, j >= a, new[j].ok
            PROVE  new[j].info.height = new[a].info.height /\ new[j].info.state # "synced"
        BY <1>0, <1>4, <3>2, <3>4, <4>1, <4>2 DEF Since
      <4>3. ASSUME NEW b \in DOMAIN new, b < a, new[b].ok
            PROVE  \E c \in DOMAIN new : /\ b <= c /\ c < a /\ new[c].ok
                                         /\ new[c].info.height # new[a].info.height \/ new[c].info.state = "synced"
        <5>1. b \in DOMAIN h /\ h[b].ok
          BY <1>0, <1>1, <4>1, <4>3
        <5>2. PICK c \in DOMAIN h : /\ b <= c /\ c < a /\ h[c].ok
                                    /\ h[c].info.height # h[a].info.height \/ h[c].info.state = "synced"
          BY <3>2, <4>3, <5>1 DEF Since
        <5> QED
          BY <1>0, <4>1, <5>2
      <4> QED
        BY <4>1, <4>2, <4>3 DEF Since
    <3> QED
      BY <1>1, <3>1, <3>2, <3>5
  <2>4. ASSUME tr.baseline, tr.lastState = "synced" \/ tr.lastHeight # i.height PROVE obs.lastAdvance = t
    BY <1>2, <1>4, <2>4 DEF Sync!Changed, Sync!Advance
  <2>5. ASSUME tr.baseline, tr.lastState = "synced" \/ tr.lastHeight # i.height PROVE Since(new, n)
    <3>1. PICK g \in DOMAIN h : Latest(h, g) /\ tr.lastHeight = h[g].info.height /\ tr.lastState = h[g].info.state
      BY <2>5 DEF Tracks
    <3> QED
      BY <2>2, <2>5, <3>1
  <2> QED
    BY <1>1, <2>1, <2>3, <2>4, <2>5
<1>5. Tracks(new, obs, i.target)
  BY <1>1, <1>2, <1>3, <1>4 DEF Tracks
<1> QED
  BY <1>2, <1>5 DEF e, new, obs

\* A failed sample: the clock of the height goes on, the one of the errors starts
\* unless it runs (observeError).
LEMMA FailedSample ==
  ASSUME NEW h \in Seq(Observations), NEW tr \in Trackers, NEW target, NEW t \in Nat,
         Tracks(h, tr, target)
  PROVE  LET e == [t |-> t, ok |-> FALSE, info |-> Sync!NoInfo] IN
         /\ Sync!observeError(tr, t) \in Trackers
         /\ Tracks(Append(h, e), Sync!observeError(tr, t), target)
<1> DEFINE e == [t |-> t, ok |-> FALSE, info |-> Sync!NoInfo]
           n == Len(h) + 1
           new == Append(h, e)
           obs == Sync!observeError(tr, t)
<1>1. /\ e \in Observations /\ ~e.ok /\ e.t = t
      /\ n \in Nat /\ DOMAIN h = 1..Len(h) /\ DOMAIN new = 1..n /\ n \in DOMAIN new /\ Len(new) = n /\ Len(h) = n - 1
      /\ \A k \in 1..Len(h) : h[k] \in Observations /\ new[k] = h[k]
      /\ new[n] = e
  <2>1. e \in Observations /\ ~e.ok /\ e.t = t
    BY DEF Observations, Reports, Sync!NoInfo
  <2> HIDE DEF e
  <2> QED
    BY <2>1, OneMoreObservation
<1>2. /\ obs \in Trackers /\ obs.baseline = tr.baseline /\ obs.lastHeight = tr.lastHeight /\ obs.lastState = tr.lastState
      /\ obs.lastAdvance = tr.lastAdvance
      /\ obs.firstErr = IF tr.baseline /\ tr.firstErr = Sync!Never THEN t ELSE tr.firstErr
  BY DEF Sync!observeError, Trackers
<1> HIDE DEF e, n, new, obs
<1>3. \A k \in DOMAIN new : new[k].ok => k \in DOMAIN h /\ h[k].ok
  BY <1>1
<1>4. \A k \in DOMAIN h : k \in DOMAIN new /\ new[k] = h[k]
  BY <1>1
<1>5. ASSUME tr.baseline
      PROVE  \E g \in DOMAIN new :
               /\ Latest(new, g) /\ obs.lastHeight = new[g].info.height /\ obs.lastState = new[g].info.state
               /\ target = new[g].info.target
               /\ obs.firstErr = IF g = Len(new) THEN Sync!Never ELSE new[g + 1].t
  <2>1. PICK g \in DOMAIN h :
          /\ Latest(h, g) /\ tr.lastHeight = h[g].info.height /\ tr.lastState = h[g].info.state
          /\ target = h[g].info.target
          /\ tr.firstErr = IF g = Len(h) THEN Sync!Never ELSE h[g + 1].t
    BY <1>5 DEF Tracks
  <2>2. Latest(new, g)
    BY <1>1, <1>3, <1>4, <2>1 DEF Latest
  <2>3. CASE g = Len(h)
    BY <1>1, <1>2, <1>4, <1>5, <2>1, <2>2, <2>3
  <2>4. CASE g # Len(h)
    <3>1. g + 1 \in DOMAIN h /\ h[g + 1].t \in Nat
      BY <1>1, <2>4 DEF Observations
    <3>2. obs.firstErr = h[g + 1].t
      BY <1>2, <2>1, <2>4, <3>1 DEF Sync!Never
    <3> QED
      BY <1>1, <1>2, <1>4, <2>1, <2>2, <2>4, <3>1, <3>2
  <2> QED
    BY <2>3, <2>4
<1>6. ASSUME tr.baseline, tr.lastState # "synced" PROVE \E a \in DOMAIN new : Since(new, a) /\ new[a].t = obs.lastAdvance
  <2>1. PICK a \in DOMAIN h : Since(h, a) /\ h[a].t = tr.lastAdvance
    BY <1>6 DEF Tracks
  <2>2. Since(new, a)
    <3>1. a \in DOMAIN new /\ new[a] = h[a] /\ h[a].ok
      BY <1>4, <2>1 DEF Since
    <3>2. ASSUME NEW j \in DOMAIN new, j >= a, new[j].ok
          PROVE  new[j].info.height = new[a].info.height /\ new[j].info.state # "synced"
      BY <1>3, <1>4, <2>1, <3>1, <3>2 DEF Since
    <3>3. ASSUME NEW b \in DOMAIN new, b < a, new[b].ok
          PROVE  \E c \in DOMAIN new : /\ b <= c /\ c < a /\ new[c].ok
                                       /\ new[c].info.height # new[a].info.height \/ new[c].info.state = "synced"
      <4>1. b \in DOMAIN h /\ h[b].ok
        BY <1>3, <3>3
      <4>2. PICK c \in DOMAIN h : /\ b <= c /\ c < a /\ h[c].ok
                                  /\ h[c].info.height # h[a].info.height \/ h[c].info.state = "synced"
        BY <2>1, <3>3, <4>1 DEF Since
      <4> QED
        BY <1>4, <3>1, <4>2
    <3> QED
      BY <3>1, <3>2, <3>3 DEF Since
  <2> QED
    BY <1>2, <1>4, <2>1, <2>2
<1>7. Tracks(new, obs, target)
  BY <1>2, <1>3, <1>4, <1>5, <1>6 DEF Tracks
<1> QED
  BY <1>2, <1>7 DEF e, new, obs

\* After a good sample the height has stood still for the window exactly when the
\* clock says so, whichever observation the window began with (observe).
LEMMA StillSince ==
  ASSUME SyncAssumption, NEW h \in Seq(Observations), NEW t \in Nat, Timed(h, t), NEW a \in DOMAIN h, Since(h, a),
         h[Len(h)].ok
  PROVE  Sync!StoodStill(h) <=> h[Len(h)].t - h[a].t >= StallAfter
<1> DEFINE n == Len(h)
<1>1. /\ n \in Nat /\ n >= 1 /\ DOMAIN h = 1..n /\ Sync!Last(h) = h[n] /\ StallAfter \in Nat \ {0}
      /\ \A k \in DOMAIN h : h[k].t \in Nat /\ k \in Nat
      /\ n \in DOMAIN h /\ a <= n
  <2>1. DOMAIN h = 1..n /\ n \in Nat /\ a \in 1..n
    OBVIOUS
  <2>2. ASSUME NEW k \in DOMAIN h PROVE h[k].t \in Nat
    <3>1. h[k] \in Observations
      OBVIOUS
    <3> QED
      BY <3>1 DEF Observations
  <2> QED
    BY <2>1, <2>2 DEF Sync!Last, SyncAssumption, Sync!TimesAssumption
<1>2. h[n].info.height = h[a].info.height /\ h[n].info.state # "synced"
  BY <1>1 DEF Since
<1>3. ASSUME h[n].t - h[a].t >= StallAfter PROVE Sync!StoodStill(h)
  <2>1. \A j \in a..n : j \in DOMAIN h /\ j >= a
    BY <1>1
  <2>2. \A j \in a..n : h[j].ok => h[j].info.height = h[n].info.height /\ h[j].info.state # "synced"
    BY <1>2, <2>1 DEF Since
  <2> QED
    BY <1>1, <1>3, <2>2 DEF Sync!StoodStill, Since
<1>4. ASSUME Sync!StoodStill(h) PROVE h[n].t - h[a].t >= StallAfter
  <2>1. PICK i \in DOMAIN h :
          /\ h[i].ok /\ h[n].t - h[i].t >= StallAfter
          /\ \A j \in i..n : h[j].ok => h[j].info.height = h[n].info.height /\ h[j].info.state # "synced"
    BY <1>1, <1>4 DEF Sync!StoodStill
  <2>2. i >= a
    <3>1. SUFFICES ASSUME i < a PROVE FALSE
      BY <1>1
    <3>2. PICK c \in DOMAIN h : /\ i <= c /\ c < a /\ h[c].ok
                                /\ h[c].info.height # h[a].info.height \/ h[c].info.state = "synced"
      BY <2>1, <3>1 DEF Since
    <3>3. c \in i..n
      BY <1>1, <3>2
    <3> QED
      BY <1>2, <2>1, <3>2, <3>3
  <2>3. h[i].t >= h[a].t
    BY <1>1, <2>2 DEF Timed
  <2> QED
    BY <1>1, <2>1, <2>3
<1> QED
  BY <1>3, <1>4

\* observe reports a stall exactly when the height has stood still.
LEMMA GoodIsStalled ==
  ASSUME SyncAssumption, NEW h \in Seq(Observations), NEW tr \in Trackers, NEW target, NEW t \in Nat,
         NEW i \in Reports, Tracks(h, tr, target), Timed(h, t), \A k \in DOMAIN h : h[k].t < t
  PROVE  Sync!Stalled(tr, t, i) <=> Sync!StoodStill(Append(h, [t |-> t, ok |-> TRUE, info |-> i]))
<1> DEFINE e == [t |-> t, ok |-> TRUE, info |-> i]
           new == Append(h, e)
           obs == Sync!observe(tr, t, i)
<1>1. e \in Observations /\ e.ok /\ e.t = t /\ e.info = i
  BY DEF Observations
<1>2. Tracks(new, obs, i.target) /\ obs.baseline /\ obs.lastState = i.state
  BY GoodSample DEF Sync!observe
<1>3. obs.lastAdvance = IF Sync!Changed(tr, i) THEN t ELSE Sync!Advance(tr, t, i)
  BY DEF Sync!observe
<1> HIDE DEF e, obs
<1>4. /\ new \in Seq(Observations) /\ Len(new) \in DOMAIN new /\ new[Len(new)] = e /\ Timed(new, t)
      /\ Len(new) \in Nat /\ Sync!Last(new) = e
  BY <1>1, OneMoreObservation, StaysTimed DEF Sync!Last
<1> HIDE DEF new
<1>5. StallAfter \in Nat \ {0}
  BY DEF SyncAssumption, Sync!TimesAssumption
<1>6. CASE i.state = "synced"
  <2>1. ~Sync!StoodStill(new)
    <3>1. ASSUME NEW k \in DOMAIN new PROVE Len(new) \in k..Len(new)
      BY <1>4, <3>1
    <3> QED
      BY <1>1, <1>4, <1>6, <3>1 DEF Sync!StoodStill
  <2> QED
    BY <1>6, <2>1 DEF Sync!Stalled, new, e
<1>7. CASE i.state # "synced"
  <2>1. PICK a \in DOMAIN new : Since(new, a) /\ new[a].t = obs.lastAdvance
    BY <1>2, <1>7 DEF Tracks
  <2>2. Sync!StoodStill(new) <=> t - obs.lastAdvance >= StallAfter
    BY <1>1, <1>4, <2>1, StillSince
  <2>3. Sync!Stalled(tr, t, i) <=> t - obs.lastAdvance >= StallAfter
    BY <1>3, <1>5, <1>7 DEF Sync!Stalled
  <2> QED
    BY <2>2, <2>3 DEF new, e
<1> QED
  BY <1>6, <1>7

\* observeError reports a stall exactly when the errors have lasted, and the tracker
\* holds the height and target of the last good sample.
LEMMA ErrorsLasted ==
  ASSUME SyncAssumption, NEW h \in Seq(Observations), NEW tr \in Trackers, NEW target, NEW t \in Nat,
         Tracks(h, tr, target), Timed(h, t)
  PROVE  LET new == Append(h, [t |-> t, ok |-> FALSE, info |-> Sync!NoInfo]) IN
         /\ Sync!ErrorStalled(tr, t) <=> Sync!KeptFailing(new)
         /\ tr.baseline => Sync!LastGood(new).height = tr.lastHeight /\ Sync!LastGood(new).target = target
<1> DEFINE e == [t |-> t, ok |-> FALSE, info |-> Sync!NoInfo]
           n == Len(h) + 1
           new == Append(h, e)
<1>1. /\ e \in Observations /\ ~e.ok /\ e.t = t
      /\ n \in Nat /\ DOMAIN h = 1..Len(h) /\ DOMAIN new = 1..n /\ n \in DOMAIN new /\ Len(new) = n /\ Len(h) = n - 1
      /\ \A k \in 1..Len(h) : h[k] \in Observations /\ new[k] = h[k]
      /\ new[n] = e /\ Sync!Last(new) = e
  <2>1. e \in Observations /\ ~e.ok /\ e.t = t
    BY DEF Observations, Reports, Sync!NoInfo
  <2> HIDE DEF e
  <2> QED
    BY <2>1, OneMoreObservation DEF Sync!Last
<1> HIDE DEF e, n, new
<1>2. /\ \A k \in DOMAIN new : k \in Nat /\ new[k].t \in Nat /\ (k # n => k \in DOMAIN h /\ new[k] = h[k] /\ k < n)
      /\ StallAfter \in Nat \ {0} /\ Sync!Never \notin Nat
  <2>1. \A k \in DOMAIN h : h[k].t \in Nat
    BY <1>1 DEF Observations
  <2> QED
    BY <1>1, <2>1 DEF SyncAssumption, Sync!TimesAssumption, Sync!Never
<1>3. CASE ~tr.baseline
  <2>1. \A k \in DOMAIN new : ~new[k].ok
    BY <1>1, <1>2, <1>3 DEF Tracks
  <2> QED
    BY <1>3, <2>1 DEF Sync!ErrorStalled, Sync!KeptFailing, new, e
<1>4. CASE tr.baseline
  <2>1. PICK g \in DOMAIN h :
          /\ Latest(h, g) /\ tr.lastHeight = h[g].info.height
          /\ target = h[g].info.target
          /\ tr.firstErr = IF g = Len(h) THEN Sync!Never ELSE h[g + 1].t
    BY <1>4 DEF Tracks
  <2>2. g \in DOMAIN new /\ new[g] = h[g] /\ new[g].ok /\ g < n /\ \A k \in DOMAIN new : k > g => ~new[k].ok
    BY <1>1, <1>2, <2>1 DEF Latest
  <2>3. g + 1 \in DOMAIN new /\ (g # Len(h) => tr.firstErr = new[g + 1].t)
    BY <1>1, <2>1, <2>2
  <2>4. ASSUME Sync!KeptFailing(new) PROVE Sync!ErrorStalled(tr, t)
    <3>1. PICK k \in DOMAIN new : t - new[k].t >= StallAfter /\ \A j \in k..n : ~new[j].ok
      BY <1>1, <2>4 DEF Sync!KeptFailing
    <3>2. k > g
      BY <1>1, <1>2, <2>2, <3>1
    <3>3. k # n
      BY <1>1, <1>2, <3>1
    <3>4. g # Len(h) /\ h[g + 1].t <= h[k].t /\ new[k] = h[k] /\ g + 1 \in DOMAIN h
      <4>1. k \in DOMAIN h /\ g + 1 \in DOMAIN h /\ g + 1 <= k
        BY <1>1, <1>2, <3>2, <3>3
      <4>2. h[g + 1].t \in Nat /\ h[k].t \in Nat
        BY <1>1, <4>1 DEF Observations
      <4>3. h[g + 1].t <= h[k].t
        <5>1. CASE g + 1 = k
          BY <4>2, <5>1
        <5>2. CASE g + 1 # k
          <6>1. g + 1 < k
            BY <1>1, <4>1, <5>2
          <6>2. h[g + 1].t < h[k].t
            BY <4>1, <6>1 DEF Timed
          <6> QED
            BY <4>2, <6>2
        <5> QED
          BY <5>1, <5>2
      <4> QED
        BY <1>1, <1>2, <3>3, <4>1, <4>3
    <3>5. tr.firstErr = h[g + 1].t /\ h[g + 1].t \in Nat
      BY <1>1, <2>1, <3>4 DEF Observations
    <3> QED
      BY <1>2, <1>4, <3>1, <3>4, <3>5 DEF Sync!ErrorStalled
  <2>5. ASSUME Sync!ErrorStalled(tr, t) PROVE Sync!KeptFailing(new)
    <3>1. tr.firstErr # Sync!Never /\ t - tr.firstErr >= StallAfter
      BY <2>5 DEF Sync!ErrorStalled
    <3>2. t - new[g + 1].t >= StallAfter
      BY <2>1, <2>3, <3>1
    <3>3. \A j \in (g + 1)..n : ~new[j].ok
      BY <1>1, <2>2
    <3> QED
      BY <1>1, <2>2, <2>3, <3>2, <3>3 DEF Sync!KeptFailing
  <2>6. Sync!LastGood(new) = h[g].info
    <3> DEFINE Good(k) == new[k].ok /\ \A j \in (k + 1)..Len(new) : ~new[j].ok
    <3>1. Good(g)
      BY <1>1, <2>2
    <3>2. ASSUME NEW k \in DOMAIN new, Good(k) PROVE k = g
      BY <1>1, <1>2, <2>2, <3>2
    <3>3. (CHOOSE k \in DOMAIN new : Good(k)) = g
      <4> HIDE DEF Good
      <4> QED
        BY <2>2, <3>1, <3>2
    <3> QED
      BY <2>2, <3>3 DEF Sync!LastGood
  <2> QED
    BY <1>4, <2>1, <2>4, <2>5, <2>6 DEF new, e
<1> QED
  BY <1>3, <1>4

-----------------------------------------------------------------------------
(* The numbers of a frame.                                                 *)

\* A rate of the samples, times what is left, is a natural number (computeSync).
LEMMA Quotients ==
  ASSUME NEW x \in Nat, NEW y \in Nat, NEW d \in Nat \ {0}
  PROVE  (x * y) \div d \in Nat
<1>1. x * y \in Nat
  OBVIOUS
<1> QED
  BY <1>1

\* A percent stays within 0..100, above the target and for a target of 0
\* (computeSync).
LEMMA PercentRange ==
  ASSUME NEW x \in Nat, NEW d \in Nat
  PROVE  Sync!Percent(x, d) \in 0..100
<1>1. ASSUME d # 0, x < d PROVE (x * 100) \div d \in 0..100
  BY <1>1
<1> QED
  BY <1>1 DEF Sync!Percent

\* The samples of the rate are few and in the order of their times.
Samples == [t : Nat, height : Nat]
SamplesInv(ss, t) ==
  /\ ss \in Seq(Samples) /\ Len(ss) <= MaxSamples
  /\ \A i, j \in DOMAIN ss : i <= j => ss[i].t <= ss[j].t
  /\ \A i \in DOMAIN ss : ss[i].t <= t

\* Dropping the oldest sample keeps the others in order and under the cap
\* (startSyncPoller).
LEMMA Kept ==
  ASSUME SyncAssumption, NEW ss, NEW t \in Nat, SamplesInv(ss, t), NEW x \in Nat
  PROVE  SamplesInv(Sync!Keep(Append(ss, [t |-> t, height |-> x])), t)
<1> DEFINE e == [t |-> t, height |-> x]
           more == Append(ss, e)
<1>1. e \in Samples /\ e.t = t
  BY DEF Samples
<1>2. ss \in Seq(Samples) /\ MaxSamples \in Nat \ {0} /\ Len(ss) <= MaxSamples
  BY DEF SamplesInv, SyncAssumption, Sync!BoundsAssumption
<1> HIDE DEF e
<1>3. /\ more \in Seq(Samples) /\ Len(more) = Len(ss) + 1 /\ Len(ss) \in Nat
      /\ \A i \in 1..Len(ss) : more[i] = ss[i] /\ ss[i] \in Samples /\ i \in DOMAIN ss
      /\ more[Len(ss) + 1] = e
  BY <1>1, <1>2
<1>4. \A i \in 1..Len(ss) : ss[i].t \in Nat
  BY <1>3 DEF Samples
<1> HIDE DEF more
<1>5. ASSUME NEW i \in 1..Len(more), NEW j \in 1..Len(more), i <= j
      PROVE  more[i].t <= more[j].t /\ more[i].t <= t
  <2>1. CASE j = Len(ss) + 1
    BY <1>1, <1>3, <1>4, <1>5, <2>1 DEF SamplesInv
  <2>2. CASE j # Len(ss) + 1
    <3>1. i \in 1..Len(ss) /\ j \in 1..Len(ss)
      BY <1>3, <1>5, <2>2
    <3> QED
      BY <1>3, <1>5, <3>1 DEF SamplesInv
  <2> QED
    BY <2>1, <2>2
<1>6. CASE Len(more) > MaxSamples
  <2>1. /\ Tail(more) \in Seq(Samples) /\ Len(Tail(more)) = Len(more) - 1
        /\ \A i \in 1..Len(Tail(more)) : Tail(more)[i] = more[i + 1]
    BY <1>3
  <2>2. ASSUME NEW i \in DOMAIN Tail(more), NEW j \in DOMAIN Tail(more), i <= j
        PROVE  Tail(more)[i].t <= Tail(more)[j].t /\ Tail(more)[i].t <= t
    <3>1. i + 1 \in 1..Len(more) /\ j + 1 \in 1..Len(more) /\ i + 1 <= j + 1
      BY <1>3, <2>1, <2>2
    <3> QED
      BY <1>5, <2>1, <3>1
  <2>3. DOMAIN Tail(more) \subseteq Nat
    BY <2>1
  <2> QED
    <3>1. SamplesInv(Tail(more), t)
      BY <1>2, <1>3, <1>6, <2>1, <2>2, <2>3 DEF SamplesInv
    <3>2. Sync!Keep(more) = Tail(more)
      BY <1>6 DEF Sync!Keep
    <3> QED
      BY <3>1, <3>2 DEF more, e
<1>7. CASE ~(Len(more) > MaxSamples)
  <2>1. DOMAIN more = 1..Len(more)
    BY <1>3
  <2> QED
    <3>1. SamplesInv(more, t)
      BY <1>2, <1>3, <1>5, <1>7, <2>1 DEF SamplesInv
    <3>2. Sync!Keep(more) = more
      BY <1>7 DEF Sync!Keep
    <3> QED
      BY <3>1, <3>2 DEF more, e
<1> QED
  BY <1>6, <1>7

\* A time left is unknown or not negative, also when the height went backwards
\* (computeSync).
LEMMA EtaRange ==
  ASSUME NEW ss, NEW t \in Nat, SamplesInv(ss, t), NEW x \in Nat, NEW d \in Nat
  PROVE  Sync!Eta(ss, x, d) \in Nat \cup {Sync!Never}
<1>1. ASSUME ~Sync!NoEta(ss, x, d) PROVE Sync!Eta(ss, x, d) \in Nat
  <2>1. ss \in Seq(Samples) /\ Len(ss) \in Nat /\ DOMAIN ss = 1..Len(ss)
    BY DEF SamplesInv
  <2>2. Len(ss) >= 2 /\ x < d /\ ~(Sync!Last(ss).height <= Head(ss).height)
    BY <1>1, <2>1 DEF Sync!NoEta
  <2>3. Head(ss) = ss[1] /\ Sync!Last(ss) = ss[Len(ss)] /\ ss[1] \in Samples /\ ss[Len(ss)] \in Samples
    BY <2>1, <2>2 DEF Sync!Last
  <2>4. ss[1].t <= ss[Len(ss)].t
    BY <2>1, <2>2 DEF SamplesInv
  <2>5. ss[1].t \in Nat /\ ss[Len(ss)].t \in Nat /\ ss[1].height \in Nat /\ ss[Len(ss)].height \in Nat
    BY <2>3 DEF Samples
  <2>6. /\ d - x \in Nat /\ ss[Len(ss)].t - ss[1].t \in Nat
        /\ ss[Len(ss)].height - ss[1].height \in Nat \ {0}
    BY <2>2, <2>3, <2>4, <2>5
  <2>7. Sync!Eta(ss, x, d) =
          ((d - x) * (ss[Len(ss)].t - ss[1].t)) \div (ss[Len(ss)].height - ss[1].height)
    BY <1>1, <2>3 DEF Sync!Eta
  <2> QED
    BY <2>6, <2>7, Quotients
<1> QED
  BY <1>1 DEF Sync!Eta
-----------------------------------------------------------------------------
(* The steps.                                                              *)

FrameType(f) == f.by \in Pollers \cup {0} /\ f.percent \in 0..100 /\ f.eta \in Nat \cup {Sync!Never}

SyncTyped ==
  /\ current \in Pollers \cup {0} /\ FrameType(frame)
  /\ samples \in [Pollers -> Seq(Samples)]
  /\ \A p \in Pollers : SamplesInv(samples[p], now[p])

\* A frame that is emitted has its type, its poller and its state (startSyncPoller).
LEMMA Emitted ==
  ASSUME NEW p \in Pollers, NEW ss, NEW t \in Nat, SamplesInv(ss, t), NEW x \in Nat, NEW d \in Nat,
         NEW state, Sync!Emit(p, Sync!computeSync(ss, x, d, state))
  PROVE  /\ FrameType(frame)' /\ frame'.by = p /\ frame'.state = state
         /\ frame' = [by |-> p, state |-> state, height |-> x, percent |-> Sync!Percent(x, d),
                      eta |-> Sync!Eta(ss, x, d)]
BY EtaRange, PercentRange DEF Sync!Emit, Sync!computeSync, FrameType

\* What SyncInfo answers, with its state named as the interface does, is a report
\* (mapSyncState).
LEMMA Answer ==
  ASSUME SyncAssumption, NEW info \in Infos
  PROVE  LET i == [info EXCEPT !.state = Sync!mapSyncState(info.state)] IN
         i \in Reports /\ info.height = i.height /\ info.target = i.target /\ i.state # "stalled"
<1>1. info \in [height : Nat, target : Nat, state : {"Unknown", "Syncing", "SyncDone", "NotEnoughPeers"}]
  BY DEF SyncAssumption, Sync!InfosAssumption
<1>2. Sync!mapSyncState(info.state) \in {"syncing", "synced", "starting"}
  BY <1>1 DEF Sync!mapSyncState
<1> DEFINE i == [info EXCEPT !.state = Sync!mapSyncState(info.state)]
<1>3. i = [height |-> info.height, target |-> info.target, state |-> Sync!mapSyncState(info.state)]
  BY <1>1
<1> QED
  BY <1>1, <1>2, <1>3 DEF Reports

\* A step of one poller leaves the others as they are.
LEMMA OnePoller ==
  ASSUME SyncInv, SyncTyped, NEW p \in Pollers, current' \in Pollers \cup {0}, FrameType(frame)',
         pc' \in [Pollers -> {"off", "waiting", "asking", "ended"}],
         now' \in [Pollers -> Nat], lastTarget' \in [Pollers -> Nat],
         tracker' \in [Pollers -> Trackers], history' \in [Pollers -> Seq(Observations)],
         Timed(history'[p], now'[p]), Tracks(history'[p], tracker'[p], lastTarget'[p]),
         pc'[p] = "asking" => \A i \in DOMAIN history'[p] : history'[p][i].t < now'[p],
         samples' \in [Pollers -> Seq(Samples)], SamplesInv(samples'[p], now'[p]),
         \A q \in Pollers : q # p =>
           /\ pc'[q] = pc[q] /\ now'[q] = now[q] /\ lastTarget'[q] = lastTarget[q] /\ tracker'[q] = tracker[q]
           /\ history'[q] = history[q] /\ samples'[q] = samples[q]
  PROVE  SyncInv' /\ SyncTyped'
<1> QED
  BY DEF SyncInv, SyncTyped

\* Every step keeps the invariant, and shows a stall exactly when there is one
\* (startSyncPoller).
LEMMA SyncStep ==
  ASSUME SyncAssumption, SyncInv, SyncTyped, Sync!Next
  PROVE  /\ SyncInv' /\ SyncTyped'
         /\ Sync!HeightStallsStep /\ Sync!ErrorStallsStep
<1> USE DEF SyncInv, SyncTyped
<1>1. CASE Sync!Stop
  <2>1. current' = 0 /\ UNCHANGED <<pc, now, tracker, samples, lastTarget, history, frame>>
    BY <1>1 DEF Sync!Stop
  <2>2. \A p \in Pollers : ~Sync!Observed(p)
    BY <2>1 DEF Sync!Observed
  <2>3. SyncInv' /\ SyncTyped'
    BY <2>1 DEF FrameType
  <2> QED
    BY <2>2, <2>3 DEF Sync!HeightStallsStep, Sync!ErrorStallsStep
<1>2. ASSUME NEW p \in Pollers, Sync!Start(p) \/ Sync!Quit(p) \/ \E gap \in Gaps : Sync!Tick(p, gap)
      PROVE  SyncInv' /\ SyncTyped' /\ Sync!HeightStallsStep /\ Sync!ErrorStallsStep
  <2>1. /\ UNCHANGED <<tracker, samples, lastTarget, history, frame>>
        /\ current' \in Pollers \cup {0}
        /\ pc' \in [Pollers -> {"off", "waiting", "asking", "ended"}] /\ now' \in [Pollers -> Nat]
        /\ \A q \in Pollers : q # p => pc'[q] = pc[q] /\ now'[q] = now[q]
        /\ now'[p] >= now[p] /\ (pc'[p] = "asking" => now'[p] > now[p])
    <3>1. CASE Sync!Start(p)
      BY <3>1 DEF Sync!Start
    <3>2. CASE Sync!Quit(p)
      BY <3>2 DEF Sync!Quit
    <3>3. CASE \E gap \in Gaps : Sync!Tick(p, gap)
      <4>1. PICK gap \in Gaps : Sync!Tick(p, gap)
        BY <3>3
      <4>2. gap \in Nat \ {0}
        BY DEF SyncAssumption, Sync!TimesAssumption
      <4> QED
        BY <4>1, <4>2 DEF Sync!Tick
    <3> QED
      BY <1>2, <3>1, <3>2, <3>3
  <2>2. \A q \in Pollers : ~Sync!Observed(q)
    BY <2>1 DEF Sync!Observed
  <2>3. \A i \in DOMAIN history[p] : history[p][i].t \in Nat /\ history[p][i].t <= now[p]
    <3>1. history[p] \in Seq(Observations) /\ Timed(history[p], now[p])
      OBVIOUS
    <3>2. ASSUME NEW i \in DOMAIN history[p] PROVE history[p][i] \in Observations
      BY <3>1
    <3> QED
      BY <3>1, <3>2 DEF Timed, Observations
  <2>4. Timed(history[p], now'[p]) /\ (pc'[p] = "asking" => \A i \in DOMAIN history[p] : history[p][i].t < now'[p])
    <3>1. now[p] \in Nat /\ now'[p] \in Nat /\ Timed(history[p], now[p])
      BY <2>1
    <3>2. \A i \in DOMAIN history[p] : history[p][i].t <= now'[p]
      BY <2>1, <2>3, <3>1
    <3>3. pc'[p] = "asking" => \A i \in DOMAIN history[p] : history[p][i].t < now'[p]
      BY <2>1, <2>3, <3>1
    <3> QED
      BY <3>1, <3>2, <3>3 DEF Timed
  <2>5. SamplesInv(samples[p], now'[p])
    <3>1. samples[p] \in Seq(Samples) /\ SamplesInv(samples[p], now[p])
      BY DEF SamplesInv
    <3>2. ASSUME NEW i \in DOMAIN samples[p] PROVE samples[p][i] \in Samples
      BY <3>1
    <3>3. \A i \in DOMAIN samples[p] : samples[p][i].t <= now'[p]
      BY <2>1, <3>1, <3>2 DEF SamplesInv, Samples
    <3> QED
      BY <3>1, <3>3 DEF SamplesInv
  <2>6. SyncInv' /\ SyncTyped'
    BY <2>1, <2>4, <2>5, OnePoller DEF FrameType
  <2> QED
    BY <2>2, <2>6 DEF Sync!HeightStallsStep, Sync!ErrorStallsStep
<1>3. ASSUME NEW p \in Pollers, NEW info \in Infos, Sync!Sampled(p, info)
      PROVE  SyncInv' /\ SyncTyped' /\ Sync!HeightStallsStep /\ Sync!ErrorStallsStep
  <2> DEFINE i == [info EXCEPT !.state = Sync!mapSyncState(info.state)]
             e == [t |-> now[p], ok |-> TRUE, info |-> i]
             state == IF Sync!Stalled(tracker[p], now[p], i) THEN "stalled" ELSE i.state
             h == history[p]
  <2>1. /\ i \in Reports /\ info.height = i.height /\ info.target = i.target /\ i.state # "stalled"
        /\ i.height \in Nat /\ i.target \in Nat /\ now[p] \in Nat /\ pc[p] = "asking"
        /\ tracker[p] \in Trackers /\ h \in Seq(Observations) /\ Timed(h, now[p])
        /\ Tracks(h, tracker[p], lastTarget[p]) /\ \A k \in DOMAIN h : h[k].t < now[p]
    BY <1>3, Answer DEF Sync!Sampled, Reports
  <2>2. /\ pc' = [pc EXCEPT ![p] = "waiting"] /\ UNCHANGED <<current, now>>
        /\ lastTarget' = [lastTarget EXCEPT ![p] = i.target]
        /\ samples' = [samples EXCEPT ![p] = Sync!Keep(Append(samples[p], [t |-> now[p], height |-> i.height]))]
        /\ tracker' = [tracker EXCEPT ![p] = Sync!observe(tracker[p], now[p], i)]
        /\ Sync!Emit(p, Sync!computeSync(samples'[p], i.height, i.target, state))
        /\ history' = [history EXCEPT ![p] = Append(h, e)]
    BY <1>3, <2>1 DEF Sync!Sampled, Sync!Record
  <2> HIDE DEF i
  <2>3. /\ Sync!observe(tracker[p], now[p], i) \in Trackers
        /\ Tracks(Append(h, e), Sync!observe(tracker[p], now[p], i), i.target)
    BY <2>1, GoodSample
  <2>4. e \in Observations /\ e.t = now[p] /\ e.ok /\ e.info = i
    BY <2>1 DEF Observations
  <2>5. Sync!Stalled(tracker[p], now[p], i) <=> Sync!StoodStill(Append(h, e))
    BY <2>1, GoodIsStalled
  <2> HIDE DEF e
  <2>6. /\ Timed(Append(h, e), now[p]) /\ Append(h, e) \in Seq(Observations)
        /\ Sync!Last(Append(h, e)) = e /\ Append(h, e) # h
    BY <2>1, <2>4, StaysTimed
  <2>7. samples' \in [Pollers -> Seq(Samples)] /\ SamplesInv(samples'[p], now[p])
    <3>1. SamplesInv(Sync!Keep(Append(samples[p], [t |-> now[p], height |-> i.height])), now[p])
      BY <2>1, Kept
    <3>2. samples'[p] = Sync!Keep(Append(samples[p], [t |-> now[p], height |-> i.height]))
      BY <2>2
    <3>3. samples'[p] \in Seq(Samples)
      BY <3>1, <3>2 DEF SamplesInv
    <3> QED
      BY <2>2, <3>1, <3>2, <3>3
  <2>8. FrameType(frame)' /\ frame'.by = p /\ frame'.state = state
    <3> HIDE DEF state
    <3> QED
      BY <2>1, <2>2, <2>7, Emitted
  <2>9. SyncInv' /\ SyncTyped'
    BY <2>1, <2>2, <2>3, <2>6, <2>7, <2>8, OnePoller
  <2>10. Sync!HeightStallsStep
    <3>1. \A q \in Pollers : Sync!Observed(q) => q = p
      BY <2>2 DEF Sync!Observed
    <3>2. frame'.state = "stalled" <=> Sync!StoodStill(history'[p])
      BY <2>1, <2>2, <2>5, <2>8
    <3> QED
      BY <2>8, <3>1, <3>2 DEF Sync!HeightStallsStep
  <2>11. Sync!ErrorStallsStep
    <3>1. \A q \in Pollers : Sync!Observed(q) => q = p
      BY <2>2 DEF Sync!Observed
    <3>2. Sync!Last(history'[p]).ok
      BY <2>2, <2>4, <2>6
    <3> QED
      BY <3>1, <3>2 DEF Sync!ErrorStallsStep
  <2> QED
    BY <2>9, <2>10, <2>11
<1>4. ASSUME NEW p \in Pollers, Sync!Failed(p)
      PROVE  SyncInv' /\ SyncTyped' /\ Sync!HeightStallsStep /\ Sync!ErrorStallsStep
  <2> DEFINE e == [t |-> now[p], ok |-> FALSE, info |-> Sync!NoInfo]
             h == history[p]
             stalls == Sync!ErrorStalled(tracker[p], now[p])
  <2>1. /\ now[p] \in Nat /\ pc[p] = "asking" /\ lastTarget[p] \in Nat /\ tracker[p].lastHeight \in Nat
        /\ tracker[p] \in Trackers /\ h \in Seq(Observations) /\ Timed(h, now[p])
        /\ Tracks(h, tracker[p], lastTarget[p]) /\ \A k \in DOMAIN h : h[k].t < now[p]
    BY <1>4 DEF Sync!Failed, Trackers
  <2>2. /\ UNCHANGED <<current, now, samples, lastTarget>>
        /\ pc' = [pc EXCEPT ![p] = "ended"] \/ pc' = [pc EXCEPT ![p] = "waiting"]
        /\ tracker' = [tracker EXCEPT ![p] = Sync!observeError(tracker[p], now[p])]
        /\ history' = [history EXCEPT ![p] = Append(h, e)]
        /\ stalls /\ current = p => Sync!Emit(p, Sync!computeSync(<<>>, tracker[p].lastHeight, lastTarget[p], "stalled"))
        /\ ~(stalls /\ current = p) => frame' = frame
    BY <1>4 DEF Sync!Failed, Sync!Record
  <2>3. /\ Sync!observeError(tracker[p], now[p]) \in Trackers
        /\ Tracks(Append(h, e), Sync!observeError(tracker[p], now[p]), lastTarget[p])
    BY <2>1, FailedSample
  <2>4. e \in Observations /\ e.t = now[p] /\ ~e.ok
    BY <2>1 DEF Observations, Reports, Sync!NoInfo
  <2>5. /\ stalls <=> Sync!KeptFailing(Append(h, e))
        /\ tracker[p].baseline =>
             /\ Sync!LastGood(Append(h, e)).height = tracker[p].lastHeight
             /\ Sync!LastGood(Append(h, e)).target = lastTarget[p]
    BY <2>1, ErrorsLasted
  <2> HIDE DEF e
  <2>6. /\ Timed(Append(h, e), now[p]) /\ Append(h, e) \in Seq(Observations)
        /\ Sync!Last(Append(h, e)) = e /\ Append(h, e) # h
    BY <2>1, <2>4, StaysTimed
  <2>7. stalls => tracker[p].baseline
    BY DEF Sync!ErrorStalled
  <2> HIDE DEF stalls
  <2>8. SamplesInv(<<>>, now[p])
    BY <2>1 DEF SamplesInv, SyncAssumption, Sync!BoundsAssumption
  <2>9. stalls /\ current = p =>
          /\ FrameType(frame)'
          /\ frame' = [by |-> p, state |-> "stalled", height |-> tracker[p].lastHeight,
                       percent |-> Sync!Percent(tracker[p].lastHeight, lastTarget[p]), eta |-> Sync!Never]
    <3>1. Sync!Eta(<<>>, tracker[p].lastHeight, lastTarget[p]) = Sync!Never
      BY DEF Sync!Eta, Sync!NoEta
    <3> QED
      BY <2>1, <2>2, <2>8, <3>1, Emitted
  <2>10. FrameType(frame)'
    BY <2>2, <2>9 DEF FrameType
  <2>11. SyncInv' /\ SyncTyped'
    BY <2>1, <2>2, <2>3, <2>6, <2>10, OnePoller
  <2>12. \A q \in Pollers : Sync!Observed(q) => q = p
    BY <2>2 DEF Sync!Observed
  <2>13. history'[p] = Append(h, e) /\ ~Sync!Last(history'[p]).ok
    BY <2>2, <2>4, <2>6
  <2>14. Sync!HeightStallsStep
    BY <2>12, <2>13 DEF Sync!HeightStallsStep
  <2>15. Sync!ErrorStallsStep
    BY <2>2, <2>5, <2>7, <2>9, <2>12, <2>13 DEF Sync!ErrorStallsStep
  <2> QED
    BY <2>11, <2>14, <2>15
<1> QED
  BY <1>1, <1>2, <1>3, <1>4 DEF Sync!Next

\* A poller begins with a fresh tracker and has observed nothing.
LEMMA SyncInit ==
  ASSUME SyncAssumption, Sync!Init
  PROVE  SyncInv /\ SyncTyped
<1>1. Sync!NewTracker \in Trackers /\ ~Sync!NewTracker.baseline /\ Sync!NewTracker.firstErr = Sync!Never
  BY DEF Sync!NewTracker, Trackers
<1>2. SamplesInv(<<>>, 0) /\ Timed(<<>>, 0) /\ Tracks(<<>>, Sync!NewTracker, 0)
  BY <1>1 DEF SamplesInv, Timed, Tracks, SyncAssumption, Sync!BoundsAssumption
<1>3. SyncInv
  BY <1>1, <1>2 DEF Sync!Init, SyncInv
<1>4. SyncTyped
  BY <1>2 DEF Sync!Init, SyncTyped, FrameType, Sync!NoFrame
<1> QED
  BY <1>3, <1>4

\* The invariant of the pollers holds in every reachable state.
LEMMA SyncInvariant ==
  ASSUME SyncAssumption
  PROVE  Sync!Spec => [](SyncInv /\ SyncTyped)
<1>1. SyncInv /\ SyncTyped /\ [Sync!Next]_(Sync!vars) => SyncInv' /\ SyncTyped'
  <2>1. ASSUME SyncInv, SyncTyped, UNCHANGED Sync!vars PROVE SyncInv' /\ SyncTyped'
    BY <2>1 DEF Sync!vars, SyncInv, SyncTyped, FrameType
  <2> QED
    BY <2>1, SyncStep
<1> QED
  BY <1>1, SyncInit, PTL DEF Sync!Spec

(* The theorems.                                                           *)

\* Every field keeps its type; a percent stays within 0..100 and a time left is
\* never negative, whatever the node reports and whenever (computeSync).
THEOREM SyncTypes ==
  ASSUME SyncAssumption
  PROVE  Sync!Spec => []Sync!TypeOK
<1>1. SyncInv /\ SyncTyped => Sync!TypeOK
  BY DEF SyncInv, SyncTyped, FrameType, SamplesInv, Sync!TypeOK
<1> QED
  BY <1>1, SyncInvariant, PTL

\* A good sample is shown as stalled exactly when the node's height has stood
\* still, unsynced, for the whole window, for any answers, gaps and window
\* (observe).
THEOREM HeightStallIsReal ==
  ASSUME SyncAssumption
  PROVE  Sync!Spec => Sync!HeightStalls
<1>1. SyncInv /\ SyncTyped /\ [Sync!Next]_(Sync!vars) => [Sync!HeightStallsStep]_(Sync!vars)
  BY SyncStep
<1> QED
  BY <1>1, SyncInvariant, PTL DEF Sync!Spec, Sync!HeightStalls

\* A failed sample changes the frame exactly when the run of errors has lasted the
\* whole window, and then to a stalled frame with the last known height and percent
\* (observeError).
THEOREM ErrorStallIsReal ==
  ASSUME SyncAssumption
  PROVE  Sync!Spec => Sync!ErrorStalls
<1>1. SyncInv /\ SyncTyped /\ [Sync!Next]_(Sync!vars) => [Sync!ErrorStallsStep]_(Sync!vars)
  BY SyncStep
<1> QED
  BY <1>1, SyncInvariant, PTL DEF Sync!Spec, Sync!ErrorStalls

============================================================================
