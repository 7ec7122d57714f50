----------------------------- MODULE SyncStatus ------------------------------
(***************************************************************************)
(* The sync poller of the embedded node (app/node_service.go               *)
(* startSyncPoller, app/node_sync.go): every tick it samples the node and  *)
(* emits a node:sync frame, and it reports "stalled" when an unsynced      *)
(* node's height stands still, or when its samples keep failing.           *)
(*                                                                         *)
(* Times are ticks of an arbitrary unit; a gap longer than one is a tick   *)
(* the machine slept through or a call that blocked.  Every observation a  *)
(* poller made is kept in its history, a record of the model only.         *)
(* Percent and the time left are in whole units; the peers are left out.   *)
(***************************************************************************)
EXTENDS Integers, SequencesExt, FiniteSetsExt

CONSTANTS
  Pollers,      \* 1..n: the pollers started one after another
  Infos,        \* what SyncInfo may answer: records [height, target, state]
  Gaps,         \* times between two ticks
  StallAfter,   \* syncStallAfter
  MaxSamples,   \* samples kept for the rate (10)
  MaxPolls      \* bound on a poller's observations

PollersAssumption == Pollers = 1..Cardinality(Pollers)
TimesAssumption == Gaps \subseteq Nat \ {0} /\ StallAfter \in Nat \ {0}
BoundsAssumption == MaxSamples \in Nat \ {0} /\ MaxPolls \in Nat \ {0}
InfosAssumption ==
  Infos \subseteq [height : Nat, target : Nat, state : {"Unknown", "Syncing", "SyncDone", "NotEnoughPeers"}]

VARIABLES
  current,   \* the poller whose stop channel is open, 0 when there is none
  pc,        \* of each poller: off, waiting, asking
  now,       \* of each poller: the time of its last tick
  tracker,   \* its stallTracker
  samples, lastTarget,
  history,   \* everything it observed: [t, ok, info]
  shown      \* the last frame emitted, and by whom

vars == <<current, pc, now, tracker, samples, lastTarget, history, shown>>

Never == -1
NoInfo == [height |-> 0, target |-> 0, state |-> "none"]
NoFrame == [by |-> 0, state |-> "none", height |-> 0, percent |-> 0, eta |-> Never]
NewTracker == [baseline |-> FALSE, lastHeight |-> 0, lastAdvance |-> 0, lastState |-> "", firstErr |-> Never]

Init ==
  /\ current = 0 /\ pc = [p \in Pollers |-> "off"] /\ now = [p \in Pollers |-> 0]
  /\ tracker = [p \in Pollers |-> NewTracker]
  /\ samples = [p \in Pollers |-> <<>>] /\ lastTarget = [p \in Pollers |-> 0]
  /\ history = [p \in Pollers |-> <<>>] /\ shown = NoFrame

-----------------------------------------------------------------------------
(* The frame: percent, and the time left at the rate of the samples.       *)

\* Mutant: the rate is also taken of a height that went backwards.
NoEtaForward(ss, height, target) ==
  target = 0 \/ height >= target \/ Len(ss) < 2 \/ Last(ss).height = Head(ss).height

NoEta(ss, height, target) ==
  \/ target = 0 \/ height >= target \/ Len(ss) < 2
  \/ Last(ss).height <= Head(ss).height

Eta(ss, height, target) ==
  IF NoEta(ss, height, target) THEN Never
  ELSE ((target - height) * (Last(ss).t - Head(ss).t)) \div (Last(ss).height - Head(ss).height)

Percent(height, target) ==
  IF target = 0 THEN 0 ELSE IF height >= target THEN 100 ELSE (height * 100) \div target

computeSync(ss, height, target, state) ==
  [state |-> state, height |-> height,
   percent |-> Percent(height, target), eta |-> Eta(ss, height, target)]

Emit(p, frame) ==
  shown' = [by |-> p, state |-> frame.state, height |-> frame.height, percent |-> frame.percent, eta |-> frame.eta]

-----------------------------------------------------------------------------
(* The stall tracker.                                                      *)

\* Mutant: leaving the synced state does not restart the clock.
AdvanceQuiet(tr, t, i) == tr.lastAdvance

\* When the height clock was last set, before sample i of time t.
Advance(tr, t, i) == IF i.state # "synced" /\ tr.lastState = "synced" THEN t ELSE tr.lastAdvance

\* The node's state as the interface names it.
mapSyncState(s) ==
  CASE s = "Syncing" -> "syncing" [] s = "SyncDone" -> "synced" [] OTHER -> "starting"

Changed(tr, i) == ~tr.baseline \/ i.height # tr.lastHeight

observe(tr, t, i) ==
  [baseline |-> TRUE, lastHeight |-> i.height, lastState |-> i.state, firstErr |-> Never,
   lastAdvance |-> IF Changed(tr, i) THEN t ELSE Advance(tr, t, i)]

Stalled(tr, t, i) ==
  /\ ~Changed(tr, i) /\ i.state # "synced"
  /\ t - Advance(tr, t, i) >= StallAfter

observeError(tr, t) ==
  IF tr.baseline /\ tr.firstErr = Never THEN [tr EXCEPT !.firstErr = t] ELSE tr

\* Mutant: the window of the errors starts at the last advance.
ErrorStalledSinceAdvance(tr, t) ==
  tr.baseline /\ tr.firstErr # Never /\ t - tr.lastAdvance >= StallAfter

ErrorStalled(tr, t) == tr.baseline /\ tr.firstErr # Never /\ t - tr.firstErr >= StallAfter

-----------------------------------------------------------------------------
(* The pollers.                                                            *)

\* A start closes the stop channel of the poller before it.
Start(p) ==
  /\ pc[p] = "off" /\ \A q \in Pollers : q < p => pc[q] # "off"
  /\ current' = p
  /\ pc' = [pc EXCEPT ![p] = "waiting"]
  /\ UNCHANGED <<now, tracker, samples, lastTarget, history, shown>>

\* A closed stop and a tick may both be ready: select takes either.
Tick(p, gap) ==
  /\ pc[p] = "waiting" /\ Len(history[p]) < MaxPolls
  /\ pc' = [pc EXCEPT ![p] = "asking"]
  /\ now' = [now EXCEPT ![p] = @ + gap]
  /\ UNCHANGED <<current, tracker, samples, lastTarget, history, shown>>

Quit(p) ==
  /\ pc[p] = "waiting" /\ current # p
  /\ pc' = [pc EXCEPT ![p] = "ended"]
  /\ UNCHANGED <<current, now, tracker, samples, lastTarget, history, shown>>

Keep(ss) == IF Len(ss) > MaxSamples THEN Tail(ss) ELSE ss

Record(p, ok, i) ==
  history' = [history EXCEPT ![p] = Append(@, [t |-> now[p], ok |-> ok, info |-> i])]

\* A good sample is emitted whether or not the poller has been superseded.
Sampled(p, info) ==
  /\ pc[p] = "asking"
  /\ pc' = [pc EXCEPT ![p] = "waiting"]
  /\ lastTarget' = [lastTarget EXCEPT ![p] = info.target]
  /\ samples' = [samples EXCEPT ![p] = Keep(Append(@, [t |-> now[p], height |-> info.height]))]
  /\ LET i == [info EXCEPT !.state = mapSyncState(@)]
         state == IF Stalled(tracker[p], now[p], i) THEN "stalled" ELSE i.state IN
       /\ tracker' = [tracker EXCEPT ![p] = observe(@, now[p], i)]
       /\ Emit(p, computeSync(samples'[p], i.height, i.target, state))
       /\ Record(p, TRUE, i)
  /\ UNCHANGED <<current, now>>

\* Mutant: a superseded poller reports its stall.
FailedSuperseded(p) ==
  /\ pc[p] = "asking"
  /\ tracker' = [tracker EXCEPT ![p] = observeError(@, now[p])]
  /\ pc' = [pc EXCEPT ![p] = "waiting"]
  /\ IF ErrorStalled(tracker[p], now[p])
     THEN Emit(p, computeSync(<<>>, tracker[p].lastHeight, lastTarget[p], "stalled"))
     ELSE UNCHANGED shown
  /\ Record(p, FALSE, NoInfo)
  /\ UNCHANGED <<current, now, samples, lastTarget>>

\* A failed one is reported once the window is over, by the current poller only.
Failed(p) ==
  /\ pc[p] = "asking"
  /\ tracker' = [tracker EXCEPT ![p] = observeError(@, now[p])]
  /\ IF ErrorStalled(tracker[p], now[p]) /\ current # p
     THEN pc' = [pc EXCEPT ![p] = "ended"] ELSE pc' = [pc EXCEPT ![p] = "waiting"]
  /\ IF ErrorStalled(tracker[p], now[p]) /\ current = p
     THEN Emit(p, computeSync(<<>>, tracker[p].lastHeight, lastTarget[p], "stalled"))
     ELSE UNCHANGED shown
  /\ Record(p, FALSE, NoInfo)
  /\ UNCHANGED <<current, now, samples, lastTarget>>

\* The node is disconnected: the poller's stop is closed.
Stop ==
  /\ current # 0 /\ current' = 0
  /\ UNCHANGED <<pc, now, tracker, samples, lastTarget, history, shown>>

Next ==
  \/ Stop
  \/ \E p \in Pollers :
       \/ Start(p) \/ Quit(p) \/ Failed(p)
       \/ \E gap \in Gaps : Tick(p, gap)
       \/ \E info \in Infos : Sampled(p, info)

Spec == Init /\ [][Next]_vars

-----------------------------------------------------------------------------
(* Properties.                                                             *)

\* Every field keeps its type; a percent stays within 0..100 and a time left
\* is never negative, whatever the node reports and however its height moves.
TypeOK ==
  /\ current \in Pollers \cup {0} /\ now \in [Pollers -> Nat]
  /\ pc \in [Pollers -> {"off", "waiting", "asking", "ended"}]
  /\ shown.by \in Pollers \cup {0} /\ shown.percent \in 0..100 /\ shown.eta \in Nat \cup {Never}
  /\ \A p \in Pollers : Len(samples[p]) <= MaxSamples

\* For at least StallAfter, up to the last of h, every good sample was unsynced
\* and at one height.
StoodStill(h) ==
  \E i \in DOMAIN h :
    /\ h[i].ok /\ Last(h).t - h[i].t >= StallAfter
    /\ \A j \in i..Len(h) : h[j].ok => h[j].info.height = Last(h).info.height /\ h[j].info.state # "synced"

\* After some good sample, for at least StallAfter, nothing but errors.
KeptFailing(h) ==
  \E g, i \in DOMAIN h :
    /\ g < i /\ h[g].ok /\ Last(h).t - h[i].t >= StallAfter
    /\ \A j \in i..Len(h) : ~h[j].ok

LastGood(h) == h[CHOOSE i \in DOMAIN h : h[i].ok /\ \A j \in i + 1..Len(h) : ~h[j].ok].info

Observed(p) == history'[p] # history[p]

\* A good sample is shown as stalled exactly when the node's height has stood
\* still, unsynced, for the whole window: never for the quiet stretch of a
\* synced node, a rollback or a reorg (observe).
HeightStallsStep ==
  \A p \in Pollers : Observed(p) /\ Last(history'[p]).ok =>
    shown'.by = p /\ (shown'.state = "stalled" <=> StoodStill(history'[p]))
HeightStalls == [][HeightStallsStep]_vars

\* A failed sample changes the frame exactly when the run of errors has lasted
\* the whole window, and then to a stalled frame with the last known height
\* and percent (observeError, and the frame of the poller).
ErrorStallsStep ==
  \A p \in Pollers : Observed(p) /\ ~Last(history'[p]).ok =>
    IF KeptFailing(history'[p]) /\ current = p
    THEN LET i == LastGood(history'[p]) IN
           shown' = [by |-> p, state |-> "stalled", height |-> i.height,
                     percent |-> Percent(i.height, i.target), eta |-> Never]
    ELSE shown' = shown
ErrorStalls == [][ErrorStallsStep]_vars

\* A superseded poller does not paint a stalled frame over a fresher
\* connection's status (the comment in startSyncPoller).
NoStaleStall == [][shown'.state = "stalled" /\ shown' # shown => shown'.by = current]_vars
=============================================================================
