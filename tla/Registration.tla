---------------------------- MODULE Registration ----------------------------
(***************************************************************************)
(* Registering a sentinel or a pillar: the wizard (components/panels/      *)
(* SentinelLaunch.vue, PillarLaunch.vue), its panel, and the store that    *)
(* polls the chain for a published step (stores/sentinel.ts, pillar.ts).   *)
(*                                                                         *)
(* The chain credits a published step some time later.  The dialog of      *)
(* TxStore is reduced to its status and to the one hold behind it; it is   *)
(* modal, so the user leaves the page or switches accounts without it.     *)
(* Amounts are reduced to whether a step is cleared.                       *)
(***************************************************************************)
EXTENDS Integers, Sequences

CONSTANTS
  Accounts, Nothing,
  Steps,                       \* the wizard's, of which "plasma" is the pillar's only
  MaxPresses, MaxRefreshes,    \* bounds
  MaxSwitches,                 \* the user's account switches, leaves and stops
  PressesAgain,                \* whether a button is pressed while one prepares
  SwitchesPreparing,           \* whether accounts are switched while one prepares
  PreparesFail, ReadsFail,     \* whether the node may refuse
  AnswersOvertake              \* whether refreshes may overtake one another

StepsAssumption ==
  {"deposit", "register"} \subseteq Steps /\ Steps \subseteq {"plasma", "deposit", "register"}
NothingAssumption == Nothing \notin Accounts \cup Steps
BoundsAssumption == {MaxPresses, MaxRefreshes, MaxSwitches} \subseteq Nat
FlagsAssumption == {PressesAgain, SwitchesPreparing, PreparesFail, ReadsFail, AnswersOvertake} \subseteq BOOLEAN

VARIABLES
  account, mounted,     \* the active account, and whether the panel is open
  chain, coming,        \* each account's credited steps, and its blocks on their way
  landed,               \* each account's steps that were ever credited
  shown, shownOf,       \* the steps the store has seen credited, and for whom
  pendingStep,          \* the step being polled for, or Nothing
  refreshes,            \* running refreshes: step, epoch current, poll's, steps read
  lastAction, prepares, \* the wizard's last press, its prepare calls
  status, preview, hold, \* the dialog: what it shows, and the backend's hold
  presses, switches,    \* so far
  owed                  \* a record of the model: see Owes

user == <<account, mounted, switches>>
store == <<shown, shownOf, pendingStep>>
dialog == <<status, preview, hold>>
network == <<chain, coming, landed>>
vars == <<user, network, store, refreshes, lastAction, prepares, dialog, presses, owed>>

Init ==
  /\ account \in Accounts /\ mounted = TRUE
  /\ chain = [a \in Accounts |-> {}] /\ coming = [a \in Accounts |-> <<>>]
  /\ landed = chain
  /\ shown = {} /\ shownOf = account /\ pendingStep = Nothing
  /\ refreshes = <<>> /\ lastAction = Nothing /\ prepares = <<>>
  /\ status = "idle" /\ preview = Nothing /\ hold = Nothing
  /\ presses = 0 /\ switches = 0 /\ owed = Nothing

Without(s, i) == SubSeq(s, 1, i - 1) \o SubSeq(s, i + 1, Len(s))

\* The model remembers the step published last that was not credited, on show or
\* on chain, until its account's is credited, the user stops the wait, or an
\* answer read before the publication reaches the store.
Owes(step) == IF step \in shown \cup chain[account] THEN Nothing ELSE step

\* The wizard is open, as against the view of an owned sentinel.
Watching == mounted /\ "register" \notin shown

-----------------------------------------------------------------------------
(* The store: refresh, beginPending, settleCheck and stopPolling.          *)

\* before: it began before the publication that is polled for.
Begun(poll) == [pc |-> "called", current |-> TRUE, poll |-> poll, before |-> FALSE, of |-> {}]

\* A refresh over the bound is not modelled.
Refresh(running, poll) ==
  Len(running) < MaxRefreshes /\ refreshes' = Append(running, Begun(poll))

Tick ==
  /\ pendingStep # Nothing /\ Refresh(refreshes, TRUE)
  /\ UNCHANGED <<user, network, store, lastAction, prepares, dialog, presses, owed>>

InTurn(i) == i \in DOMAIN refreshes /\ (i = 1 \/ AnswersOvertake)

\* The owned sentinel or pillar is read first, the rest after it.
ReadOwned(i) ==
  /\ InTurn(i) /\ refreshes[i].pc = "called"
  /\ refreshes' = [refreshes EXCEPT ![i].pc = "owned", ![i].of = chain[account] \cap {"register"}]
  /\ UNCHANGED <<user, network, store, lastAction, prepares, dialog, presses, owed>>

ReadRest(i) ==
  /\ InTurn(i) /\ refreshes[i].pc = "owned"
  /\ refreshes' = [refreshes EXCEPT ![i].pc = "ran",
                     ![i].of = @ \cup (chain[account] \ {"register"})]
  /\ UNCHANGED <<user, network, store, lastAction, prepares, dialog, presses, owed>>

ReadFails(i) ==
  /\ ReadsFail /\ InTurn(i) /\ refreshes[i].pc \in {"called", "owned"}
  /\ refreshes' = [refreshes EXCEPT ![i].pc = "failed"]
  /\ UNCHANGED <<user, network, store, lastAction, prepares, dialog, presses, owed>>

\* Mutant: the registration is not settled.
SettleQsrOnly(poll, seen) ==
  pendingStep' = IF poll /\ pendingStep \in seen \ {"register"} THEN Nothing ELSE pendingStep

\* Of a poll only, and whether or not its refresh was discarded.
SettleCheck(poll, seen) ==
  pendingStep' = IF poll /\ pendingStep \in seen THEN Nothing ELSE pendingStep

\* Mutant: an answer is kept whenever it comes.
KeepsAlways(r) == r.pc = "ran"

\* A failure and an answer of an older epoch leave the store as it is.
Keeps(r) == r.pc = "ran" /\ r.current

OlderAnswer(r) == r.pc = "ran" /\ r.current /\ r.before /\ owed \in r.of

Answered(i) ==
  LET r == refreshes[i] IN
    /\ InTurn(i) /\ r.pc \in {"ran", "failed"}
    /\ shown' = IF Keeps(r) THEN r.of ELSE shown
    /\ shownOf' = IF Keeps(r) THEN account ELSE shownOf
    /\ SettleCheck(r.poll, shown')
    /\ refreshes' = Without(refreshes, i)
    /\ lastAction' = IF "register" \in shown' THEN Nothing ELSE lastAction
    /\ owed' = IF OlderAnswer(r) THEN Nothing ELSE owed
    /\ UNCHANGED <<user, network, prepares, dialog, presses>>

-----------------------------------------------------------------------------
(* The user, outside the dialog.                                           *)

Idle == switches < MaxSwitches /\ status = "idle" /\ switches' = switches + 1

\* A new epoch drops the hold; the panel stops polling and reads again.
Switch(a) ==
  /\ Idle /\ a # account /\ account' = a
  /\ SwitchesPreparing \/ prepares = <<>>
  /\ hold' = Nothing
  /\ LET stale == [i \in DOMAIN refreshes |-> [refreshes[i] EXCEPT !.current = FALSE]] IN
       IF mounted THEN Refresh(stale, FALSE) ELSE refreshes' = stale
  /\ pendingStep' = Nothing /\ owed' = Nothing
  /\ UNCHANGED <<mounted, network, shown, shownOf, lastAction, prepares, status, preview, presses>>

Leave ==
  /\ Idle /\ mounted /\ mounted' = FALSE
  /\ pendingStep' = Nothing /\ lastAction' = Nothing /\ owed' = Nothing
  /\ UNCHANGED <<account, network, shown, shownOf, refreshes, prepares, dialog, presses>>

Open ==
  /\ ~mounted /\ status = "idle" /\ mounted' = TRUE
  /\ Refresh(refreshes, FALSE)
  /\ UNCHANGED <<account, switches, network, store, lastAction, prepares, dialog, presses, owed>>

StopWaiting ==
  /\ Idle /\ Watching /\ pendingStep # Nothing /\ pendingStep' = Nothing /\ owed' = Nothing
  /\ UNCHANGED <<account, mounted, network, shown, shownOf, refreshes, lastAction, prepares, dialog, presses>>

RefreshPressed ==
  /\ Watching /\ pendingStep # Nothing /\ status = "idle"
  /\ Refresh(refreshes, FALSE)
  /\ UNCHANGED <<user, network, store, lastAction, prepares, dialog, presses, owed>>

-----------------------------------------------------------------------------
(* The wizard's buttons and the dialog they open.                          *)

\* The sentinel's wizard shows the first step that is not cleared.  The pillar's
\* header leads back to the cleared ones as well, where it fuses and withdraws
\* again; only the deposit is not offered once it is cleared.
Offered(act) ==
  /\ Watching /\ pendingStep = Nothing
  /\ act # "plasma" => "plasma" \notin Steps \ shown
  /\ act = "deposit" => "deposit" \notin shown
  /\ act = "register" => "deposit" \in shown
  /\ act = "withdraw" => "plasma" \in Steps \/ "deposit" \in shown

Press(act) ==
  /\ Offered(act) /\ status = "idle" /\ presses < MaxPresses
  /\ PressesAgain \/ prepares = <<>>
  /\ presses' = presses + 1
  /\ lastAction' = IF act \in Steps THEN act ELSE Nothing
  /\ prepares' = Append(prepares, [pc |-> "called", act |-> act])
  /\ UNCHANGED <<user, network, store, refreshes, dialog, owed>>

PrepareRuns(i) ==
  /\ i \in DOMAIN prepares /\ prepares[i].pc = "called"
  /\ \/ /\ hold = Nothing /\ hold' = prepares[i].act
        /\ prepares' = [prepares EXCEPT ![i].pc = "held"]
     \/ /\ PreparesFail \/ hold # Nothing
        /\ prepares' = [prepares EXCEPT ![i].pc = "refused"] /\ UNCHANGED hold
  /\ UNCHANGED <<user, network, store, refreshes, lastAction, status, preview, presses, owed>>

AwaitConfirm(i) ==
  /\ i \in DOMAIN prepares /\ prepares[i].pc = "held"
  /\ prepares' = Without(prepares, i)
  /\ status' = "awaiting" /\ preview' = prepares[i].act
  /\ UNCHANGED <<user, network, store, refreshes, lastAction, hold, presses, owed>>

\* Whatever was pressed since: a withdrawal's failure leaves it alone.
PrepareFailed(i) ==
  /\ i \in DOMAIN prepares /\ prepares[i].pc = "refused"
  /\ prepares' = Without(prepares, i)
  /\ lastAction' = IF prepares[i].act \in Steps THEN Nothing ELSE lastAction
  /\ UNCHANGED <<user, network, store, refreshes, dialog, presses, owed>>

\* Mutant: any change of the status forgets the press.
ConfirmForgets ==
  /\ status = "awaiting" /\ status' = "publishing" /\ lastAction' = Nothing
  /\ UNCHANGED <<user, network, store, refreshes, prepares, preview, hold, presses, owed>>

Confirm ==
  /\ status = "awaiting" /\ status' = "publishing"
  /\ UNCHANGED <<user, network, store, refreshes, lastAction, prepares, preview, hold, presses, owed>>

BeginPending(step) ==
  /\ pendingStep' = step /\ owed' = Owes(step)
  /\ refreshes' = [i \in DOMAIN refreshes |-> [refreshes[i] EXCEPT !.before = TRUE]]

\* The watcher on the dialog's status polls for the press it remembers.
Published ==
  /\ status = "publishing" /\ hold = preview
  /\ status' = "done" /\ preview' = Nothing /\ hold' = Nothing
  /\ coming' = [coming EXCEPT ![account] = Append(@, preview)]
  /\ IF ~mounted THEN UNCHANGED <<pendingStep, refreshes, owed>>
     ELSE IF lastAction # Nothing THEN BeginPending(lastAction)
     ELSE Refresh(refreshes, FALSE) /\ UNCHANGED <<pendingStep, owed>>
  /\ lastAction' = Nothing
  /\ UNCHANGED <<user, chain, landed, shown, shownOf, prepares, presses>>

ConfirmFailed ==
  /\ status = "publishing" /\ (PreparesFail \/ hold # preview)
  /\ status' = "error" /\ lastAction' = Nothing
  /\ UNCHANGED <<user, network, store, refreshes, prepares, preview, hold, presses, owed>>

Close ==
  /\ status \in {"awaiting", "done", "error"}
  /\ status' = "idle" /\ preview' = Nothing /\ lastAction' = Nothing
  /\ hold' = IF status # "done" /\ hold = preview THEN Nothing ELSE hold
  /\ UNCHANGED <<user, network, store, refreshes, prepares, presses, owed>>

\* The contract takes the account's blocks in their order.
Credit(a) ==
  /\ coming[a] # <<>> /\ coming' = [coming EXCEPT ![a] = Tail(@)]
  /\ LET act == Head(coming[a]) IN
       chain' = [chain EXCEPT ![a] =
         CASE act = "withdraw" -> @ \ {"deposit"}
           [] act = "register" -> IF "deposit" \in @ THEN (@ \ {"deposit"}) \cup {act} ELSE @
           [] OTHER -> @ \cup {act}]
  /\ landed' = [landed EXCEPT ![a] = @ \cup chain'[a]]
  /\ owed' = IF a = account /\ owed \in chain'[a] THEN Nothing ELSE owed
  /\ UNCHANGED <<user, store, refreshes, lastAction, prepares, dialog, presses>>

-----------------------------------------------------------------------------

Reading == \E i \in DOMAIN refreshes : ReadOwned(i) \/ ReadRest(i)

Next ==
  \/ Tick \/ Leave \/ Open \/ StopWaiting \/ RefreshPressed
  \/ \E a \in Accounts : Switch(a) \/ Credit(a)
  \/ Reading
  \/ \E i \in DOMAIN refreshes : ReadFails(i) \/ Answered(i)
  \/ \E act \in Steps \cup {"withdraw"} : Press(act)
  \/ \E i \in DOMAIN prepares : PrepareRuns(i) \/ AwaitConfirm(i) \/ PrepareFailed(i)
  \/ Confirm \/ Published \/ ConfirmFailed \/ Close

Spec == Init /\ [][Next]_vars

\* The interval ticks (SF, for the bound on the refreshes), refreshes are
\* answered, and the node's reads do not fail for ever.
FairSpec ==
  /\ Spec
  /\ SF_vars(Tick) /\ SF_vars(Reading) /\ WF_vars(\E i \in DOMAIN refreshes : Answered(i))
  /\ SF_vars(\E i \in DOMAIN refreshes : ReadRest(i))

-----------------------------------------------------------------------------
(* Properties.                                                             *)

\* Every field keeps its type; what is credited was once credited, and what is
\* on show was some account's.
TypeOK ==
  /\ {account, shownOf} \subseteq Accounts /\ mounted \in BOOLEAN
  /\ \A a \in Accounts : chain[a] \subseteq landed[a] /\ landed[a] \subseteq Steps
  /\ shown \subseteq landed[shownOf] /\ {pendingStep, lastAction, owed} \subseteq Steps \cup {Nothing}
  /\ Len(refreshes) <= MaxRefreshes
  /\ status \in {"idle", "awaiting", "publishing", "done", "error"}
  /\ {preview, hold} \subseteq Steps \cup {Nothing, "withdraw"}

\* From the answer of its publication on, the wizard waits for the step until it
\* is credited, and offers none in the meantime: no failed or discarded poll, no
\* other account's answer and no button ends the wait.  Only the user does, or a
\* refresh that had read the chain before the publication (settleCheck).
WaitsForCredit == owed # Nothing => pendingStep = owed /\ \A s \in Steps : ~Offered(s)

\* The pending state is cleared once the chain reflects the step, for the account
\* that waits (the comment on settleCheck).
SettledForReal ==
  [][pendingStep # Nothing /\ pendingStep' = Nothing /\ UNCHANGED <<account, mounted, switches>>
       => pendingStep \in landed[account]]_vars

\* When the user's deposit or registration publishes, it is polled for (the
\* comment in SentinelLaunch.vue and PillarLaunch.vue).
PublishedIsPolled ==
  [][(status = "publishing" /\ status' = "done" /\ mounted /\ preview \in Steps)
       => pendingStep' = preview]_vars

\* The previous account's view does not linger: once the refresh that followed
\* a switch has ended, what is shown is the active account's (the comments in
\* SentinelsPanel.vue and PillarPanel.vue).
NothingLingers == (mounted /\ refreshes = <<>>) => shownOf = account

\* The wait for a step ends once the step is credited.
WaitEnds == []<>(pendingStep = Nothing \/ pendingStep \notin chain[account])
=============================================================================
