--------------------------- MODULE MCLiveFrontend ---------------------------
(***************************************************************************)
(* What the stores owe their user, side by side: dialogs that settle, the  *)
(* data of the account shown, fetches that end, blocks to receive, waits   *)
(* of the wizards, WalletConnect handlers.  part says which instance runs; *)
(* fairness is that of the component's FairSpec, for that instance.        *)
(***************************************************************************)
EXTENDS Naturals, Sequences, FiniteSets, TLC

CONSTANTS Nobody, NoAccount, Nothing          \* comparable with every value

VARIABLES
  part,
  \* TxStore
  status, preview, hash, latest, calls, answered, cancels, pending, publishingHold,
  holdCounter, onChain, sessions,
  \* AccountStore
  wallet, index, unlocks, locked, activeIndex, selecting, reselect, shell, storeCalls,
  replies, dataLoads, trailing, screen, selects, wanted,
  \* TxHistory
  account, rows, buffer, chunkIndex, hasMoreBlocks, page, ensures, loading, reload, failed, mixed,
  \* UnreceivedStore
  ledger, active, items, busy, rest, busyAll, loads, queued, switches, refusals,
  \* Registration
  member, mounted, chain, coming, landed, shown, shownOf, pendingStep, refreshes,
  lastAction, prepares, dialog, asked, slot, presses, moves, owed,
  \* WalletConnectStore
  wc, notify, hold, journal, sent, answers, dead, passed, told, restarts

-----------------------------------------------------------------------------
(* TxStore: answers that are lost or overtake, a user who leaves.          *)

Dialog == INSTANCE TxStore WITH
  Callers <- {"c1", "c2"}, Flows <- {"send", "panel"}, MaxHolds <- 2, MaxSessions <- 1,
  LeavesPublishing <- TRUE, PressesAgain <- TRUE, AnswersLost <- TRUE, AnswersOvertake <- TRUE

dialogVars ==
  <<status, preview, hash, latest, calls, answered, cancels, pending, publishingHold,
    holdCounter, onChain, sessions>>

DialogFairness ==
  /\ \A c \in {"c1", "c2"} : /\ WF_dialogVars(part = "dialog" /\ Dialog!Runs(c))
                             /\ WF_dialogVars(part = "dialog" /\ Dialog!Answers(c))
  /\ \A h \in 1..2 : WF_dialogVars(part = "dialog" /\ Dialog!CancelPending(h))

-----------------------------------------------------------------------------
(* AccountStore: two selections, also of the account shown, that may fail, *)
(* and a session.                                                          *)

Picker == INSTANCE AccountStore WITH calls <- storeCalls, shown <- screen, loads <- dataLoads,
  queued <- reselect, Indexes <- {0, 1}, MaxSelects <- 2, MaxSessions <- 1, PicksActive <- TRUE,
  SelectFails <- TRUE, LoadFails <- FALSE, AnswersOvertake <- TRUE

accountVars ==
  <<wallet, index, unlocks, locked, activeIndex, selecting, reselect, shell, storeCalls,
    replies, dataLoads, trailing, screen, selects, wanted>>

AccountFairness ==
  /\ WF_accountVars(part = "accounts" /\ Picker!Backend)
  /\ WF_accountVars(part = "accounts" /\ Picker!Store)
  /\ \A l \in 0..1 : /\ WF_accountVars(part = "accounts" /\ Picker!LoadRuns(l))
                     /\ WF_accountVars(part = "accounts" /\ Picker!Loaded(l))

-----------------------------------------------------------------------------
(* TxHistory: a node that claims more for ever.                            *)

History == INSTANCE TxHistory WITH
  Accounts <- {"a1"}, Turns <- {"t1"}, Chunks <- 3, MaxChunks <- 4, MaxRows <- 2,
  MaxPage <- 2, FetchFails <- FALSE, NodeLies <- TRUE

historyVars == <<account, rows, buffer, chunkIndex, hasMoreBlocks, page, ensures, loading, reload, failed,
    mixed>>

HistoryInit ==
  /\ History!Init
  /\ part # "history" => rows = [a \in {"a1"} |-> [i \in 0..2 |-> 0]]

HistoryFairness ==
  LET fetch == History!Fetched("t1") \/ History!FetchedStale("t1") \/ History!FetchFailed("t1")
  IN  /\ WF_historyVars(part = "history" /\ History!StartLoad)
      /\ WF_historyVars(part = "history" /\ (History!LoadFetched \/ History!LoadFailed))
      /\ WF_historyVars(part = "history" /\ fetch)

-----------------------------------------------------------------------------
(* UnreceivedStore: refreshes that may fail for ever; or a refused block,   *)
(* an account switch, and a user who keeps asking for all rows.            *)

Leaving == INSTANCE UnreceivedStore WITH
  Accounts <- {"a1"}, Blocks <- {"b1", "b2"}, Recipient <- "b1" :> "a1" @@ "b2" :> "a1",
  Refreshers <- {"shell"}, MaxSwitches <- 0, MaxRefusals <- 1

Rows == INSTANCE UnreceivedStore WITH
  Accounts <- {"a1", "a2"}, Blocks <- {"b1", "b2"}, Recipient <- "b1" :> "a1" @@ "b2" :> "a1",
  Refreshers <- {"shell"}, MaxSwitches <- 1, MaxRefusals <- 1

unreceivedVars == <<ledger, active, items, busy, rest, busyAll, loads, queued, switches, refusals>>

UnreceivedInit ==
  IF part = "unreceived" THEN Rows!Init
  ELSE Leaving!Init /\ (part # "leaving" => ledger = [b \in {"b1", "b2"} |-> "unsent"])

UnreceivedFairness ==
  LET both == part \in {"leaving", "unreceived"}
  IN  /\ WF_unreceivedVars(both /\ Rows!Refresh("shell"))
      /\ \A c \in {"shell", "b1", "b2", "all"} :
           /\ WF_unreceivedVars(both /\ Rows!GetUnreceived(c))
           /\ WF_unreceivedVars(both /\ (Rows!Answered(c) \/ Rows!LoadFailed(c)))
      /\ WF_unreceivedVars(part = "unreceived" /\ Rows!ReceiveStep)

-----------------------------------------------------------------------------
(* Registration: buttons pressed and accounts switched while one prepares, *)
(* reads that fail.                                                        *)

Wizard == INSTANCE Registration WITH
  account <- member, status <- dialog, preview <- asked, hold <- slot, switches <- moves,
  Accounts <- {"a1", "a2"}, Steps <- {"deposit", "register"},
  MaxPresses <- 2, MaxRefreshes <- 1, MaxSwitches <- 1, PressesAgain <- TRUE,
  SwitchesPreparing <- TRUE, PreparesFail <- TRUE, ReadsFail <- TRUE, AnswersOvertake <- TRUE

wizardVars ==
  <<member, mounted, chain, coming, landed, shown, shownOf, pendingStep, refreshes,
    lastAction, prepares, dialog, asked, slot, presses, moves, owed>>

WizardInit == Wizard!Init /\ (part # "wizard" => member = "a1")

WizardFairness ==
  LET end == \E i \in DOMAIN refreshes : Wizard!Answered(i)
  IN  WF_wizardVars(part = "wizard" /\ end)

\* The strong fairness of both components: one conjunct stands for one of each,
\* since only one of the two can ever run.
Strong1 ==
  \/ part = "wizard" /\ Wizard!Tick /\ UNCHANGED unreceivedVars
  \/ part = "unreceived" /\ Rows!GetUnreceived("shell") /\ UNCHANGED wizardVars
Strong2 ==
  \/ part = "wizard" /\ Wizard!Reading /\ UNCHANGED unreceivedVars
  \/ part = "unreceived" /\ Rows!Answered("shell") /\ UNCHANGED wizardVars
Strong3 ==
  \/ part = "wizard" /\ (\E i \in DOMAIN refreshes : Wizard!ReadRest(i)) /\ UNCHANGED unreceivedVars
  \/ part = "unreceived" /\ Rows!ReceiveAll /\ UNCHANGED wizardVars

strongVars == <<wizardVars, unreceivedVars>>
StrongFairness == SF_strongVars(Strong1) /\ SF_strongVars(Strong2) /\ SF_strongVars(Strong3)

-----------------------------------------------------------------------------
(* WalletConnectStore: two requests a previous run may have journaled, a   *)
(* journal that may be unreadable.                                         *)

Send(topic, id, effect) == [topic |-> topic, id |-> id, from |-> "z1a", effect |-> effect]
Both == {Send("t1", 1, "redeem"), Send("t1", 2, "unwrap")}

Dapp == INSTANCE WalletConnectStore WITH onChain <- sent,
  Requests <- Both, Earlier <- Both, LookupsFail <- TRUE, MaxChecks <- 1, MaxRestarts <- 0

requestVars == <<wc, notify, hold, journal, sent, answers, dead, passed, told, restarts>>

RequestInit == Dapp!Init /\ (part # "requests" => journal = <<>> /\ sent = {})

RequestFairness ==
  \A r \in Both : /\ WF_requestVars(part = "requests" /\ Dapp!Handler(r))
                  /\ WF_requestVars(part = "requests" /\ Dapp!Notification(r))
                  /\ WF_requestVars(part = "requests" /\ Dapp!DeadlinePasses(r))

-----------------------------------------------------------------------------
Init ==
  /\ part \in {"dialog", "accounts", "history", "leaving", "unreceived", "wizard", "requests"}
  /\ Dialog!Init /\ Picker!Init /\ HistoryInit /\ UnreceivedInit /\ WizardInit /\ RequestInit

Next ==
  /\ UNCHANGED part
  /\ \/ /\ part = "dialog" /\ Dialog!Next
        /\ UNCHANGED <<accountVars, historyVars, unreceivedVars, wizardVars, requestVars>>
     \/ /\ part = "accounts" /\ Picker!Next
        /\ UNCHANGED <<dialogVars, historyVars, unreceivedVars, wizardVars, requestVars>>
     \/ /\ part = "history" /\ History!Next
        /\ UNCHANGED <<dialogVars, accountVars, unreceivedVars, wizardVars, requestVars>>
     \/ /\ \/ part = "leaving" /\ Leaving!Next
           \/ part = "unreceived" /\ Rows!Next
        /\ UNCHANGED <<dialogVars, accountVars, historyVars, wizardVars, requestVars>>
     \/ /\ part = "wizard" /\ Wizard!Next
        /\ UNCHANGED <<dialogVars, accountVars, historyVars, unreceivedVars, requestVars>>
     \/ /\ part = "requests" /\ Dapp!Next
        /\ UNCHANGED <<dialogVars, accountVars, historyVars, unreceivedVars, wizardVars>>

vars == <<part, dialogVars, accountVars, historyVars, unreceivedVars, wizardVars, requestVars>>

Spec ==
  /\ Init /\ [][Next]_vars
  /\ DialogFairness /\ AccountFairness /\ HistoryFairness /\ UnreceivedFairness
  /\ WizardFairness /\ StrongFairness /\ RequestFairness

-----------------------------------------------------------------------------
\* What the user waits for ends: a dialog that prepares or publishes, the wait
\* for a registration step, and a request's handler although the journal may
\* stay unreadable.
DialogsEnd == Dialog!Settles /\ Wizard!WaitEnds /\ Dapp!HandlersEnd

\* The data of the account that is shown lands, unless the user selected it again
\* since the shell asked for them, and a page that was turned to ends, even when
\* the node claims more for ever.
DataLands == Picker!SwitchLands /\ History!FetchesEnd

\* A received row leaves the list for good, and a user who keeps asking for all
\* rows gets every block of the account.
AllReceived ==
  /\ Leaving!ReceivedLeaves
  /\ \A b \in {"b1", "b2"} : []<>(part = "unreceived" => ~Rows!Takes(b))

ASSUME PartsAssumption ==
  /\ Dialog!FaultAssumption /\ Picker!FlagsAssumption /\ Picker!BoundsAssumption
  /\ History!FlagsAssumption /\ Rows!RecipientAssumption /\ Wizard!FlagsAssumption
  /\ Dapp!RequestsAssumption /\ Dapp!BoundsAssumption
=============================================================================
