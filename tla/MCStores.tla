------------------------------ MODULE MCStores ------------------------------
(***************************************************************************)
(* The safety of the stores that drive the backend, side by side: the      *)
(* send and confirm dialog, the history, the blocks to receive, the        *)
(* registration wizards, WalletConnect's requests and its proposals.       *)
(* part says which instance runs; the variables of the others stand still. *)
(* WalletConnectProposals' own names are used directly: two proposals,     *)
(* also under one id, and two clicks.                                      *)
(***************************************************************************)
EXTENDS WalletConnectProposals, Sequences, TLC

CONSTANTS Nobody, NoAccount       \* comparable with every value

VARIABLES
  part,
  \* TxStore
  status, preview, hash, latest, calls, answered, cancels, pending, publishingHold,
  holdCounter, onChain, sessions,
  \* TxHistory
  account, rows, buffer, chunkIndex, hasMoreBlocks, page, ensures, loading, reload, failed,
  mixed,
  \* UnreceivedStore
  ledger, active, items, busy, rest, busyAll, loads, queued, switches, refusals,
  \* Registration
  member, mounted, chain, coming, landed, shown, shownOf, pendingStep, refreshes,
  lastAction, prepares, dialog, asked, slot, presses, moves, owed,
  \* WalletConnectStore
  wc, notify, hold, journal, sent, answers, dead, passed, told, restarts

-----------------------------------------------------------------------------
(* TxStore: three prepares of the Transfer page, three of the panels, or   *)
(* both with answers that overtake and a user who leaves.                  *)

Page == INSTANCE TxStore WITH
  Callers <- {"c1", "c2", "c3"}, Flows <- {"send"}, MaxHolds <- 3, MaxSessions <- 1,
  LeavesPublishing <- FALSE, PressesAgain <- FALSE, AnswersLost <- FALSE, AnswersOvertake <- FALSE

Panels == INSTANCE TxStore WITH
  Callers <- {"c1", "c2", "c3"}, Flows <- {"panel"}, MaxHolds <- 3, MaxSessions <- 0,
  LeavesPublishing <- FALSE, PressesAgain <- FALSE, AnswersLost <- FALSE, AnswersOvertake <- FALSE

Outcome == INSTANCE TxStore WITH
  Callers <- {"c1", "c2"}, Flows <- {"send", "panel"}, MaxHolds <- 3, MaxSessions <- 1,
  LeavesPublishing <- TRUE, PressesAgain <- TRUE, AnswersLost <- FALSE, AnswersOvertake <- TRUE

dialogVars ==
  <<status, preview, hash, latest, calls, answered, cancels, pending, publishingHold,
    holdCounter, onChain, sessions>>

-----------------------------------------------------------------------------
(* TxHistory: two accounts, a turn of the page and the loads, or one       *)
(* account and two turns; fetches overlap and fail in both.                *)

Pages == INSTANCE TxHistory WITH
  Accounts <- {"a1", "a2"}, Turns <- {"t1"}, Chunks <- 3, MaxChunks <- 4, MaxRows <- 1,
  MaxPage <- 2, FetchFails <- TRUE, NodeLies <- FALSE

More == INSTANCE TxHistory WITH
  Accounts <- {"a1"}, Turns <- {"t1", "t2"}, Chunks <- 3, MaxChunks <- 4, MaxRows <- 2,
  MaxPage <- 2, FetchFails <- TRUE, NodeLies <- FALSE

historyVars == <<account, rows, buffer, chunkIndex, hasMoreBlocks, page, ensures, loading, reload, failed, mixed>>

HistoryInit ==
  IF part = "pages" THEN Pages!Init
  ELSE More!Init /\ (part # "more" => rows = [a \in {"a1"} |-> [i \in 0..2 |-> 0]])

-----------------------------------------------------------------------------
(* UnreceivedStore: two accounts with a block each.                        *)

Unreceived == INSTANCE UnreceivedStore WITH
  Accounts <- {"a1", "a2"}, Blocks <- {"b1", "b2"}, Recipient <- "b1" :> "a1" @@ "b2" :> "a2",
  Refreshers <- {"shell"}, MaxSwitches <- 2, MaxRefusals <- 1

unreceivedVars == <<ledger, active, items, busy, rest, busyAll, loads, queued, switches, refusals>>

UnreceivedInit ==
  /\ Unreceived!Init
  /\ part # "unreceived" => active = "a1" /\ ledger = [b \in {"b1", "b2"} |-> "unsent"]

-----------------------------------------------------------------------------
(* Registration: two accounts, or the pillar's three steps on one; users   *)
(* switch, leave and press while a step prepares, and answers overtake.    *)

Sentinel == INSTANCE Registration WITH
  account <- member, status <- dialog, preview <- asked, hold <- slot, switches <- moves,
  Accounts <- {"a1", "a2"}, Nothing <- "nothing", Steps <- {"deposit", "register"},
  MaxPresses <- 2, MaxRefreshes <- 2, MaxSwitches <- 2, PressesAgain <- TRUE,
  SwitchesPreparing <- TRUE, PreparesFail <- TRUE, ReadsFail <- TRUE, AnswersOvertake <- TRUE

Pillar == INSTANCE Registration WITH
  account <- member, status <- dialog, preview <- asked, hold <- slot, switches <- moves,
  Accounts <- {"a1"}, Nothing <- "nothing", Steps <- {"plasma", "deposit", "register"},
  MaxPresses <- 3, MaxRefreshes <- 2, MaxSwitches <- 1, PressesAgain <- TRUE,
  SwitchesPreparing <- TRUE, PreparesFail <- TRUE, ReadsFail <- TRUE, AnswersOvertake <- TRUE

wizardVars ==
  <<member, mounted, chain, coming, landed, shown, shownOf, pendingStep, refreshes,
    lastAction, prepares, dialog, asked, slot, presses, moves, owed>>

WizardInit ==
  IF part = "sentinel" THEN Sentinel!Init ELSE Pillar!Init

-----------------------------------------------------------------------------
(* WalletConnectStore: two sessions that use one id, two requests of which *)
(* a previous run left records, an id reused for another transfer, or the  *)
(* same transfer asked by a second session.                                *)

Transfer(topic, id, effect) == [topic |-> topic, id |-> id, from |-> "z1a", effect |-> effect]
First == Transfer("t1", 1, "redeem")

Colliding == INSTANCE WalletConnectStore WITH onChain <- sent,
  Requests <- {First, Transfer("t2", 1, "wrap")}, Earlier <- {}, LookupsFail <- TRUE,
  MaxChecks <- 1, MaxRestarts <- 0

Unrelated == INSTANCE WalletConnectStore WITH onChain <- sent,
  Requests <- {First, Transfer("t1", 2, "unwrap")}, Earlier <- {First, Transfer("t1", 2, "unwrap")},
  LookupsFail <- FALSE, MaxChecks <- 1, MaxRestarts <- 1

Reusing == INSTANCE WalletConnectStore WITH onChain <- sent,
  Requests <- {First, Transfer("t1", 1, "wrap")}, Earlier <- {First}, LookupsFail <- FALSE,
  MaxChecks <- 1, MaxRestarts <- 1

Repairing == INSTANCE WalletConnectStore WITH onChain <- sent,
  Requests <- {First, Transfer("t2", 1, "redeem")}, Earlier <- {First}, LookupsFail <- FALSE,
  MaxChecks <- 1, MaxRestarts <- 0

requestVars == <<wc, notify, hold, journal, sent, answers, dead, passed, told, restarts>>

RequestInit ==
  CASE part = "unrelated" -> Unrelated!Init
    [] part = "reusing" -> Reusing!Init
    [] part = "repairing" -> Repairing!Init
    [] OTHER -> Colliding!Init

-----------------------------------------------------------------------------
ProposalInit ==
  /\ Init
  /\ part # "proposals" => scam = {} /\ idOf = [p \in {"p1", "p2"} |-> "i1"]

-----------------------------------------------------------------------------
ASSUME PartsAssumption ==
  /\ Outcome!NobodyAssumption /\ Outcome!FlowsAssumption /\ Outcome!BoundsAssumption
  /\ Outcome!FaultAssumption
  /\ Pages!ChunksAssumption /\ Pages!BoundsAssumption /\ Pages!AccountAssumption
  /\ More!FlagsAssumption
  /\ Unreceived!RecipientAssumption /\ Unreceived!BoundsAssumption
  /\ Sentinel!StepsAssumption /\ Pillar!StepsAssumption /\ Pillar!NothingAssumption
  /\ Pillar!BoundsAssumption /\ Pillar!FlagsAssumption
  /\ Unrelated!RequestsAssumption /\ Unrelated!BoundsAssumption

SideInit ==
  /\ part \in {"page", "panels", "outcome", "pages", "more", "unreceived", "sentinel", "pillar",
               "colliding", "unrelated", "reusing", "repairing", "proposals"}
  /\ IF part = "outcome" THEN Outcome!Init ELSE Page!Init
  /\ HistoryInit /\ UnreceivedInit /\ WizardInit /\ RequestInit /\ ProposalInit

SideNext ==
  /\ UNCHANGED part
  /\ \/ /\ \/ part = "page" /\ Page!Next
           \/ part = "panels" /\ Panels!Next
           \/ part = "outcome" /\ Outcome!Next
        /\ UNCHANGED <<historyVars, unreceivedVars, wizardVars, requestVars, vars>>
     \/ /\ \/ part = "pages" /\ Pages!Next
           \/ part = "more" /\ More!Next
        /\ UNCHANGED <<dialogVars, unreceivedVars, wizardVars, requestVars, vars>>
     \/ /\ part = "unreceived" /\ Unreceived!Next
        /\ UNCHANGED <<dialogVars, historyVars, wizardVars, requestVars, vars>>
     \/ /\ \/ part = "sentinel" /\ Sentinel!Next
           \/ part = "pillar" /\ Pillar!Next
        /\ UNCHANGED <<dialogVars, historyVars, unreceivedVars, requestVars, vars>>
     \/ /\ \/ part = "colliding" /\ Colliding!Next
           \/ part = "unrelated" /\ Unrelated!Next
           \/ part = "reusing" /\ Reusing!Next
           \/ part = "repairing" /\ Repairing!Next
        /\ UNCHANGED <<dialogVars, historyVars, unreceivedVars, wizardVars, vars>>
     \/ /\ part = "proposals" /\ Next
        /\ UNCHANGED <<dialogVars, historyVars, unreceivedVars, wizardVars, requestVars>>

sideVars == <<part, dialogVars, historyVars, unreceivedVars, wizardVars, requestVars, vars>>

SideSpec == SideInit /\ [][SideNext]_sideVars

-----------------------------------------------------------------------------
(* The components' properties, each where its instance promises it;        *)
(* ProposalsReviewed is WalletConnectProposals' own.                       *)

\* Every component keeps its types.
TypesOK ==
  /\ part \in {"page", "panels"} => Page!TypeOK
  /\ part = "outcome" => Outcome!TypeOK
  /\ part = "pages" => Pages!TypeOK
  /\ part = "more" => More!TypeOK
  /\ part = "unreceived" => Unreceived!TypeOK
  /\ part = "sentinel" => Sentinel!TypeOK
  /\ part = "pillar" => Pillar!TypeOK
  /\ part = "unrelated" => Unrelated!TypeOK
  /\ part = "reusing" => Reusing!TypeOK
  /\ part = "repairing" => Repairing!TypeOK
  /\ part = "colliding" => Colliding!TypeOK
  /\ part = "proposals" => TypeOK

\* For a user who waits for a press and a publication to end, no hold is left in
\* the slot once every call and dialog has ended, and a dialog that asks for a
\* confirmation shows the slot's block; for any user, an outcome that has to be
\* known is not hidden.
HoldsAreShown ==
  /\ [](part # "outcome" => Page!NoStrandedHold /\ Page!DialogIsSlot)
  /\ [][part = "outcome" => Outcome!PublishedSurfacesStep]_sideVars

\* The lists are the active account's.  Until fetches of one account overlap, and
\* again from the next load that lands alone, the history is its first chunks in
\* order, and it asks on until the end, the cap or a failed fetch; the blocks to
\* receive are the account's own once every load is answered.
ListsAreOwn ==
  /\ part = "pages" => Pages!OrderRestored /\ Pages!MoreRestored
  /\ part = "more" => More!OrderRestored /\ More!MoreRestored
  /\ Unreceived!RowsAreOwn

\* A wizard waits for the step it published until the step is credited, and
\* offers none in the meantime, unless the user stops the wait, leaves or switches,
\* or an answer read before the publication shows the step.
StepsOnce ==
  /\ part = "sentinel" => Sentinel!WaitsForCredit
  /\ part = "pillar" => Pillar!WaitsForCredit

\* A request is ended only by its own session or deadline, a request whose end
\* the store was told is never up for approval, and every block held for one is
\* accounted for by its dialog or its handler.
EndsRespected ==
  /\ part = "colliding" => Colliding!EndedNeverApprovable /\ Colliding!OnlyOwnEnd
  /\ part = "repairing" => Repairing!NoStrandedHold

\* A request whose block is on chain keeps its record until it is answered, and
\* is answered never with an error and, where its outcome is checked once at a
\* time, only once.
PublishedAnswered ==
  /\ part = "unrelated" =>
       Unrelated!PublishedNeverRejected /\ Unrelated!OneAnswer /\ Unrelated!PublishedKeepsRecord
  /\ part = "reusing" => Reusing!PublishedNeverRejected /\ Reusing!PublishedKeepsRecord
=============================================================================
