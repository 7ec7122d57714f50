-------------------------- MODULE UnreceivedStore --------------------------
(***************************************************************************)
(* The blocks waiting to be received (frontend/src/stores/unreceived.ts):  *)
(* the list that every refresh replaces, a receive of one row, and the     *)
(* receive of all rows, which runs over the list it captured and stops at  *)
(* its first failure without the refresh that a success ends with.         *)
(*                                                                         *)
(* A call of Receive is one step: the node takes a block that is pending   *)
(* and addressed to the account active by then, and refuses any other.     *)
(***************************************************************************)
EXTENDS Naturals

CONSTANTS
  Accounts, Blocks,
  Recipient,               \* the account a block is addressed to
  Refreshers,              \* callers of load besides the receives
  MaxSwitches, MaxRefusals \* bounds: account switches, blocks refused for another reason

RecipientAssumption == Recipient \in [Blocks -> Accounts]
BoundsAssumption == MaxSwitches \in Nat /\ MaxRefusals \in Nat

VARIABLES
  ledger,          \* each block: to be sent, pending, or received
  active,          \* the backend's account
  items,           \* the rows shown
  busy,            \* the rows being received, with their final load
  rest, busyAll,   \* receiveAll: what it captured and has not received, its flag
  loads,           \* the loads in flight, by caller
  queued,          \* the shell's refresh runs again when it ends
  switches, refusals

node == <<ledger, active>>
calls == <<busy, rest, busyAll>>
bounds == <<switches, refusals>>
vars == <<node, items, calls, loads, queued, bounds>>

Callers == Refreshers \cup Blocks \cup {"all"}
NoLoad == [phase |-> "idle", current |-> FALSE, of |-> {}]

Init ==
  /\ ledger \in [Blocks -> {"unsent", "pending"}] /\ active \in Accounts
  /\ items = {} /\ busy = {} /\ rest = {} /\ busyAll = FALSE
  /\ loads = [c \in Callers |-> NoLoad] /\ queued = FALSE
  /\ switches = 0 /\ refusals = 0

-----------------------------------------------------------------------------
(* load: the epoch is captured with the call, and compared with the answer. *)

Begin(c) == [loads EXCEPT ![c] = [phase |-> "asked", current |-> TRUE, of |-> {}]]

\* The shell's refresh on a momentum, the panel's when it opens.
Refresh(c) ==
  /\ c \in Refreshers /\ loads[c] = NoLoad
  /\ loads' = Begin(c)
  /\ UNCHANGED <<node, items, calls, queued, bounds>>

\* What the node lists for the account active by then.
GetUnreceived(c) ==
  /\ loads[c].phase = "asked"
  /\ loads' = [loads EXCEPT ![c].phase = "read",
                            ![c].of = {b \in Blocks : Recipient[b] = active /\ ledger[b] = "pending"}]
  /\ UNCHANGED <<node, items, calls, queued, bounds>>

\* The call that waited for the load ends with it; the shell may run again.
End(c) ==
  /\ loads' = IF c = "shell" /\ queued THEN Begin(c) ELSE [loads EXCEPT ![c] = NoLoad]
  /\ queued' = (queued /\ c # "shell")
  /\ busy' = busy \ {c}
  /\ busyAll' = (busyAll /\ c # "all")
  /\ UNCHANGED <<node, rest, bounds>>

\* Mutant: whatever is answered is shown.
AnsweredAny(c) ==
  /\ loads[c].phase = "read"
  /\ items' = loads[c].of
  /\ End(c)

Answered(c) ==
  /\ loads[c].phase = "read"
  /\ items' = IF loads[c].current THEN loads[c].of ELSE items
  /\ End(c)

\* Mutant: a failed load keeps the rows.
LoadFailedKeeps(c) ==
  /\ loads[c] # NoLoad
  /\ items' = items
  /\ End(c)

LoadFailed(c) ==
  /\ loads[c] # NoLoad
  /\ items' = IF loads[c].current THEN {} ELSE items
  /\ End(c)

-----------------------------------------------------------------------------
(* receive and receiveAll.                                                 *)

\* The node takes block b now.
Takes(b) == ledger[b] = "pending" /\ Recipient[b] = active
Received(b) == ledger' = [ledger EXCEPT ![b] = "received"]

\* The node refuses block b, which may cost one of the refusals that pass.
Refused(b) ==
  /\ refusals' = IF Takes(b) THEN refusals + 1 ELSE refusals
  /\ refusals' <= MaxRefusals
  /\ UNCHANGED ledger

\* A row's button is off while that row is busy, and while all are received.
Receive(b) ==
  /\ b \in items \ busy /\ ~busyAll
  /\ busy' = busy \cup {b}
  /\ UNCHANGED <<node, items, rest, busyAll, loads, queued, bounds>>

ReceiveEnds(b) ==
  /\ b \in busy /\ loads[b] = NoLoad
  /\ \/ /\ Takes(b) /\ Received(b)
        /\ loads' = Begin(b)
        /\ UNCHANGED <<busy, refusals>>
     \/ /\ Refused(b)
        /\ busy' = busy \ {b}
        /\ UNCHANGED loads
  /\ UNCHANGED <<active, items, rest, busyAll, queued, switches>>

ReceiveAll ==
  /\ items # {} /\ ~busyAll
  /\ busyAll' = TRUE /\ rest' = items
  /\ UNCHANGED <<node, items, busy, loads, queued, bounds>>

AllTakes(b) ==
  /\ b \in rest /\ Takes(b) /\ Received(b)
  /\ rest' = rest \ {b}
  /\ loads' = IF rest' = {} THEN Begin("all") ELSE loads
  /\ UNCHANGED <<active, items, busy, busyAll, queued, bounds>>

\* Mutant: the flag is cleared after a success only.
AllRefusedBusy(b) ==
  /\ b \in rest /\ Refused(b)
  /\ rest' = {} /\ busyAll' = busyAll
  /\ UNCHANGED <<active, items, busy, loads, queued, switches>>

\* The first refusal ends the run, without its load.
AllRefused(b) ==
  /\ b \in rest /\ Refused(b)
  /\ rest' = {} /\ busyAll' = FALSE
  /\ UNCHANGED <<active, items, busy, loads, queued, switches>>

-----------------------------------------------------------------------------
(* The account and the chain.                                              *)

\* The epoch moves, and the shell refreshes now or once more.
Switch(a) ==
  /\ a # active /\ switches < MaxSwitches
  /\ active' = a /\ switches' = switches + 1
  /\ LET stale == [c \in Callers |-> [loads[c] EXCEPT !.current = FALSE]]
     IN IF loads["shell"] = NoLoad
        THEN loads' = [stale EXCEPT !["shell"] = Begin("shell")["shell"]] /\ UNCHANGED queued
        ELSE loads' = stale /\ queued' = TRUE
  /\ UNCHANGED <<ledger, items, calls, refusals>>

Sent(b) ==
  /\ ledger[b] = "unsent"
  /\ ledger' = [ledger EXCEPT ![b] = "pending"]
  /\ UNCHANGED <<active, items, calls, loads, queued, bounds>>

LoadStep == \E c \in Callers : GetUnreceived(c) \/ Answered(c) \/ LoadFailed(c)
ReceiveStep == \E b \in Blocks : ReceiveEnds(b) \/ AllTakes(b) \/ AllRefused(b)

Next ==
  \/ LoadStep
  \/ ReceiveStep
  \/ \E c \in Refreshers : Refresh(c)
  \/ \E b \in Blocks : Receive(b) \/ Sent(b)
  \/ ReceiveAll
  \/ \E a \in Accounts : Switch(a)

Spec == Init /\ [][Next]_vars

\* Calls are answered, momentums come, and loads do not fail for ever.
Refreshing ==
  /\ WF_vars(Refresh("shell"))
  /\ \A c \in Callers : WF_vars(GetUnreceived(c)) /\ WF_vars(Answered(c) \/ LoadFailed(c))
LoadsSucceed == SF_vars(GetUnreceived("shell")) /\ SF_vars(Answered("shell"))
\* The user keeps asking for all rows.
Receiving == WF_vars(ReceiveStep) /\ SF_vars(ReceiveAll)

RefreshSpec == Spec /\ Refreshing
FairSpec == Spec /\ Refreshing /\ LoadsSucceed /\ Receiving

-----------------------------------------------------------------------------
(* Properties.                                                             *)

\* Every part of the state has its type.
TypeOK ==
  /\ ledger \in [Blocks -> {"unsent", "pending", "received"}] /\ active \in Accounts
  /\ items \subseteq Blocks /\ busy \subseteq Blocks /\ rest \subseteq Blocks
  /\ loads \in [Callers -> [phase : {"idle", "asked", "read"}, current : BOOLEAN, of : SUBSET Blocks]]
  /\ {busyAll, queued} \subseteq BOOLEAN
  /\ switches \in 0..MaxSwitches /\ refusals \in 0..MaxRefusals

\* Once the loads have ended, in whatever order, the rows shown are the active
\* account's: a load that began before a switch never replaces a later one.
RowsAreOwn ==
  (\A c \in Callers : loads[c] = NoLoad) => \A b \in items : Recipient[b] = active

\* A row that was received leaves for good, also after a receiveAll that failed
\* on a later row, a load that failed, or an old answer that brought it back.
ReceivedLeaves == \A b \in Blocks : <>[](ledger[b] = "received" => b \notin items)

\* A user who keeps asking for all rows gets every block of the account,
\* whatever a refusal, a row received meanwhile or a switch interrupts.
AllReceived == \A b \in Blocks : []<>~Takes(b)
=============================================================================
