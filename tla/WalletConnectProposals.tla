----------------------- MODULE WalletConnectProposals ------------------------
(***************************************************************************)
(* Connection proposals (frontend/src/stores/walletconnect.ts): the one    *)
(* proposal on show, approved or rejected by the user while others arrive, *)
(* expire or replace it.  Ids are chosen by the peers and may be reused.   *)
(*                                                                         *)
(* The client keeps one record per id, and an approval goes to the record  *)
(* it has under that id.  granted is a record of the model only.           *)
(***************************************************************************)
EXTENDS FiniteSets, Naturals

CONSTANTS
  Proposals, NoProposal,   \* proposals, as objects
  Ids,
  Clicks,                  \* the user's clicks on approve or reject
  RelayFails               \* whether the relay may refuse an approval

ASSUME ProposalsAssumption ==
  /\ NoProposal \notin Proposals
  /\ RelayFails \in BOOLEAN

VARIABLES
  idOf, scam,      \* each proposal's id, and whether it is flagged
  arrived, records,  \* proposals that have come, the client's record of each id
  proposal,        \* the one on show
  expired, expiries, \* proposals past their expiry, expiry events under way
  clicks,          \* each click: its kind and step, and the proposal captured
  granted          \* <<proposal reviewed, proposal granted>> of each session

client == <<idOf, scam, arrived, records, expired, expiries>>
vars == <<client, proposal, clicks, granted>>

Unclicked == [pc |-> "none", reviewed |-> NoProposal]

Init ==
  /\ idOf \in [Proposals -> Ids] /\ scam \in SUBSET Proposals
  /\ arrived = {} /\ records = [i \in Ids |-> NoProposal]
  /\ proposal = NoProposal /\ expired = {} /\ expiries = {}
  /\ clicks = [c \in Clicks |-> Unclicked] /\ granted = {}

-----------------------------------------------------------------------------
(* Proposals.                                                              *)

\* A new proposal takes its id's record, and the place of the one on show.
handleProposal(p) ==
  /\ p \notin arrived /\ arrived' = arrived \cup {p}
  /\ records' = [records EXCEPT ![idOf[p]] = p]
  /\ proposal' = p
  /\ UNCHANGED <<idOf, scam, expired, expiries, clicks, granted>>

\* The client deletes an expired record and says so later.
Expire(p) ==
  /\ p # NoProposal /\ records[idOf[p]] = p
  /\ records' = [records EXCEPT ![idOf[p]] = NoProposal]
  /\ expired' = expired \cup {p} /\ expiries' = expiries \cup {p}
  /\ UNCHANGED <<idOf, scam, arrived, proposal, clicks, granted>>

\* The one on show goes when it has the id that expired.
handleProposalExpired(p) ==
  /\ p \in expiries /\ expiries' = expiries \ {p}
  /\ proposal' = IF proposal # NoProposal /\ idOf[proposal] = idOf[p] THEN NoProposal ELSE proposal
  /\ UNCHANGED <<idOf, scam, arrived, records, expired, clicks, granted>>

-----------------------------------------------------------------------------
(* approveProposal and rejectProposal.                                     *)

Step(c, pc) == clicks' = [clicks EXCEPT ![c].pc = pc]
ClearExact(p) == proposal' = IF proposal = p THEN NoProposal ELSE proposal

\* The proposal is captured before the client is awaited; a flagged one stays.
Approve(c) ==
  /\ clicks[c] = Unclicked /\ proposal # NoProposal /\ proposal \notin scam \cup expired
  /\ clicks' = [clicks EXCEPT ![c] = [pc |-> "approving", reviewed |-> proposal]]
  /\ UNCHANGED <<client, proposal, granted>>

\* An expired one is dropped at the click.
ApproveExpired(c) ==
  /\ clicks[c] = Unclicked /\ proposal # NoProposal /\ proposal \in expired
  /\ proposal' = NoProposal /\ Step(c, "ended")
  /\ UNCHANGED <<client, granted>>

\* Mutant: the one on show is compared by its id.
SameProposalById(p) == proposal # NoProposal /\ idOf[proposal] = idOf[p]

SameProposal(p) == proposal = p

\* Another one was swapped in during the await: nothing is approved.
Abandon(c) ==
  /\ clicks[c].pc = "approving" /\ ~SameProposal(clicks[c].reviewed)
  /\ Step(c, "ended")
  /\ UNCHANGED <<client, proposal, granted>>

\* The approval goes to the record of the id.
Send(c) ==
  LET p == clicks[c].reviewed IN
    /\ clicks[c].pc = "approving" /\ SameProposal(p)
    /\ IF records[idOf[p]] # NoProposal
       THEN /\ Step(c, "acknowledging")
            /\ granted' = granted \cup {<<p, records[idOf[p]]>>}
            /\ records' = [records EXCEPT ![idOf[p]] = NoProposal]
       ELSE Step(c, "ended") /\ UNCHANGED <<granted, records>>
    /\ UNCHANGED <<idOf, scam, arrived, expired, expiries, proposal>>

\* Mutant: the acknowledgement clears whatever is on show.
AcknowledgedAny(c) ==
  /\ clicks[c].pc = "acknowledging"
  /\ Step(c, "ended") /\ proposal' = NoProposal
  /\ UNCHANGED <<client, granted>>

Acknowledged(c) ==
  /\ clicks[c].pc = "acknowledging"
  /\ Step(c, "ended") /\ ClearExact(clicks[c].reviewed)
  /\ UNCHANGED <<client, granted>>

\* A refused approval leaves the proposal on show.
Refused(c) ==
  /\ RelayFails /\ clicks[c].pc \in {"approving", "acknowledging"}
  /\ Step(c, "ended")
  /\ UNCHANGED <<client, proposal, granted>>

Reject(c) ==
  /\ clicks[c] = Unclicked /\ proposal # NoProposal
  /\ clicks' = [clicks EXCEPT ![c] = [pc |-> "rejecting", reviewed |-> proposal]]
  /\ UNCHANGED <<client, proposal, granted>>

\* The record of the id goes, whichever proposal it is by now.
SendReject(c) ==
  LET p == clicks[c].reviewed IN
    /\ clicks[c].pc = "rejecting"
    /\ Step(c, "ended") /\ ClearExact(p)
    /\ records' = [records EXCEPT ![idOf[p]] = NoProposal]
    /\ UNCHANGED <<idOf, scam, arrived, expired, expiries, granted>>

Next ==
  \/ \E p \in Proposals : handleProposal(p) \/ Expire(p) \/ handleProposalExpired(p)
  \/ \E c \in Clicks :
       \/ Approve(c) \/ ApproveExpired(c) \/ Abandon(c) \/ Send(c)
       \/ Acknowledged(c) \/ Refused(c) \/ Reject(c) \/ SendReject(c)

Spec == Init /\ [][Next]_vars

-----------------------------------------------------------------------------
(* Properties.                                                             *)

\* Every field keeps its type, and the client's record under an id is a
\* proposal that came under it.
TypeOK ==
  /\ idOf \in [Proposals -> Ids] /\ scam \subseteq Proposals
  /\ arrived \subseteq Proposals /\ expired \subseteq arrived /\ expiries \subseteq expired
  /\ proposal \in arrived \cup {NoProposal} /\ granted \subseteq arrived \X arrived
  /\ \A i \in Ids : records[i] # NoProposal => records[i] \in arrived /\ idOf[records[i]] = i
  /\ \A c \in Clicks : clicks[c].reviewed \in arrived \cup {NoProposal}

\* A session is granted only to the very proposal the user reviewed, and never
\* to a flagged one, though a replacement may carry the same id
\* (approveProposal: compared by object identity, not id).
GrantedWasReviewed == \A g \in granted : g[1] = g[2] /\ g[2] \notin scam

\* A proposal that is taken off the show was clicked on, or one of its id expired.
NewerStaysStep ==
  proposal # NoProposal /\ proposal' = NoProposal =>
    \/ \E c \in Clicks : clicks'[c] # clicks[c] /\ clicks[c].reviewed \in {proposal, NoProposal}
    \/ \E p \in expiries \ expiries' : idOf[p] = idOf[proposal]

\* The session goes to the proposal that was reviewed, and a proposal leaves the
\* show only for another one, by its own click, or expired: never by the answer
\* to an older one (approveProposal: never a newer one that arrived while the
\* relay round-trips were in flight).
ProposalsReviewed == [](GrantedWasReviewed) /\ [][NewerStaysStep]_vars

\* A delayed expiry cannot wipe a newer proposal (the comment in
\* handleProposalExpired).
ExpiryOfItsOwn ==
  [][proposal # NoProposal /\ proposal' = NoProposal /\ expiries' # expiries
       => proposal \in expiries]_vars
=============================================================================
