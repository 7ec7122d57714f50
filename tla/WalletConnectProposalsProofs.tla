--------------------- MODULE WalletConnectProposalsProofs ---------------------
(***************************************************************************)
(* Proofs about WalletConnectProposals, for any proposals, any ids the     *)
(* peers choose for them and any clicks.                                   *)
(*                                                                         *)
(* An approval is sent to the client's record of an id, not to a proposal. *)
(* It goes to the right one because the proposal on show is the latest of  *)
(* its id: the client's record under that id is it, or is gone (Latest).   *)
(***************************************************************************)
EXTENDS WalletConnectProposals, TLAPS

Shown == Proposals \cup {NoProposal}

Fields ==
  /\ idOf \in [Proposals -> Ids] /\ records \in [Ids -> Shown]
  /\ clicks \in [Clicks -> [pc : {"none", "approving", "acknowledging", "rejecting", "ended"},
                            reviewed : Shown]]

\* A click has a proposal from the moment it is captured; one that is being
\* approved is not flagged.
Captured ==
  \A c \in Clicks :
    /\ clicks[c].pc \in {"approving", "acknowledging", "rejecting"} =>
         clicks[c].reviewed # NoProposal
    /\ clicks[c].pc = "approving" => clicks[c].reviewed \notin scam

\* The record under the id of the proposal on show is that proposal, or gone.
Latest == proposal # NoProposal => records[idOf[proposal]] \in {proposal, NoProposal}

Inv == TypeOK /\ Fields /\ Captured /\ Latest /\ GrantedWasReviewed

-----------------------------------------------------------------------------
\* Nothing has arrived, so nothing is shown or granted.
LEMMA InvInit == ASSUME Init PROVE Inv
BY ProposalsAssumption DEF Init, Inv, TypeOK, Fields, Captured, Latest, GrantedWasReviewed, Shown,
   Unclicked

\* A proposal that arrives becomes the record of its id and the one on show.
LEMMA ArriveKeeps ==
  ASSUME Inv, NEW p \in Proposals, handleProposal(p)
  PROVE  Inv'
<1> USE ProposalsAssumption DEF Inv, handleProposal
<1>1. TypeOK'
  BY DEF TypeOK, Fields
<1>2. Fields' /\ Captured' /\ GrantedWasReviewed'
  BY DEF Fields, Captured, GrantedWasReviewed, Shown
<1>3. Latest'
  BY DEF Latest, Fields
<1> QED
  BY <1>1, <1>2, <1>3

\* An expiry takes the record first and the show later.
LEMMA ExpiryKeeps ==
  ASSUME Inv, NEW p \in Proposals, Expire(p) \/ handleProposalExpired(p)
  PROVE  Inv'
<1> USE ProposalsAssumption DEF Inv, Expire, handleProposalExpired
<1>1. TypeOK'
  BY DEF TypeOK, Fields
<1>2. Fields' /\ Captured' /\ GrantedWasReviewed'
  BY DEF Fields, Captured, GrantedWasReviewed, Shown
<1>3. Latest'
  BY DEF Latest, Fields, TypeOK
<1> QED
  BY <1>1, <1>2, <1>3

\* The approval of the one on show goes to its own record, if that is left.
LEMMA SendKeeps ==
  ASSUME Inv, NEW c \in Clicks, Send(c)
  PROVE  Inv'
<1> USE ProposalsAssumption DEF Inv, Send, Step
<1> DEFINE p == clicks[c].reviewed
<1>1. p = proposal /\ p \in Proposals /\ p \notin scam
  BY DEF SameProposal, Captured, Fields, Shown
<1>2. records[idOf[p]] \in {p, NoProposal}
  BY <1>1 DEF Latest
<1>3. granted' \subseteq granted \cup {<<p, p>>} /\ p \in arrived
  BY <1>1, <1>2 DEF TypeOK
<1>4. Fields' /\ Captured'
  BY <1>1 DEF Fields, Captured, Shown
<1>5. GrantedWasReviewed'
  BY <1>1, <1>3 DEF GrantedWasReviewed
<1>6. TypeOK'
  BY <1>1, <1>3 DEF TypeOK, Fields
<1>7. Latest'
  BY <1>1, <1>2 DEF Latest, Fields
<1> QED
  BY <1>4, <1>5, <1>6, <1>7

\* The other steps of a click grant nothing.
LEMMA ClickKeeps ==
  ASSUME Inv, NEW c \in Clicks,
         Approve(c) \/ ApproveExpired(c) \/ Abandon(c) \/ Acknowledged(c) \/ Refused(c)
           \/ Reject(c) \/ SendReject(c)
  PROVE  Inv'
<1> USE ProposalsAssumption
    DEF Inv, Approve, ApproveExpired, Abandon, Acknowledged, Refused, Reject, SendReject, Step,
        ClearExact, client
<1>1. Fields' /\ GrantedWasReviewed'
  BY DEF Fields, GrantedWasReviewed, Shown, TypeOK
<1>2. Captured'
  BY DEF Captured, Fields, Unclicked
<1>3. TypeOK'
  BY DEF TypeOK, Fields, Shown
<1>4. Latest'
  BY DEF Latest, Fields, Shown, TypeOK
<1> QED
  BY <1>1, <1>2, <1>3, <1>4

\* The invariant holds in every state.
LEMMA Invariant == Spec => []Inv
<1>1. ASSUME Inv, UNCHANGED vars PROVE Inv'
  BY <1>1 DEF Inv, vars, client, TypeOK, Fields, Captured, Latest, GrantedWasReviewed
<1>2. ASSUME Inv, [Next]_vars PROVE Inv'
  BY <1>1, <1>2, ArriveKeeps, ExpiryKeeps, SendKeeps, ClickKeeps DEF Next
<1> QED
  BY InvInit, <1>2, PTL DEF Spec

-----------------------------------------------------------------------------
\* Every field keeps its type.
THEOREM ProposalTypes == Spec => []TypeOK
<1>1. Inv => TypeOK
  BY DEF Inv
<1> QED
  BY <1>1, Invariant, PTL

\* A step takes a proposal off the show by its own click or expiry only.
LEMMA StepKeepsNewer ==
  ASSUME Inv, [Next]_vars
  PROVE  NewerStaysStep
<1> SUFFICES ASSUME proposal # NoProposal, proposal' = NoProposal PROVE NewerStaysStep
  BY DEF NewerStaysStep
<1>1. \/ \E p \in Proposals : handleProposalExpired(p)
      \/ \E c \in Clicks : ApproveExpired(c) \/ Acknowledged(c) \/ SendReject(c)
  BY ProposalsAssumption
     DEF Next, vars, client, handleProposal, Expire, Approve, Abandon, Send, Refused, Reject
<1>2. CASE \E p \in Proposals : handleProposalExpired(p)
  BY <1>2 DEF handleProposalExpired, NewerStaysStep
<1>3. ASSUME NEW c \in Clicks, ApproveExpired(c) \/ Acknowledged(c) \/ SendReject(c)
      PROVE  NewerStaysStep
  <2>1. clicks'[c].pc = "ended" /\ clicks[c].pc # "ended"
    BY <1>3 DEF Inv, Fields, ApproveExpired, Acknowledged, SendReject, Step, Unclicked
  <2>2. clicks[c].reviewed \in {proposal, NoProposal}
    BY <1>3 DEF ApproveExpired, Acknowledged, SendReject, ClearExact, Unclicked
  <2> QED
    BY <2>1, <2>2 DEF NewerStaysStep
<1> QED
  BY <1>1, <1>2, <1>3

\* A session is granted only to the very proposal the user reviewed, although a
\* peer may replace it under the same id during the approval, and the answer to
\* an older one never removes the proposal on show (approveProposal).
THEOREM GrantsWhatWasReviewed == Spec => ProposalsReviewed
<1>1. Inv => GrantedWasReviewed
  BY DEF Inv
<1>2. ASSUME Inv, [Next]_vars PROVE [NewerStaysStep]_vars
  BY <1>2, StepKeepsNewer
<1> QED
  BY <1>1, <1>2, Invariant, PTL DEF Spec, ProposalsReviewed
=============================================================================
