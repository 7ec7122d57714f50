--------------------------- MODULE AcceleratorVotes --------------------------
(***************************************************************************)
(* What the active address's pillars may still vote on                     *)
(* (app/nom_accelerator.go GetVotableForMyPillars): one call made of many  *)
(* requests - every page of the projects, the frontier's time, the votes   *)
(* of each pillar - while the chain goes on.                               *)
(*                                                                         *)
(* An id is <<project, n>>: the project itself for n = 0, its n-th phase   *)
(* otherwise.  owed and opened are records of the model only.              *)
(***************************************************************************)
EXTENDS Paging, FiniteSets

CONSTANTS
  Projects,
  Pillars,       \* the pillars the active address owns
  VotingPeriod,  \* AcceleratorProjectVotingPeriod
  MaxTime, MaxPhases, \* bounds
  RpcFails,      \* whether a request may fail
  NodeLies       \* whether the node answers pages with whatever it likes

TimesAssumption == VotingPeriod \in Nat /\ MaxTime \in Nat /\ MaxPhases \in Nat
FlagsAssumption == {RpcFails, NodeLies} \subseteq BOOLEAN

VARIABLES
  list, chain, votes, time,   \* the chain: the node's order, each project, votes, frontier time
  pc, index, out, items, todo, \* the call
  owed, opened                \* ids open and not voted all along, ids open at some point

chainVars == <<list, chain, votes, time>>
call == <<pc, index, out, items, todo>>
vars == <<chainVars, call, owed, opened>>

Ids == Projects \X (0..MaxPhases)
Unborn == [status |-> "none", created |-> 0, phases |-> 0, phase |-> "none"]

Init ==
  /\ list = <<>> /\ chain = [p \in Projects |-> Unborn] /\ votes = {} /\ time = 0
  /\ pc = "idle" /\ index = 0 /\ out = <<>> /\ items = {} /\ todo = {}
  /\ owed = {} /\ opened = {}

-----------------------------------------------------------------------------
(* The chain.                                                              *)

\* Mutant: the window is taken to last a second more.
InWindowLong(created, t) == created + VotingPeriod + 1 >= t

InWindow(created, t) == created + VotingPeriod >= t

\* What may be voted on.
OpenIds(c, t) ==
  {<<p, 0>> : p \in {q \in Projects : c[q].status = "voting" /\ c[q].created + VotingPeriod >= t}}
  \cup {<<p, c[p].phases>> : p \in {q \in Projects : c[q].status = "active" /\ c[q].phase = "voting"}}

Owed(c, t, vs) == {id \in OpenIds(c, t) : \E q \in Pillars : <<q, id>> \notin vs}

\* What a step of the chain makes of the records of the model.
Watch(c, t, vs) ==
  /\ owed' = IF pc = "idle" THEN {} ELSE owed \cap Owed(c, t, vs)
  /\ opened' = IF pc = "idle" THEN {} ELSE opened \cup OpenIds(c, t)

Evolve(p, r) ==
  /\ chain' = [chain EXCEPT ![p] = r]
  /\ UNCHANGED <<list, votes, time, call>> /\ Watch(chain', time, votes)

\* A new project goes anywhere in the node's order.
Create(p, at) ==
  /\ chain[p] = Unborn
  /\ list' = InsertAt(list, at, p)
  /\ chain' = [chain EXCEPT ![p] = [status |-> "voting", created |-> time, phases |-> 0, phase |-> "none"]]
  /\ UNCHANGED <<votes, time, call>> /\ Watch(chain', time, votes)

Decide(p, s) == chain[p].status = "voting" /\ s \in {"active", "closed"} /\ Evolve(p, [chain[p] EXCEPT !.status = s])

\* A new phase, or the update of one that is still open: a new id.
AddPhase(p) ==
  /\ chain[p].status = "active" /\ chain[p].phases < MaxPhases
  /\ Evolve(p, [chain[p] EXCEPT !.phases = @ + 1, !.phase = "voting"])

PayPhase(p) == chain[p].phase = "voting" /\ Evolve(p, [chain[p] EXCEPT !.phase = "paid"])

Vote(q, id) ==
  /\ id \in OpenIds(chain, time) /\ <<q, id>> \notin votes
  /\ votes' = votes \cup {<<q, id>>}
  /\ UNCHANGED <<list, chain, time, call>> /\ Watch(chain, time, votes')

Momentum ==
  /\ time < MaxTime /\ time' = time + 1
  /\ UNCHANGED <<list, chain, votes, call>> /\ Watch(chain, time', votes)

-----------------------------------------------------------------------------
(* The call.                                                               *)

Leave ==
  /\ pc' = "idle" /\ index' = 0 /\ out' = <<>> /\ items' = {} /\ todo' = {}
  /\ owed' = {} /\ opened' = {} /\ UNCHANGED chainVars

Begin ==
  /\ pc = "idle"
  /\ pc' = "projects" /\ index' = 0 /\ out' = <<>> /\ items' = {} /\ todo' = {}
  /\ owed' = Owed(chain, time, votes) /\ opened' = OpenIds(chain, time)
  /\ UNCHANGED chainVars

\* The projects of a page are read as they are at that moment.
Page(page, total) ==
  /\ out' = Taken(out, page)
  /\ IF Ends(out', page, total, index)
     THEN pc' = "frontier" /\ index' = index
     ELSE pc' = "projects" /\ index' = index + 1
  /\ UNCHANGED <<items, todo, chainVars, owed, opened>>

Entry(p) == [id |-> p, at |-> chain[p]]

FetchPage ==
  /\ pc = "projects" /\ ~NodeLies
  /\ LET page == PageOf(list, index) IN Page([i \in DOMAIN page |-> Entry(page[i])], Len(list))

\* A node that answers a page of any length, and claims any total.
FetchLie(n) ==
  /\ pc = "projects" /\ NodeLies
  /\ \E p \in Projects, total \in {0, 2 * MaxItems} : Page([i \in 1..n |-> Entry(p)], total)

\* buildVotableItems: the open projects and phases of what was collected.
Votable(collected, t) ==
  {<<e.id, 0>> : e \in {f \in collected : f.at.status = "voting" /\ InWindow(f.at.created, t)}}
  \cup {<<e.id, e.at.phases>> : e \in {f \in collected : f.at.status = "active" /\ f.at.phase = "voting"}}

\* The frontier's time closes windows; an empty list, or no pillar, ends the call.
Frontier ==
  /\ pc = "frontier"
  /\ items' = {[id |-> id, needsMyVote |-> FALSE] : id \in Votable(ToSet(out), time)}
  /\ todo' = Pillars
  /\ pc' = IF items' = {} \/ Pillars = {} THEN "done" ELSE "votes"
  /\ UNCHANGED <<index, out, chainVars, owed, opened>>

\* Mutant: an item a pillar has voted on needs no other's vote.
AnnotateLast(its, q) == {[id |-> i.id, needsMyVote |-> <<q, i.id>> \notin votes] : i \in its}

\* annotateMyVotes for one pillar.
Annotate(its, q) == {[id |-> i.id, needsMyVote |-> i.needsMyVote \/ <<q, i.id>> \notin votes] : i \in its}

PillarVotes(q) ==
  /\ pc = "votes" /\ q \in todo
  /\ items' = Annotate(items, q)
  /\ todo' = todo \ {q}
  /\ pc' = IF todo' = {} THEN "done" ELSE "votes"
  /\ UNCHANGED <<index, out, chainVars, owed, opened>>

\* Mutant: a failed request starts the collection over.
FailAgain ==
  /\ RpcFails /\ pc \in {"projects", "frontier", "votes"}
  /\ pc' = "projects" /\ index' = 0 /\ out' = <<>> /\ items' = {} /\ todo' = {}
  /\ UNCHANGED <<owed, opened, chainVars>>

\* Any request may fail, and with it the call.
Fail ==
  /\ RpcFails /\ pc \in {"projects", "frontier", "votes"} /\ Leave

Return == pc = "done" /\ Leave

Request ==
  \/ FetchPage \/ Frontier \/ Fail
  \/ (\E n \in 0..MaxItems + 1 : FetchLie(n)) \/ \E q \in Pillars : PillarVotes(q)

Next ==
  \/ Begin \/ Request \/ Return \/ Momentum
  \/ \E p \in Projects :
       \/ AddPhase(p) \/ PayPhase(p)
       \/ \E at \in 1..Len(list) + 1 : Create(p, at)
       \/ \E s \in {"active", "closed"} : Decide(p, s)
  \/ \E q \in Pillars, id \in Ids : Vote(q, id)

Spec == Init /\ [][Next]_vars

(* Requests are answered, one way or the other.                            *)
FairSpec == Spec /\ WF_vars(Request)

-----------------------------------------------------------------------------
(* Properties.                                                             *)

\* Every field keeps its type; what is collected stays under the cap however
\* long the node's pages are and whatever it claims (collectPaged).
TypeOK ==
  /\ pc \in {"idle", "projects", "frontier", "votes", "done"}
  /\ Len(out) <= MaxItems /\ index \in 0..MaxPages - 1
  /\ {i.id : i \in items} \subseteq Ids /\ todo \subseteq Pillars

\* An item that is not flagged was voted on by every pillar of the address,
\* though their votes are asked for one after another (annotateMyVotes).
UnflaggedIsVoted ==
  pc = "done" /\ Pillars # {} =>
    \A i \in items : i.needsMyVote \/ \A q \in Pillars : <<q, i.id>> \in votes

\* What was open, and missed a vote of the address, for the whole call is
\* flagged, though projects are created between the pages - as long as the
\* list stays under the cap (GetVotableForMyPillars).
OwedIsFlagged ==
  pc = "done" /\ Pillars # {} /\ Len(list) <= MaxItems =>
    \A id \in owed : [id |-> id, needsMyVote |-> TRUE] \in items

\* Every item was open at some point of the call: neither a closed project nor
\* an expired window is shown, though the time is read after the projects.
ShownWasOpen == pc = "done" => {i.id : i \in items} \subseteq opened

\* A call ends, even with a node that claims more projects for ever.
CallEnds == []<>(pc \in {"idle", "done"})
=============================================================================
