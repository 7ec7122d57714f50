----------------------------- MODULE PublishOnce -----------------------------
(***************************************************************************)
(* What the WalletConnect publication path promises (WC-01): for one       *)
(* request key, and for one intent under any key, at most one signed block *)
(* is retained at a time; only a retained block is ever handed to the      *)
(* network; a block is forgotten only once its outcome is known.           *)
(***************************************************************************)
CONSTANTS Keys, Intents, Hashes

VARIABLES
  retained,    \* the retained records: key -> [intent, state, hash]
  handed       \* hashes that have been handed to the network

vars == <<retained, handed>>

Init ==
  /\ retained = [k \in {} |-> {}]
  /\ handed = {}

\* A block is signed for a request nothing is retained for.
Sign(k, i, h) ==
  /\ k \notin DOMAIN retained
  /\ \A x \in DOMAIN retained : retained[x].intent # i
  /\ h \notin handed
  /\ retained' = [x \in DOMAIN retained \cup {k} |->
       IF x = k THEN [intent |-> i, state |-> "signed", hash |-> h] ELSE retained[x]]
  /\ UNCHANGED handed

\* The first broadcast and every later one are of the retained block.
Hand(k) ==
  /\ k \in DOMAIN retained
  /\ handed' = handed \cup {retained[k].hash}
  /\ UNCHANGED retained

Resolve(k) ==
  /\ k \in DOMAIN retained
  /\ retained[k].hash \in handed
  /\ retained' = [retained EXCEPT ![k].state = "published"]
  /\ UNCHANGED handed

Acknowledge(k) ==
  /\ k \in DOMAIN retained
  /\ retained[k].state = "published"
  /\ retained' = [x \in DOMAIN retained \ {k} |-> retained[x]]
  /\ UNCHANGED handed

Next ==
  \E k \in Keys :
    \/ \E i \in Intents, h \in Hashes : Sign(k, i, h)
    \/ Hand(k) \/ Resolve(k) \/ Acknowledge(k)

Spec == Init /\ [][Next]_vars

=============================================================================
