------------------------------ MODULE WCJournal ------------------------------
(***************************************************************************)
(* The WalletConnect publication journal (app/walletconnect_journal.go) as *)
(* operators on its value: a function from request keys to records.  The   *)
(* file is rewritten whole under one mutex and renamed into place, so each *)
(* operation is one step of whoever performs it; TxService performs them.  *)
(***************************************************************************)
EXTENDS Naturals, FiniteSets, Functions

CONSTANT MaxRecords          \* wcJournalMaxRecords

ASSUME MaxRecordsAssumption == MaxRecords \in Nat

States == {"signed", "published"}

\* topic#requestId.  The topic and request id a record also carries are those
\* of its key: loadLocked restores them from the key when they are missing.
KeyOf(req) == [topic |-> req.topic, id |-> req.id]

\* The intent hash covers the sender and every funds-moving field of the
\* validated template, and nothing else of the request.
IntentOf(req) == [from |-> req.from, effect |-> req.effect]

EmptyJournal == [k \in {} |-> {}]

CanPut(j, k) == k \in DOMAIN j \/ Cardinality(DOMAIN j) < MaxRecords

Put(j, k, rec) == [x \in DOMAIN j \cup {k} |-> IF x = k THEN rec ELSE j[x]]

MarkPublished(j, k) ==
  IF k \in DOMAIN j THEN [j EXCEPT ![k].state = "published"] ELSE j

CanDelete(j, k) == k \in DOMAIN j /\ j[k].state = "published"

DeletePublished(j, k) ==
  IF CanDelete(j, k) THEN Restrict(j, DOMAIN j \ {k}) ELSE j

FindByIntent(j, topic, intent, k) ==
  {x \in DOMAIN j \ {k} : x.topic = topic /\ j[x].intent = intent}

\* Mutant: the same transfer from another session is not looked for.
FindInNoOtherTopic(j, intent, k, skip) == {}

FindByIntentAnyTopic(j, intent, k, skip) ==
  {x \in DOMAIN j \ {k} : x.topic # skip /\ j[x].intent = intent}

\* walletConnectReplayResult: a published record yields its result, a signed
\* one sends the caller to reconciliation.
ReplayResult(rec) == IF rec.state = "published" THEN "published" ELSE "unknown"

(***************************************************************************)
(* LookupWalletConnectPublication: the exact key decides first, then the   *)
(* same intent under another id of the session, then under another         *)
(* session.  Go's map iteration picks any match, hence a set of results.   *)
(***************************************************************************)
Lookup(j, req) ==
  LET k == KeyOf(req)
      i == IntentOf(req)
      same == FindByIntent(j, req.topic, i, k)
      other == FindByIntentAnyTopic(j, i, k, req.topic)
  IN  CASE k \in DOMAIN j /\ j[k].intent # i -> {[outcome |-> "conflict", key |-> k]}
        [] k \in DOMAIN j /\ j[k].intent = i ->
             {[outcome |-> ReplayResult(j[k]), key |-> k]}
        [] k \notin DOMAIN j /\ same # {} ->
             {[outcome |-> ReplayResult(j[x]), key |-> x] : x \in same}
        [] k \notin DOMAIN j /\ same = {} /\ other # {} ->
             {[outcome |-> "duplicate", key |-> x] : x \in other}
        [] OTHER -> {[outcome |-> "none", key |-> k]}

Fresh(j, req) == \E r \in Lookup(j, req) : r.outcome = "none"

=============================================================================
