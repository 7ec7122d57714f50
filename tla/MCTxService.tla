----------------------------- MODULE MCTxService -----------------------------
(* Small instances of TxService for TLC. *)
EXTENDS TxServiceInv

CONSTANTS a1, a2, e1, e2, t1, t2, c1, c2

Req(t, i, a, e) == [topic |-> t, id |-> i, from |-> a, effect |-> e]

\* One dapp request.
OneRequest == {Req(t1, 1, a1, e1)}

\* The same transfer again under a new id and under a new session, and a
\* reused id carrying another transfer.
Reissues == {Req(t1, 1, a1, e1), Req(t1, 2, a1, e1), Req(t2, 1, a1, e1), Req(t1, 1, a1, e2)}

AlwaysOn == {TRUE}
OnOrOff == BOOLEAN

OnlyMainnet == {"mainnet"}
BothNetworks == {"mainnet", "testnet"}
NoRequests == {}
TwoEffects == {e1, e2}
Governance == {e2}
NoEffects == {}
=============================================================================
