------------------------ MODULE MCWalletConnectStore ------------------------
(* Requests of WalletConnectStore for the model checker: a transfer, and   *)
(* the same transfer under another id once the first one ended.            *)
EXTENDS WalletConnectStore

First == [topic |-> "t1", id |-> 1, from |-> "z1a", effect |-> "redeem"]
Reissued == [First EXCEPT !.id = 2]

Reissuing == {First, Reissued}
OnlyFirst == {First}
=============================================================================
