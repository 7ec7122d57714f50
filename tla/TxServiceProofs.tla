--------------------------- MODULE TxServiceProofs ---------------------------
(***************************************************************************)
(* Theorems about TxService, for every set of accounts, effects, requests, *)
(* callers and networks and for every bound.  Each layer of the inductive  *)
(* invariant (TxServiceInv) is proved action by action: the types and the  *)
(* hold first, then the journal, then where blocks are handed over.        *)
(***************************************************************************)
EXTENDS TxServiceInv, FiniteSetTheorems, TLAPS

USE DEF Ops

LEMMA Blanks ==
  /\ NoHold \in Hold /\ NoHold.id = 0 /\ NoHold.req = NoRequest
  /\ Idle \in Worker /\ Idle.pc = "idle" /\ Idle.snap = NoHold
  /\ NoCall \in Call /\ NoCall.pc = "idle" /\ NoCall.hold = NoHold
  BY DEF NoHold, Hold, NoChain, Idle, Worker, NoCall, Call, CallPcs, WorkerPcs

-----------------------------------------------------------------------------
(* What a step leaves alone stays typed. *)

LEMMA EnvFrame == ASSUME EnvOK, UNCHANGED env PROVE EnvOK'
  BY DEF EnvOK, env

LEMMA HoldFrame == ASSUME HoldInv, UNCHANGED hold PROVE HoldInv'
  BY DEF HoldInv, HoldOK, hold, Settled

LEMMA CallsFrame == ASSUME CallsInv, UNCHANGED calls PROVE CallsInv'
  BY DEF CallsInv, CallTyped, Settled

LEMMA WorkersFrame ==
  ASSUME WorkersInv, UNCHANGED <<publishing, blocks>> PROVE WorkersInv'
  BY DEF WorkersInv, WorkersOK, publishing, WorkerTyped, Settled

LEMMA RecordsFrame ==
  ASSUME RecordsTyped, UNCHANGED <<journal, blocks>> PROVE RecordsTyped'
  BY DEF RecordsTyped, JournalOK

LEMMA LedgerFrame ==
  ASSUME LedgerOK, UNCHANGED <<ledger, sent, acked>> PROVE LedgerOK'
  BY DEF LedgerOK, ledger

LEMMA GhostsFrame ==
  ASSUME GhostsOK, UNCHANGED <<previews, cancelled, consent>> PROVE GhostsOK'
  BY DEF GhostsOK

\* Setting, unsetting or leaving consent and leaving the other two.
LEMMA ConsentTyped ==
  ASSUME GhostsOK, EnvOK, UNCHANGED <<previews, cancelled>>,
         consent' = settings.optIn
  PROVE  GhostsOK'
  BY DEF GhostsOK, EnvOK

-----------------------------------------------------------------------------
(* The few ways the hold, a call or a worker changes. *)

LEMMA HoldNumbered ==
  ASSUME NEW h \in Hold, NEW n \in Nat
  PROVE  [h EXCEPT !.id = n + 1, !.req = NoRequest] \in Hold
  <1> DEFINE g == [h EXCEPT !.id = n + 1]
  <1>1. g \in Hold
    BY DEF Hold
  <1>2. [g EXCEPT !.req = NoRequest] \in Hold
    BY <1>1 DEF Hold
  <1>3. [h EXCEPT !.id = n + 1, !.req = NoRequest] = [g EXCEPT !.req = NoRequest]
    OBVIOUS
  <1> QED BY <1>2, <1>3

LEMMA HoldDropped ==
  ASSUME HoldInv, pending' \in {pending, NoHold}, holdCounter' = holdCounter,
         publishingHold' \in Nat
  PROVE  HoldInv'
  BY Blanks DEF HoldInv, HoldOK, Settled

LEMMA CallSet ==
  ASSUME CallsInv, NEW c \in Callers, NEW x, CallTyped(x), calls' = [calls EXCEPT ![c] = x]
  PROVE  CallsInv'
  BY DEF CallsInv, CallTyped, Settled

LEMMA CallReturns ==
  ASSUME CallsInv, NEW c \in Callers, Return(c) PROVE CallsInv'
  <1>1. CallTyped(NoCall)
    BY Blanks DEF CallTyped
  <1> QED BY <1>1, CallSet DEF Return

LEMMA WorkerSet ==
  ASSUME WorkersInv, NEW op \in Ops, NEW w, WorkerTyped(op, w), blocks' = blocks,
         worker' = [worker EXCEPT ![op] = w], publishMu' \in Ops \cup {"free"}
  PROVE  WorkersInv'
  <1>1. WorkersOK'
    BY DEF WorkersInv, WorkersOK, WorkerTyped
  <1>2. ASSUME NEW o \in Ops PROVE WorkerTyped(o, worker[o])'
    <2>1. CASE o = op
      BY <2>1 DEF WorkersInv, WorkersOK, WorkerTyped, Settled
    <2>2. CASE o # op
      <3>1. worker'[o] = worker[o]
        BY <2>2 DEF WorkersInv, WorkersOK
      <3> QED BY <3>1 DEF WorkersInv, WorkerTyped, Settled
    <2> QED BY <2>1, <2>2
  <1> QED BY <1>1, <1>2 DEF WorkersInv

LEMMA WorkerBegins ==
  ASSUME WorkersInv, NEW op \in Ops, NEW w, WorkerTyped(op, w), Begin(op, w),
         blocks' = blocks
  PROVE  WorkersInv'
  BY WorkerSet DEF Begin

LEMMA WorkerAdvances ==
  ASSUME WorkersInv, NEW op \in Ops, NEW w, WorkerTyped(op, w), Advance(op, w),
         blocks' = blocks
  PROVE  WorkersInv'
  BY WorkerSet DEF Advance, WorkersInv, WorkersOK

LEMMA WorkerEnds ==
  ASSUME WorkersInv, NEW op \in Ops, End(op), blocks' = blocks
  PROVE  WorkersInv'
  <1>1. WorkerTyped(op, Idle)
    BY Blanks DEF WorkerTyped, HasHash
  <1> QED BY <1>1, WorkerSet DEF End

LEMMA WorkerSteps ==
  ASSUME WorkersInv, NEW op \in Ops, NEW pc \in WorkerPcs, Step(op, pc), blocks' = blocks,
         worker[op].pc # "idle",
         pc \notin {"pow", "send"},
         op = "confirm" /\ pc = "journal" => worker[op].snap.req # NoRequest,
         pc \in HasHash => worker[op].pc \in HasHash
  PROVE  WorkersInv'
  <1> DEFINE w == [worker[op] EXCEPT !.pc = pc]
  <1>1. WorkerTyped(op, w)
    BY DEF WorkersInv, WorkersOK, WorkerTyped, Worker, Settled
  <1> QED BY <1>1, WorkerAdvances DEF Step

\* A step of a worker, and a step of a call.
LEMMA OnlyWorkerTyped ==
  ASSUME TypeInv, OnlyWorker, HoldInv', WorkersInv' PROVE TypeInv'
  BY EnvFrame, CallsFrame, RecordsFrame, LedgerFrame, GhostsFrame
  DEF TypeInv, OnlyWorker, ledger, ghosts

LEMMA OnlyCallsTyped ==
  ASSUME TypeInv, OnlyCalls, CallsInv' PROVE TypeInv'
  BY EnvFrame, HoldFrame, WorkersFrame, RecordsFrame, LedgerFrame, GhostsFrame
  DEF TypeInv, OnlyCalls, ledger, ghosts

LEMMA GiveUpTyped ==
  ASSUME TypeInv, GiveUp, holdCounter' = holdCounter, blocks' = blocks
  PROVE  HoldInv' /\ WorkersInv'
  BY HoldDropped, WorkerEnds DEF TypeInv, GiveUp, Release, ClearIf

LEMMA RefuseTyped ==
  ASSUME TypeInv, Refuse, holdCounter' = holdCounter, blocks' = blocks
  PROVE  HoldInv' /\ WorkersInv'
  BY HoldDropped, WorkerEnds DEF TypeInv, Refuse, Release

-----------------------------------------------------------------------------
(* The session, the node and the settings. *)

LEMMA EnvironmentTyped == ASSUME TypeInv, Environment PROVE TypeInv'
  <1> USE DEF TypeInv
  <1>1. ASSUME NEW a \in Accounts \cup {NoAccount}, NEW cb \in BOOLEAN, ChangeSession(a, cb)
        PROVE  TypeInv'
    <2>1. EnvOK'
      BY <1>1 DEF ChangeSession, EnvOK
    <2> QED BY <1>1, <2>1, HoldFrame, CallsFrame, WorkersFrame, RecordsFrame, LedgerFrame,
               GhostsFrame DEF ChangeSession, ledger, ghosts
  <1>2. CASE ClearPending
    <2>1. EnvOK'
      BY <1>2 DEF ClearPending, EnvOK
    <2>2. HoldInv'
      BY <1>2, HoldDropped DEF ClearPending, HoldInv, HoldOK
    <2> QED BY <1>2, <2>1, <2>2, CallsFrame, WorkersFrame, RecordsFrame, LedgerFrame,
               GhostsFrame DEF ClearPending, ledger, ghosts
  <1>3. ASSUME NEW chain \in Networks, InstallConnection(chain) PROVE TypeInv'
    <2>1. EnvOK'
      BY <1>3, ConstantsAssumption DEF InstallConnection, EnvOK
    <2> QED BY <1>3, <2>1, HoldFrame, CallsFrame, WorkersFrame, RecordsFrame, LedgerFrame,
               GhostsFrame DEF InstallConnection, ledger, ghosts
  <1>4. CASE Disconnect
    <2>1. EnvOK'
      BY <1>4 DEF Disconnect, EnvOK
    <2> QED BY <1>4, <2>1, HoldFrame, CallsFrame, WorkersFrame, RecordsFrame, LedgerFrame,
               GhostsFrame DEF Disconnect, ledger, ghosts
  <1>5. ASSUME NEW id \in ChainIDs, SetChainID(id) PROVE TypeInv'
    <2>1. EnvOK'
      BY <1>5, ConstantsAssumption DEF SetChainID, EnvOK
    <2> QED BY <1>5, <2>1, HoldFrame, CallsFrame, WorkersFrame, RecordsFrame, LedgerFrame,
               GhostsFrame DEF SetChainID, ledger, ghosts
  <1>7. ASSUME NEW v \in OptIns, SetAllowMainnetSend(v) PROVE TypeInv'
    <2>1. v \in BOOLEAN
      BY <1>7, ConstantsAssumption
    <2>2. EnvOK'
      BY <1>7, <2>1 DEF SetAllowMainnetSend, EnvOK
    <2>3. GhostsOK'
      BY <1>7, <2>1 DEF SetAllowMainnetSend, GhostsOK
    <2> QED BY <1>7, <2>2, <2>3, HoldFrame, CallsFrame, WorkersFrame, RecordsFrame,
               LedgerFrame DEF SetAllowMainnetSend, ledger
  <1>6. CASE Restart
    <2>1. EnvOK'
      <3>1. /\ session' = [account |-> NoAccount, gen |-> 0]
            /\ clearDue' = FALSE
            /\ node' = [conn |-> 0, chain |-> NoChain]
            /\ settings' = settings /\ restarts' = restarts + 1
        BY <1>6 DEF Restart
      <3>2. session' \in [account : Accounts \cup {NoAccount}, gen : Nat]
        BY <3>1
      <3>3. node' \in [conn : Nat, chain : Chains \cup {NoChain}]
        BY <3>1
      <3>4. clearDue' \in BOOLEAN
        BY <3>1, Zenon
      <3>5. settings' \in [chain : Chains, optIn : BOOLEAN] /\ restarts' \in Nat
        BY <3>1 DEF EnvOK
      <3> QED BY <3>2, <3>3, <3>4, <3>5 DEF EnvOK
    <2>2. HoldInv'
      BY <1>6, Blanks DEF Restart, HoldInv, HoldOK
    <2>3. CallsInv'
      BY <1>6, Blanks DEF Restart, CallsInv, CallTyped
    <2>4. WorkersInv'
      BY <1>6, Blanks DEF Restart, WorkersInv, WorkersOK, WorkerTyped, HasHash
    <2>5. GhostsOK'
      BY <1>6 DEF Restart, GhostsOK
    <2> QED BY <1>6, <2>1, <2>2, <2>3, <2>4, <2>5, RecordsFrame, LedgerFrame
            DEF Restart, ledger
  <1> QED BY <1>1, <1>2, <1>3, <1>4, <1>5, <1>6, <1>7
          DEF Environment, Unlock, SelectAccount, Lock

-----------------------------------------------------------------------------
(* Preparing a hold. *)

LEMMA PrepareTyped == ASSUME TypeInv, NEW c \in Callers, PrepareStep(c) PROVE TypeInv'
  <1> USE DEF TypeInv
  <1>0. CallTyped(calls[c]) /\ calls \in [Callers -> Call]
    BY DEF CallsInv
  <1>1. ASSUME NEW e \in Sends, PrepareSend(c, e) PROVE TypeInv'
    <2> DEFINE x == [pc |-> "read", hold |-> [NoHold EXCEPT !.effect = e, !.gen = session.gen]]
    <2>1. e \in Effects /\ session.gen \in Nat
      BY ConstantsAssumption DEF EnvOK
    <2>2. CallTyped(x)
      BY <2>1, Blanks DEF CallTyped, Call, CallPcs, Hold
    <2>3. CallsInv'
      BY <1>1, <2>2, CallSet DEF PrepareSend
    <2> QED BY <1>1, <2>3, OnlyCallsTyped DEF PrepareSend
  <1>2. ASSUME NEW r \in Requests, LookupWalletConnectPublication(c, r) PROVE TypeInv'
    <2> DEFINE x == [pc |-> "sender", hold |-> [NoHold EXCEPT !.effect = r.effect, !.req = r]]
    <2>1. r.effect \in Effects
      BY ConstantsAssumption
    <2>2. CallTyped(x)
      BY <2>1, Blanks DEF CallTyped, Call, CallPcs, Hold
    <2>3. CallsInv'
      BY <1>2, <2>2, CallSet DEF LookupWalletConnectPublication
    <2> QED BY <1>2, <2>3, OnlyCallsTyped DEF LookupWalletConnectPublication
  <1>3. CASE WalletConnectBridgeTemplate(c)
    <2> DEFINE x == [calls[c] EXCEPT !.pc = "begin"]
    <2>1. CallTyped(x)
      BY <1>0, <1>3 DEF WalletConnectBridgeTemplate, CallTyped, Call, CallPcs
    <2>2. CallsInv'
      BY <1>3, <2>1, CallSet DEF WalletConnectBridgeTemplate, Goto
    <2> QED BY <1>3, <2>2, OnlyCallsTyped DEF WalletConnectBridgeTemplate
  <1>4. CASE PrepareCall(c)
    <2> DEFINE x == [calls[c] EXCEPT !.pc = "read", !.hold.gen = session.gen]
    <2>1. session.gen \in Nat
      BY DEF EnvOK
    <2>2. CallTyped(x)
      BY <1>0, <1>4, <2>1 DEF PrepareCall, CallTyped, Call, CallPcs, Hold
    <2>3. calls' = [calls EXCEPT ![c] = x]
      BY <1>0, <1>4 DEF PrepareCall
    <2>4. CallsInv'
      BY <2>2, <2>3, CallSet
    <2> QED BY <1>4, <2>4, OnlyCallsTyped DEF PrepareCall
  <1>5. CASE ReadSigner(c)
    <2> DEFINE x == [calls[c] EXCEPT !.pc = "rpc", !.hold.from = session.account,
                                     !.hold.chain = settings.chain]
    <2>1. session.account \in Accounts /\ settings.chain \in Chains
      BY <1>5 DEF EnvOK, ReadSigner, Locked
    <2>2. CallTyped(x)
      BY <1>0, <1>5, <2>1 DEF ReadSigner, CallTyped, Call, CallPcs, Hold, Settled
    <2>3. calls' = [calls EXCEPT ![c] = x]
      BY <1>0, <1>5 DEF ReadSigner
    <2>4. CallsInv'
      BY <2>2, <2>3, CallSet
    <2> QED BY <1>5, <2>4, OnlyCallsTyped DEF ReadSigner
  <1>6. CASE RecheckGen(c)
    <2> DEFINE x == [calls[c] EXCEPT !.pc = "hold"]
    <2>1. CallTyped(x)
      BY <1>0, <1>6 DEF RecheckGen, CallTyped, Call, CallPcs, Settled
    <2>2. CallsInv'
      BY <1>6, <2>1, CallSet DEF RecheckGen, Goto
    <2> QED BY <1>6, <2>2, OnlyCallsTyped DEF RecheckGen
  <1>7. CASE HoldPending(c)
    <2> DEFINE h == [calls[c].hold EXCEPT !.id = holdCounter + 1, !.req = NoRequest]
    <2>1. calls[c].hold \in Hold /\ Settled(calls[c].hold) /\ holdCounter \in Nat
      BY <1>0, <1>7 DEF CallTyped, Call, HoldPending, HoldInv, HoldOK
    <2>2. h \in Hold /\ Settled(h) /\ h.id = holdCounter + 1
      <3>1. h \in Hold
        BY <2>1, HoldNumbered
      <3>2. Settled(h)
        BY <2>1 DEF Settled, Hold
      <3>3. h.id = holdCounter + 1
        BY <2>1 DEF Hold
      <3> QED BY <3>1, <3>2, <3>3
    <2>3. HoldInv'
      BY <1>7, <2>1, <2>2 DEF HoldPending, HoldInv, HoldOK, Settled
    <2>4. CallsInv'
      <3>1. CASE calls[c].hold.req # NoRequest
        <4> DEFINE x == [calls[c] EXCEPT !.pc = "attach", !.hold.id = h.id]
        <4>1. CallTyped(x)
          BY <1>0, <3>1, <2>1, <2>2 DEF CallTyped, Call, CallPcs, Hold, Settled
        <4>2. calls' = [calls EXCEPT ![c] = x]
          BY <1>0, <1>7, <3>1 DEF HoldPending
        <4> QED BY <4>1, <4>2, CallSet
      <3>2. CASE calls[c].hold.req = NoRequest
        BY <1>7, <3>2, CallReturns DEF HoldPending
      <3> QED BY <3>1, <3>2
    <2>5. PreviewOf(h) \in Preview
      BY <2>2 DEF PreviewOf, Preview, Settled
    <2>6. GhostsOK'
      BY <1>7, <2>2, <2>5, <2>1 DEF HoldPending, GhostsOK
    <2> QED BY <1>7, <2>3, <2>4, <2>6, EnvFrame, WorkersFrame, RecordsFrame, LedgerFrame
            DEF HoldPending, ledger
  <1>8. CASE AttachWalletConnectIdentity(c)
    <2> DEFINE h == calls[c].hold
    <2>1. h \in Hold /\ Settled(h)
      BY <1>0, <1>8 DEF CallTyped, Call, AttachWalletConnectIdentity
    <2>2. h.id \in Nat /\ h.req \in Requests \cup {NoRequest}
      BY <2>1 DEF Hold
    <2>3. HoldInv'
      <3>1. pending' \in Hold /\ pending'.id = pending.id /\ (Settled(pending) => Settled(pending'))
        BY <1>8, <2>2 DEF AttachWalletConnectIdentity, HoldInv, HoldOK, Hold, Settled
      <3> QED BY <1>8, <3>1 DEF AttachWalletConnectIdentity, HoldInv, HoldOK, Settled
    <2>4. PreviewOf(h) \in Preview
      BY <2>1 DEF PreviewOf, Preview, Settled
    <2>5. GhostsOK'
      BY <1>8, <2>2, <2>4 DEF AttachWalletConnectIdentity, GhostsOK
    <2>6. CallsInv'
      BY <1>8, CallReturns DEF AttachWalletConnectIdentity
    <2> QED BY <1>8, <2>3, <2>5, <2>6, EnvFrame, WorkersFrame, RecordsFrame, LedgerFrame
            DEF AttachWalletConnectIdentity, ledger
  <1>9. CASE PrepareFails(c)
    BY <1>9, CallReturns, OnlyCallsTyped DEF PrepareFails
  <1> QED BY <1>1, <1>2, <1>3, <1>4, <1>5, <1>6, <1>7, <1>8, <1>9 DEF PrepareStep

-----------------------------------------------------------------------------
(* Signing and submitting a block. *)

LEMMA FrontierType ==
  ASSUME LedgerOK, NEW chain, NEW a PROVE Frontier(chain, a) \in Nat
  <1> DEFINE S == {b \in onChain : blocks[b].chain = chain /\ blocks[b].from = a}
  <1>1. IsFiniteSet(1..Len(blocks))
    BY FS_Interval DEF LedgerOK
  <1>2. S \subseteq 1..Len(blocks)
    BY DEF LedgerOK
  <1>3. IsFiniteSet(S)
    BY <1>1, <1>2, FS_Subset
  <1> QED BY <1>3, FS_CardinalityType DEF Frontier

LEMMA Signed ==
  ASSUME TypeInv, NEW op \in Ops, NEW effect \in Effects \cup {NoEffect},
         worker[op].acct \in Accounts, worker[op].snap.chain \in Chains,
         SignBlock(op, effect), UNCHANGED <<journal, onChain, sent, acked>>
  PROVE  /\ LedgerOK' /\ RecordsTyped'
         /\ Len(blocks') = Len(blocks) + 1
         /\ \A i \in 1..Len(blocks) : blocks'[i] = blocks[i]
         /\ blocks'[Len(blocks) + 1] =
              [from |-> worker[op].acct, effect |-> effect, chain |-> worker[op].snap.chain,
               prev |-> Frontier(worker[op].snap.chain, worker[op].acct),
               req |-> worker[op].snap.req]
  <1> DEFINE b == [from |-> worker[op].acct, effect |-> effect,
                   chain |-> worker[op].snap.chain,
                   prev |-> Frontier(worker[op].snap.chain, worker[op].acct),
                   req |-> worker[op].snap.req]
  <1>0. LedgerOK /\ RecordsTyped /\ WorkersInv
    BY DEF TypeInv
  <1>1. blocks' = Append(blocks, b) /\ blocks \in Seq(Block)
    BY <1>0 DEF SignBlock, LedgerOK
  <1>2. worker[op].snap.req \in Requests \cup {NoRequest}
    BY <1>0 DEF WorkersInv, WorkersOK, Worker, Hold
  <1>3. b \in Block
    BY <1>0, <1>2, FrontierType DEF Block
  <1> HIDE DEF b
  <1>4. /\ blocks' \in Seq(Block) /\ Len(blocks') = Len(blocks) + 1
        /\ \A i \in 1..Len(blocks) : blocks'[i] = blocks[i]
        /\ blocks'[Len(blocks) + 1] = b
    BY <1>1, <1>3
  <1>5. 1..Len(blocks) \subseteq 1..Len(blocks')
    BY <1>1, <1>4
  <1>6. LedgerOK'
    BY <1>0, <1>4, <1>5 DEF LedgerOK
  <1>7. RecordsTyped'
    BY <1>0, <1>5 DEF RecordsTyped, JournalOK
  <1> QED BY <1>4, <1>6, <1>7 DEF b

\* A worker that has just signed holds the new block's hash.
LEMMA WorkerSigns ==
  ASSUME WorkersInv, NEW op \in Ops, NEW w, w \in Worker, w.pc \in {"recheck", "publish"},
         op = "confirm" => Settled(w.snap), w.hash = Len(blocks) + 1,
         Len(blocks) \in Nat, Len(blocks') = Len(blocks) + 1, Advance(op, w)
  PROVE  WorkersInv'
  <1>1. WorkersOK'
    BY DEF WorkersInv, WorkersOK, Advance
  <1>2. ASSUME NEW o \in Ops PROVE WorkerTyped(o, worker[o])'
    <2>1. CASE o = op
      <3>1. worker'[o] = w
        BY <2>1 DEF WorkersInv, WorkersOK, Advance
      <3> QED BY <2>1, <3>1 DEF WorkerTyped, Settled
    <2>2. CASE o # op
      <3>1. worker'[o] = worker[o]
        BY <2>2 DEF WorkersInv, WorkersOK, Advance
      <3>2. worker[o].hash \in 1..Len(blocks) => worker[o].hash \in 1..Len(blocks')
        OBVIOUS
      <3> QED BY <3>1, <3>2 DEF WorkersInv, WorkerTyped, Settled
    <2> QED BY <2>1, <2>2
  <1> QED BY <1>1, <1>2 DEF WorkersInv

LEMMA Submitted ==
  ASSUME TypeInv, NEW op \in Ops, worker[op].pc = "publish",
         Accepted(op) \/ NoReply(op), OnlySubmit
  PROVE  /\ EnvOK' /\ CallsInv' /\ RecordsTyped' /\ LedgerOK' /\ GhostsOK'
         /\ holdCounter' = holdCounter /\ blocks' = blocks
  <1>1. worker[op].hash \in 1..Len(blocks)
    BY DEF TypeInv, WorkersInv, WorkerTyped, HasHash
  <1>2. LedgerOK'
    BY <1>1 DEF TypeInv, LedgerOK, Accepted, NoReply, OnlySubmit
  <1> QED BY <1>2, EnvFrame, CallsFrame, RecordsFrame, GhostsFrame DEF TypeInv, OnlySubmit

LEMMA MarkedTyped ==
  ASSUME RecordsTyped, NEW k, Marked(k), blocks' = blocks PROVE RecordsTyped'
  <1>1. \A rec \in Record : [rec EXCEPT !.state = "published"] \in Record
    BY DEF Record, States
  <1>2. \A rec \in Record : [rec EXCEPT !.state = "published"].hash = rec.hash
    BY DEF Record
  <1>3. CASE journal' = journal
    BY <1>3, RecordsFrame
  <1>4. CASE k \in DOMAIN journal /\ journal' = [journal EXCEPT ![k].state = "published"]
    <2>1. DOMAIN journal' = DOMAIN journal
      BY <1>4
    <2>2. \A x \in DOMAIN journal :
            journal'[x] = IF x = k THEN [journal[x] EXCEPT !.state = "published"] ELSE journal[x]
      BY <1>4
    <2> QED BY <1>1, <1>2, <2>1, <2>2 DEF RecordsTyped, JournalOK
  <1> QED BY <1>3, <1>4 DEF Marked, MarkPublished

-----------------------------------------------------------------------------
(* Confirming and cancelling. *)

LEMMA ConfirmStepTyped == ASSUME TypeInv, ConfirmStep PROVE TypeInv'
  <1> USE DEF TypeInv
  <1>0. /\ WorkerTyped("confirm", confirm) /\ confirm \in Worker
        /\ publishMu \in Ops \cup {"free"} /\ pending \in Hold /\ publishingHold \in Nat
        /\ Len(blocks) \in Nat
    BY DEF WorkersInv, WorkersOK, WorkerTyped, confirm, HoldInv, HoldOK, LedgerOK
  <1>1. CASE LatchHold
    <2>1. CASE pending.id = confirm.snap.id
      <3>1. confirm.snap.id \in Nat
        BY <1>0 DEF Worker, Hold
      <3>2. HoldInv'
        BY <1>1, <2>1, <3>1, HoldDropped DEF LatchHold, OnlyWorker
      <3>3. WorkersInv'
        BY <1>1, <2>1, WorkerSteps DEF LatchHold, OnlyWorker, ledger, At, HasHash, WorkerPcs
      <3> QED BY <1>1, <3>2, <3>3, OnlyWorkerTyped DEF LatchHold
    <2>2. CASE pending.id # confirm.snap.id
      <3>1. HoldInv'
        BY <1>1, <2>2, HoldDropped DEF LatchHold, OnlyWorker, Release
      <3>2. WorkersInv'
        BY <1>1, <2>2, WorkerEnds DEF LatchHold, OnlyWorker, ledger, Release
      <3> QED BY <1>1, <3>1, <3>2, OnlyWorkerTyped DEF LatchHold
    <2> QED BY <2>1, <2>2
  <1>2. CASE CheckSession
    <2>1. CASE SessionHolds(confirm.snap)
      <3>1. WorkersInv'
        BY <1>2, <2>1, WorkerSteps DEF CheckSession, OnlyWorker, ledger, At, HasHash, WorkerPcs
      <3>2. HoldInv'
        BY <1>2, <2>1, HoldFrame DEF CheckSession, OnlyWorker, hold
      <3> QED BY <1>2, <3>1, <3>2, OnlyWorkerTyped DEF CheckSession
    <2>2. CASE ~SessionHolds(confirm.snap)
      BY <1>2, <2>2, GiveUpTyped, OnlyWorkerTyped DEF CheckSession, OnlyWorker, ledger
    <2> QED BY <2>1, <2>2
  <1>3. CASE ReadKey
    <2>1. CASE Locked
      BY <1>3, <2>1, GiveUpTyped, OnlyWorkerTyped DEF ReadKey, OnlyWorker, ledger
    <2>2. CASE ~Locked /\ node.chain # confirm.snap.chain
      BY <1>3, <2>2, RefuseTyped, OnlyWorkerTyped DEF ReadKey, OnlyWorker, ledger
    <2>3. CASE ~Locked /\ node.chain = confirm.snap.chain
      <3> DEFINE w == [confirm EXCEPT !.pc = "pow", !.acct = session.account,
                                      !.client = node.conn]
      <3>1. session.account \in Accounts /\ node.conn \in Nat
        BY <2>3 DEF EnvOK, Locked
      <3>2. w \in Worker
        BY <1>0, <3>1 DEF Worker, WorkerPcs
      <3>3. w.pc = "pow" /\ w.acct = session.account /\ w.snap = confirm.snap
        BY <1>0 DEF Worker
      <3>4. Settled(confirm.snap)
        BY <1>0, <1>3 DEF ReadKey, At, WorkerTyped, confirm
      <3>5. WorkerTyped("confirm", w)
        BY <3>1, <3>2, <3>3, <3>4 DEF WorkerTyped, HasHash
      <3>6. /\ Advance("confirm", w) /\ UNCHANGED <<pending, publishingHold>>
        BY <1>3, <2>3 DEF ReadKey
      <3> HIDE DEF w
      <3>7. WorkersInv'
        BY <1>3, <3>5, <3>6, WorkerAdvances DEF ReadKey, OnlyWorker, ledger
      <3>8. HoldInv'
        BY <1>3, <3>6, HoldFrame DEF ReadKey, OnlyWorker, hold
      <3> QED BY <1>3, <3>7, <3>8, OnlyWorkerTyped DEF ReadKey
    <2> QED BY <2>1, <2>2, <2>3
  <1>4. CASE PrepareBlock
    <2> DEFINE n == Len(blocks) + 1
               w == [confirm EXCEPT !.pc = "recheck", !.hash = n]
    <2>1. Settled(confirm.snap) /\ confirm.acct \in Accounts
      BY <1>0, <1>4 DEF PrepareBlock, At, WorkerTyped, confirm
    <2>2. /\ LedgerOK' /\ RecordsTyped' /\ Len(blocks') = Len(blocks) + 1
      BY <1>4, <2>1, Signed DEF PrepareBlock, Settled, confirm
    <2>3. w = [confirm EXCEPT !.pc = "recheck", !.hash = n]
      OBVIOUS
    <2>4. Advance("confirm", w) /\ n \in Nat
      BY <1>0, <1>4 DEF PrepareBlock
    <2> HIDE DEF w
    <2>5. w \in Worker /\ w.pc = "recheck" /\ w.snap = confirm.snap /\ w.hash = Len(blocks) + 1
      <3> HIDE DEF n
      <3>1. w \in Worker /\ w.pc = "recheck" /\ w.snap = confirm.snap /\ w.hash = n
        BY <1>0, <2>3, <2>4 DEF Worker, WorkerPcs
      <3> QED BY <3>1 DEF n
    <2>7. WorkersInv'
      BY <1>0, <2>1, <2>2, <2>4, <2>5, WorkerSigns
    <2>8. GhostsOK'
      BY <1>4, ConsentTyped DEF PrepareBlock
    <2> QED BY <1>4, <2>2, <2>7, <2>8, EnvFrame, HoldFrame, CallsFrame DEF PrepareBlock
  <1>5. CASE PrepareBlockFails
    BY <1>5, GiveUpTyped, OnlyWorkerTyped DEF PrepareBlockFails, OnlyWorker, ledger
  <1>6. CASE RecheckBuilt
    <2> DEFINE pc == IF confirm.snap.req = NoRequest THEN "publish" ELSE "journal"
    <2>1. CASE GiveUp
      BY <1>6, <2>1, GiveUpTyped, OnlyWorkerTyped DEF RecheckBuilt, OnlyWorker, ledger
    <2>2. CASE Refuse
      BY <1>6, <2>2, RefuseTyped, OnlyWorkerTyped DEF RecheckBuilt, OnlyWorker, ledger
    <2>3. CASE Step("confirm", pc) /\ UNCHANGED <<pending, publishingHold>>
      <3>1. WorkersInv'
        BY <1>6, <2>3, WorkerSteps
        DEF RecheckBuilt, OnlyWorker, ledger, At, HasHash, WorkerPcs, confirm
      <3>2. HoldInv'
        BY <1>6, <2>3, HoldFrame DEF RecheckBuilt, OnlyWorker, hold
      <3> QED BY <1>6, <3>1, <3>2, OnlyWorkerTyped DEF RecheckBuilt
    <2> QED BY <1>6, <2>1, <2>2, <2>3 DEF RecheckBuilt
  <1>7. CASE JournalSigned
    <2> DEFINE r == confirm.snap.req
               rec == [intent |-> IntentOf(r), state |-> "signed", hash |-> confirm.hash]
    <2>1. r \in Requests /\ confirm.hash \in 1..Len(blocks)
      BY <1>0, <1>7 DEF JournalSigned, At, WorkerTyped, HasHash, Worker, Hold, confirm
    <2>2. KeyOf(r) \in Keys /\ rec \in Record
      BY <2>1 DEF Keys, Record, States
    <2>3. rec.hash = confirm.hash
      OBVIOUS
    <2>4. journal' = Put(journal, KeyOf(r), rec)
      BY <1>7 DEF JournalSigned
    <2> HIDE DEF rec, r
    <2>5. RecordsTyped'
      BY <1>7, <2>1, <2>2, <2>3, <2>4 DEF JournalSigned, Put, RecordsTyped, JournalOK, ledger
    <2>6. WorkersInv'
      BY <1>7, WorkerSteps DEF JournalSigned, ledger, At, HasHash, WorkerPcs
    <2> QED BY <1>7, <2>5, <2>6, EnvFrame, HoldFrame, CallsFrame, LedgerFrame, GhostsFrame
            DEF JournalSigned, ghosts
  <1>8. CASE JournalFails
    BY <1>8, GiveUpTyped, OnlyWorkerTyped DEF JournalFails, OnlyWorker, ledger
  <1>9. CASE Publish
    <2>1. /\ EnvOK' /\ CallsInv' /\ RecordsTyped' /\ LedgerOK' /\ GhostsOK'
          /\ holdCounter' = holdCounter /\ blocks' = blocks
      BY <1>9, Submitted DEF Publish, At
    <2>2. WorkersInv'
      BY <1>9, <2>1, WorkerSteps DEF Publish, At, HasHash, WorkerPcs
    <2>3. HoldInv'
      BY <1>9, <2>1, HoldFrame DEF Publish, hold
    <2> QED BY <2>1, <2>2, <2>3
  <1>10. CASE PublishFails
    <2>1. /\ EnvOK' /\ CallsInv' /\ RecordsTyped' /\ LedgerOK' /\ GhostsOK'
          /\ holdCounter' = holdCounter /\ blocks' = blocks
      BY <1>10, Submitted DEF PublishFails, At
    <2> QED BY <1>10, <2>1, GiveUpTyped DEF PublishFails
  <1>11. CASE FinishConfirm
    <2>1. RecordsTyped'
      BY <1>11, MarkedTyped, RecordsFrame DEF FinishConfirm, ledger
    <2>2. HoldInv' /\ WorkersInv'
      BY <1>11, GiveUpTyped DEF FinishConfirm, ledger
    <2> QED BY <1>11, <2>1, <2>2, EnvFrame, CallsFrame, LedgerFrame, GhostsFrame
            DEF FinishConfirm, ghosts
  <1> QED BY <1>1, <1>2, <1>3, <1>4, <1>5, <1>6, <1>7, <1>8, <1>9, <1>10, <1>11
          DEF ConfirmStep

LEMMA ConfirmPublishTyped ==
  ASSUME TypeInv, NEW id \in DOMAIN previews, ConfirmPublish(id) PROVE TypeInv'
  <1> DEFINE w == [Idle EXCEPT !.pc = "latch", !.asked = id, !.snap = pending]
  <1>1. id \in Nat /\ pending \in Hold /\ pending.id # 0 /\ Settled(pending)
    BY DEF TypeInv, GhostsOK, HoldInv, HoldOK, ConfirmPublish
  <1>2. w \in Worker /\ w.pc = "latch" /\ w.snap = pending
    BY <1>1, Blanks DEF Worker, WorkerPcs
  <1>3. Begin("confirm", w)
    BY DEF ConfirmPublish
  <1> HIDE DEF w
  <1>4. WorkerTyped("confirm", w)
    BY <1>1, <1>2 DEF WorkerTyped, HasHash
  <1>5. WorkersInv'
    BY <1>3, <1>4, WorkerBegins DEF TypeInv, ConfirmPublish, ledger
  <1> QED BY <1>5, EnvFrame, HoldFrame, CallsFrame, RecordsFrame, LedgerFrame, GhostsFrame
          DEF TypeInv, ConfirmPublish, ledger, ghosts

LEMMA CancelTyped == ASSUME TypeInv, NEW id, CancelPending(id) PROVE TypeInv'
  <1>1. HoldInv'
    BY HoldDropped DEF TypeInv, CancelPending, HoldInv, HoldOK
  <1>2. pending.id \in Nat
    BY DEF TypeInv, HoldInv, HoldOK, Hold
  <1>3. GhostsOK'
    BY <1>2 DEF TypeInv, CancelPending, GhostsOK
  <1> QED BY <1>1, <1>3, EnvFrame, CallsFrame, WorkersFrame, RecordsFrame, LedgerFrame
          DEF TypeInv, CancelPending, ledger

-----------------------------------------------------------------------------
(* Receiving, reconciling and acknowledging. *)

LEMMA ReceiveTyped == ASSUME TypeInv, Receive \/ ReceiveStep PROVE TypeInv'
  <1> USE DEF TypeInv
  <1>0. /\ WorkerTyped("receive", receive) /\ receive \in Worker
        /\ Len(blocks) \in Nat /\ pending \in Hold /\ publishingHold \in Nat
    BY DEF WorkersInv, WorkersOK, receive, LedgerOK, HoldInv, HoldOK
  <1>1. CASE Receive
    <2> DEFINE w == [Idle EXCEPT !.pc = "guard", !.client = node.conn]
    <2>1. node.conn \in Nat
      BY DEF EnvOK
    <2>2. w \in Worker /\ w.pc = "guard"
      BY <2>1, Blanks DEF Worker, WorkerPcs
    <2>3. Begin("receive", w)
      BY <1>1 DEF Receive
    <2> HIDE DEF w
    <2>4. WorkersInv'
      BY <1>1, <2>2, <2>3, WorkerBegins DEF Receive, ledger, WorkerTyped, HasHash
    <2>5. GhostsOK'
      BY <1>1, ConsentTyped DEF Receive
    <2> QED BY <1>1, <2>4, <2>5, EnvFrame, HoldFrame, CallsFrame, RecordsFrame, LedgerFrame
            DEF Receive, ledger
  <1>2. ASSUME OnlyWorker, UNCHANGED <<pending, publishingHold>>, End("receive")
        PROVE  TypeInv'
    BY <1>2, HoldFrame, WorkerEnds, OnlyWorkerTyped DEF OnlyWorker, hold, ledger
  <1>3. CASE ReceiveGuard
    <2>1. CASE Step("receive", "chain")
      <3>1. WorkersInv'
        BY <1>3, <2>1, WorkerSteps
        DEF ReceiveGuard, OnlyWorker, ledger, At, HasHash, WorkerPcs
      <3> QED BY <1>3, <3>1, HoldFrame, OnlyWorkerTyped DEF ReceiveGuard, OnlyWorker, hold
    <2> QED BY <1>2, <1>3, <2>1 DEF ReceiveGuard
  <1>4. CASE ReceiveChain
    <2> DEFINE w == [receive EXCEPT !.pc = "send", !.acct = session.account,
                                    !.snap.chain = settings.chain]
    <2>1. CASE settings.chain = node.chain /\ ~Locked
      <3>1. session.account \in Accounts /\ settings.chain \in Chains
        BY <2>1 DEF EnvOK, Locked
      <3>2. w \in Worker /\ w.pc = "send" /\ w.acct = session.account
            /\ w.snap.chain = settings.chain
        BY <1>0, <3>1 DEF Worker, WorkerPcs, Hold
      <3>3. Advance("receive", w)
        BY <1>4, <2>1 DEF ReceiveChain
      <3> HIDE DEF w
      <3>4. WorkersInv'
        BY <1>4, <3>1, <3>2, <3>3, WorkerAdvances
        DEF ReceiveChain, OnlyWorker, ledger, WorkerTyped, HasHash
      <3> QED BY <1>4, <3>4, HoldFrame, OnlyWorkerTyped DEF ReceiveChain, OnlyWorker, hold
    <2> QED BY <1>2, <1>4, <2>1 DEF ReceiveChain
  <1>5. CASE ReceiveSign
    <2> DEFINE n == Len(blocks) + 1
               w == [receive EXCEPT !.pc = "publish", !.hash = n]
    <2>1. receive.acct \in Accounts /\ receive.snap.chain \in Chains
      BY <1>0, <1>5 DEF ReceiveSign, At, WorkerTyped, receive
    <2>2. /\ LedgerOK' /\ RecordsTyped' /\ Len(blocks') = Len(blocks) + 1
      BY <1>5, <2>1, Signed DEF ReceiveSign, ghosts, receive
    <2>3. w = [receive EXCEPT !.pc = "publish", !.hash = n]
      OBVIOUS
    <2>4. Advance("receive", w) /\ n \in Nat
      BY <1>0, <1>5 DEF ReceiveSign
    <2> HIDE DEF w
    <2>6. w \in Worker /\ w.pc = "publish" /\ w.hash = Len(blocks) + 1
      <3> HIDE DEF n
      <3>1. w \in Worker /\ w.pc = "publish" /\ w.snap = receive.snap /\ w.hash = n
        BY <1>0, <2>3, <2>4 DEF Worker, WorkerPcs
      <3> QED BY <3>1 DEF n
    <2>5. WorkersInv'
      BY <1>0, <2>2, <2>4, <2>6, WorkerSigns
    <2> QED BY <1>5, <2>2, <2>5, EnvFrame, HoldFrame, CallsFrame, GhostsFrame
            DEF ReceiveSign, ghosts
  <1>6. CASE ReceiveFails
    BY <1>2, <1>6 DEF ReceiveFails
  <1>7. CASE ReceivePublish
    <2>1. /\ EnvOK' /\ CallsInv' /\ RecordsTyped' /\ LedgerOK' /\ GhostsOK'
          /\ holdCounter' = holdCounter /\ blocks' = blocks
      BY <1>7, Submitted DEF ReceivePublish, At
    <2> QED BY <1>7, <2>1, HoldFrame, WorkerEnds DEF ReceivePublish, hold
  <1> QED BY <1>1, <1>3, <1>4, <1>5, <1>6, <1>7 DEF ReceiveStep

LEMMA ReconcileTyped ==
  ASSUME TypeInv,
         ReconcileStep \/ (\E k \in Keys : ReconcileWalletConnectPublication(k))
  PROVE  TypeInv'
  <1> USE DEF TypeInv
  <1>1. ASSUME NEW k \in Keys, ReconcileWalletConnectPublication(k) PROVE TypeInv'
    <2> DEFINE h == journal[k].hash
               r == blocks[h].req
               w == [Idle EXCEPT !.pc = "query", !.client = node.conn, !.hash = h,
                                 !.snap.req = r]
    <2>1. h \in 1..Len(blocks) /\ node.conn \in Nat /\ Len(blocks) \in Nat
      <3>1. k \in DOMAIN journal
        BY <1>1 DEF ReconcileWalletConnectPublication
      <3>2. h \in 1..Len(blocks)
        BY <3>1 DEF RecordsTyped
      <3> QED BY <3>2 DEF EnvOK, LedgerOK
    <2>2. r \in Requests \cup {NoRequest}
      <3>1. blocks[h] \in Block
        BY <2>1 DEF LedgerOK
      <3> QED BY <3>1 DEF Block
    <2>3. Begin("reconcile", w)
      BY <1>1 DEF ReconcileWalletConnectPublication
    <2> HIDE DEF h, r
    <2>4. w \in Worker /\ w.pc = "query" /\ w.hash = h
      <3> DEFINE u == [Idle EXCEPT !.client = node.conn]
                 v == [u EXCEPT !.pc = "query", !.hash = h]
      <3>0. u \in Worker /\ v = [u EXCEPT !.pc = "query", !.hash = h]
        BY <2>1, Blanks DEF Worker
      <3>4. w = [[u EXCEPT !.pc = "query", !.hash = h] EXCEPT !.snap.req = r]
        BY Blanks DEF Worker
      <3> HIDE DEF u, v
      <3>1. v \in Worker /\ v.pc = "query" /\ v.hash = h
        <4>1. h \in Nat
          BY <2>1
        <4> QED BY <3>0, <4>1 DEF Worker, WorkerPcs
      <3>2. w = [v EXCEPT !.snap.req = r]
        BY <3>0, <3>4
      <3>3. [v EXCEPT !.snap.req = r] \in Worker
        BY <3>1, <2>2 DEF Worker, Hold
      <3>5. [v EXCEPT !.snap.req = r].pc = "query" /\ [v EXCEPT !.snap.req = r].hash = h
        BY <3>1 DEF Worker
      <3> QED BY <3>2, <3>3, <3>5
    <2> HIDE DEF w
    <2>5. WorkersInv'
      BY <1>1, <2>1, <2>3, <2>4, WorkerBegins
      DEF ReconcileWalletConnectPublication, ledger, WorkerTyped
    <2>6. GhostsOK'
      BY <1>1, ConsentTyped DEF ReconcileWalletConnectPublication
    <2> QED BY <1>1, <2>5, <2>6, EnvFrame, HoldFrame, CallsFrame, RecordsFrame, LedgerFrame
            DEF ReconcileWalletConnectPublication, ledger
  <1>2. ASSUME OnlyWorker, UNCHANGED <<pending, publishingHold>>, End("reconcile")
        PROVE  TypeInv'
    BY <1>2, HoldFrame, WorkerEnds, OnlyWorkerTyped DEF OnlyWorker, hold, ledger
  <1>3. ASSUME OnlyWorker, UNCHANGED <<pending, publishingHold>>, NEW pc \in {"mark", "publish"},
               At("reconcile", "query"), Step("reconcile", pc)
        PROVE  TypeInv'
    <2>1. WorkersInv'
      BY <1>3, WorkerSteps DEF OnlyWorker, ledger, At, HasHash, WorkerPcs
    <2> QED BY <1>3, <2>1, HoldFrame, OnlyWorkerTyped DEF OnlyWorker, hold
  <1>4. CASE ReconcileFound
    BY <1>3, <1>4 DEF ReconcileFound
  <1>5. CASE ReconcileNotFound
    BY <1>2, <1>3, <1>5 DEF ReconcileNotFound
  <1>6. CASE ReconcileQueryFails
    BY <1>2, <1>6 DEF ReconcileQueryFails
  <1>7. CASE Rebroadcast
    <2>1. /\ EnvOK' /\ CallsInv' /\ RecordsTyped' /\ LedgerOK' /\ GhostsOK'
          /\ holdCounter' = holdCounter /\ blocks' = blocks
      BY <1>7, Submitted DEF Rebroadcast, At
    <2>2. WorkersInv'
      BY <1>7, <2>1, WorkerSteps DEF Rebroadcast, At, HasHash, WorkerPcs
    <2> QED BY <1>7, <2>1, <2>2, HoldFrame DEF Rebroadcast, hold
  <1>8. CASE RebroadcastFails
    <2>1. /\ EnvOK' /\ CallsInv' /\ RecordsTyped' /\ LedgerOK' /\ GhostsOK'
          /\ holdCounter' = holdCounter /\ blocks' = blocks
      BY <1>8, Submitted DEF RebroadcastFails, At
    <2> QED BY <1>8, <2>1, HoldFrame, WorkerEnds DEF RebroadcastFails, hold
  <1>9. CASE FinishReconcile
    <2>1. RecordsTyped'
      BY <1>9, MarkedTyped DEF FinishReconcile, ledger
    <2>2. WorkersInv'
      BY <1>9, WorkerEnds DEF FinishReconcile, ledger
    <2> QED BY <1>9, <2>1, <2>2, EnvFrame, HoldFrame, CallsFrame, LedgerFrame, GhostsFrame
            DEF FinishReconcile, ghosts
  <1> QED BY <1>1, <1>4, <1>5, <1>6, <1>7, <1>8, <1>9 DEF ReconcileStep

LEMMA AckTyped ==
  ASSUME TypeInv, NEW k \in Keys, AckWalletConnectResult(k) PROVE TypeInv'
  <1>1. RecordsTyped'
    BY DEF TypeInv, AckWalletConnectResult, DeletePublished, CanDelete, Restrict, RecordsTyped,
           JournalOK, ledger
  <1>2. LedgerOK'
    BY DEF TypeInv, AckWalletConnectResult, CanDelete, RecordsTyped, LedgerOK, ledger
  <1> QED BY <1>1, <1>2, EnvFrame, HoldFrame, CallsFrame, WorkersFrame, GhostsFrame
          DEF TypeInv, AckWalletConnectResult, ledger

-----------------------------------------------------------------------------
LEMMA StutterTyped == ASSUME TypeInv, UNCHANGED vars PROVE TypeInv'
  BY EnvFrame, HoldFrame, CallsFrame, WorkersFrame, RecordsFrame, LedgerFrame, GhostsFrame
  DEF TypeInv, vars, ledger, ghosts

LEMMA InitTyped == ASSUME Init PROVE TypeInv
  <1>1. EnvOK
    <2>1. session \in [account : Accounts \cup {NoAccount}, gen : Nat]
      BY DEF Init
    <2>2. node \in [conn : Nat, chain : Chains \cup {NoChain}]
      BY DEF Init
    <2>3. clearDue \in BOOLEAN
      BY Zenon DEF Init
    <2>4. settings \in [chain : Chains, optIn : BOOLEAN] /\ restarts \in Nat
      BY ConstantsAssumption DEF Init
    <2> QED BY <2>1, <2>2, <2>3, <2>4 DEF EnvOK
  <1>2. HoldInv /\ CallsInv
    BY Blanks DEF Init, HoldInv, HoldOK, CallsInv, CallTyped
  <1>3. WorkersInv
    BY Blanks DEF Init, WorkersInv, WorkersOK, WorkerTyped, HasHash
  <1>4. RecordsTyped
    BY DEF Init, EmptyJournal, RecordsTyped, JournalOK
  <1>5. LedgerOK
    BY DEF Init, LedgerOK
  <1>6. GhostsOK
    BY <1>1 DEF Init, GhostsOK, EnvOK
  <1> QED BY <1>1, <1>2, <1>3, <1>4, <1>5, <1>6 DEF TypeInv

LEMMA NextTyped == ASSUME TypeInv, [Next]_vars PROVE TypeInv'
  BY EnvironmentTyped, PrepareTyped, ConfirmPublishTyped, ConfirmStepTyped, CancelTyped,
     ReceiveTyped, ReconcileTyped, AckTyped, StutterTyped DEF Next

\* Types hold at every step of every instance, together with which fields are
\* meaningful at each point of a prepare, confirm, receive or reconcile.
THEOREM TypeInvariant == Spec => []TypeInv
  BY InitTyped, NextTyped, PTL DEF Spec

\* Every variable of the transaction service stays in its type.
THEOREM TypeCorrect == Spec => []TypeOK
  <1>1. TypeInv => TypeOK
    BY DEF TypeInv, TypeOK, HoldInv, CallsInv, WorkersInv, RecordsTyped
  <1> QED BY <1>1, TypeInvariant, PTL

-----------------------------------------------------------------------------
(* How a publication moves, as the later layers see it. *)

LEMMA ConfirmEnds ==
  ASSUME WorkersOK, Release PROVE confirm' = Idle /\ publishingHold' = 0
  BY DEF WorkersOK, Release, End, confirm

LEMMA ConfirmAdvances ==
  ASSUME WorkersOK, NEW pc \in WorkerPcs, Step("confirm", pc)
  PROVE  /\ confirm'.pc = pc /\ confirm'.snap = confirm.snap
         /\ confirm'.asked = confirm.asked /\ confirm'.hash = confirm.hash
  BY DEF WorkersOK, Step, Advance, confirm, Worker

\* A confirm ends, or goes on with the hold it snapshotted, latching it first.
ConfirmGoesOn ==
  /\ confirm.pc # "idle" /\ confirm'.pc \in WorkerPcs \ {"idle", "latch"}
  /\ confirm'.snap = confirm.snap /\ confirm'.asked = confirm.asked
  /\ UNCHANGED pending
  /\ IF confirm.pc = "latch"
     THEN pending.id = confirm.snap.id /\ publishingHold' = confirm.snap.id
     ELSE UNCHANGED publishingHold

ConfirmStops == confirm' = Idle /\ publishingHold' = 0 /\ pending' \in {pending, NoHold}

LEMMA ConfirmMoves ==
  ASSUME TypeInv, ConfirmStep
  PROVE  UNCHANGED <<holdCounter, calls, previews, cancelled>> /\ (ConfirmGoesOn \/ ConfirmStops)
  <1>0. WorkersOK /\ confirm \in Worker
    BY DEF TypeInv, WorkersInv, WorkersOK, confirm
  <1>1. GiveUp => ConfirmStops
    BY <1>0, ConfirmEnds DEF GiveUp, ClearIf, ConfirmStops
  <1>2. Refuse => ConfirmStops
    BY <1>0, ConfirmEnds DEF Refuse, ConfirmStops
  <1>3. ASSUME NEW pc \in WorkerPcs \ {"idle", "latch"}, Step("confirm", pc),
               confirm.pc \notin {"idle", "latch"}, UNCHANGED <<pending, publishingHold>>
        PROVE  ConfirmGoesOn
    BY <1>0, <1>3, ConfirmAdvances DEF ConfirmGoesOn
  <1>4. CASE LatchHold
    <2>1. CASE pending.id = confirm.snap.id
      BY <1>0, <1>4, <2>1, ConfirmAdvances
      DEF LatchHold, At, ConfirmGoesOn, OnlyWorker, ghosts, WorkerPcs, confirm
    <2>2. CASE pending.id # confirm.snap.id
      BY <1>0, <1>4, <2>2, ConfirmEnds DEF LatchHold, ConfirmStops, OnlyWorker, ghosts
    <2> QED BY <2>1, <2>2
  <1>5. CASE CheckSession
    BY <1>1, <1>3, <1>5 DEF CheckSession, At, OnlyWorker, ghosts, WorkerPcs, confirm
  <1>6. CASE ReadKey
    <2>1. CASE Locked \/ node.chain # confirm.snap.chain
      BY <1>1, <1>2, <1>6, <2>1 DEF ReadKey, OnlyWorker, ghosts
    <2>2. CASE ~Locked /\ node.chain = confirm.snap.chain
      <3> DEFINE w == [confirm EXCEPT !.pc = "pow", !.acct = session.account,
                                      !.client = node.conn]
      <3>1. w.pc = "pow" /\ w.snap = confirm.snap /\ w.asked = confirm.asked
        BY <1>0 DEF Worker
      <3>2. Advance("confirm", w) /\ confirm.pc = "key" /\ UNCHANGED <<pending, publishingHold>>
        BY <1>6, <2>2 DEF ReadKey, At, confirm
      <3> HIDE DEF w
      <3>3. confirm' = w
        BY <1>0, <3>2 DEF Advance, WorkersOK, confirm
      <3> QED BY <1>6, <3>1, <3>2, <3>3
              DEF ReadKey, ConfirmGoesOn, OnlyWorker, ghosts, WorkerPcs
    <2> QED BY <2>1, <2>2
  <1>7. CASE PrepareBlock
    <2> DEFINE w == [confirm EXCEPT !.pc = "recheck", !.hash = Len(blocks) + 1]
    <2>1. w.pc = "recheck" /\ w.snap = confirm.snap /\ w.asked = confirm.asked
      BY <1>0 DEF Worker
    <2>2. Advance("confirm", w) /\ confirm.pc = "pow"
      BY <1>7 DEF PrepareBlock, At, confirm
    <2> HIDE DEF w
    <2>3. confirm' = w
      BY <1>0, <2>2 DEF Advance, WorkersOK, confirm
    <2> QED BY <1>7, <2>1, <2>2, <2>3
            DEF PrepareBlock, ConfirmGoesOn, hold, WorkerPcs
  <1>8. CASE PrepareBlockFails \/ JournalFails
    BY <1>1, <1>8 DEF PrepareBlockFails, JournalFails, OnlyWorker, ghosts
  <1>9. CASE RecheckBuilt
    <2> DEFINE pc == IF confirm.snap.req = NoRequest THEN "publish" ELSE "journal"
    <2>1. CASE Step("confirm", pc) /\ UNCHANGED <<pending, publishingHold>>
      BY <1>3, <1>9, <2>1 DEF RecheckBuilt, At, OnlyWorker, ghosts, WorkerPcs, confirm
    <2> QED BY <1>1, <1>2, <1>9, <2>1 DEF RecheckBuilt, OnlyWorker, ghosts
  <1>10. CASE JournalSigned
    BY <1>3, <1>10 DEF JournalSigned, At, hold, ghosts, WorkerPcs, confirm
  <1>11. CASE Publish
    BY <1>3, <1>11 DEF Publish, At, OnlySubmit, WorkerPcs, confirm
  <1>12. CASE PublishFails
    BY <1>1, <1>12 DEF PublishFails, OnlySubmit
  <1>13. CASE FinishConfirm
    BY <1>1, <1>13 DEF FinishConfirm, ghosts
  <1> QED BY <1>4, <1>5, <1>6, <1>7, <1>8, <1>9, <1>10, <1>11, <1>12, <1>13 DEF ConfirmStep

\* A receive or a reconcile leaves the confirm and the hold alone.
OtherPublication ==
  \/ Receive \/ ReceiveStep
  \/ \E k \in Keys : ReconcileWalletConnectPublication(k)
  \/ ReconcileStep

LEMMA OthersLeaveTheHold ==
  ASSUME WorkersOK, OtherPublication
  PROVE  /\ UNCHANGED <<hold, calls, previews, cancelled>>
         /\ confirm' = confirm
  <1>1. ASSUME NEW op \in {"receive", "reconcile"}, NEW w, worker' = [worker EXCEPT ![op] = w]
        PROVE  confirm' = confirm
    BY <1>1 DEF WorkersOK, confirm
  <1>2. CASE Receive \/ ReceiveStep
    <2>1. confirm' = confirm
      BY <1>1, <1>2 DEF Receive, ReceiveStep, ReceiveGuard, ReceiveChain, ReceiveSign,
         ReceiveFails, ReceivePublish, Begin, Step, Advance, End
    <2> QED BY <1>2, <2>1 DEF Receive, ReceiveStep, ReceiveGuard, ReceiveChain, ReceiveSign,
         ReceiveFails, ReceivePublish, OnlyWorker, OnlySubmit, hold, ghosts
  <1>3. CASE ReconcileStep \/ (\E k \in Keys : ReconcileWalletConnectPublication(k))
    <2>1. confirm' = confirm
      BY <1>1, <1>3 DEF ReconcileStep, ReconcileWalletConnectPublication, ReconcileFound,
         ReconcileNotFound, ReconcileQueryFails, Rebroadcast, RebroadcastFails,
         FinishReconcile, Begin, Step, Advance, End
    <2> QED BY <1>3, <2>1 DEF ReconcileStep, ReconcileWalletConnectPublication,
         ReconcileFound, ReconcileNotFound, ReconcileQueryFails, Rebroadcast,
         RebroadcastFails, FinishReconcile, OnlyWorker, OnlySubmit, hold, ghosts
  <1> QED BY <1>2, <1>3 DEF OtherPublication

-----------------------------------------------------------------------------
(* Exactly one of cancel and publish wins. *)

LEMMA CancelFrame ==
  ASSUME CancelInv, UNCHANGED <<hold, cancelled>>, confirm' = confirm PROVE CancelInv'
  BY DEF CancelInv, Latched, hold, confirm

LEMMA CancelEnvironment ==
  ASSUME TypeInv, CancelInv, Environment PROVE CancelInv'
  <1>1. CASE ClearPending
    <2>1. pending' = NoHold /\ UNCHANGED <<holdCounter, publishingHold, cancelled, worker>>
      BY <1>1 DEF ClearPending, publishing, ghosts
    <2>2. holdCounter \in Nat
      BY DEF TypeInv, HoldInv, HoldOK
    <2> QED BY <2>1, <2>2, Blanks DEF CancelInv, Latched, confirm
  <1>2. CASE Restart
    <2>1. /\ pending' = NoHold /\ holdCounter' = 0 /\ cancelled' = {}
          /\ worker' = [op \in Ops |-> Idle]
      BY <1>2 DEF Restart
    <2> QED BY <2>1, Blanks DEF CancelInv, Latched, confirm
  <1>3. CASE UNCHANGED <<hold, publishing, cancelled>>
    BY <1>3, CancelFrame DEF publishing, confirm
  <1> QED BY <1>1, <1>2, <1>3 DEF Environment, Unlock, Lock, SelectAccount, ChangeSession,
             InstallConnection, Disconnect, SetChainID, SetAllowMainnetSend, ghosts

LEMMA CancelPrepare ==
  ASSUME TypeInv, CancelInv, NEW c \in Callers, PrepareStep(c) PROVE CancelInv'
  <1>0. /\ holdCounter \in Nat /\ pending.id \in Nat /\ pending \in Hold
        /\ calls[c].hold \in Hold
    BY DEF TypeInv, HoldInv, HoldOK, Hold, CallsInv, Call
  <1>1. CASE HoldPending(c)
    <2>1. /\ holdCounter' = holdCounter + 1 /\ pending'.id = holdCounter + 1
          /\ UNCHANGED <<publishingHold, cancelled, worker>>
      BY <1>0, <1>1 DEF HoldPending, publishing, Hold
    <2>2. pending'.id \notin cancelled
      BY <1>0, <2>1 DEF CancelInv
    <2> QED BY <1>0, <2>1, <2>2 DEF CancelInv, Latched, confirm
  <1>2. CASE AttachWalletConnectIdentity(c)
    <2>1. /\ pending'.id = pending.id
          /\ UNCHANGED <<holdCounter, publishingHold, cancelled, worker>>
      BY <1>0, <1>2 DEF AttachWalletConnectIdentity, publishing, Hold
    <2> QED BY <2>1 DEF CancelInv, Latched, confirm
  <1>3. CASE OnlyCalls
    BY <1>3, CancelFrame DEF OnlyCalls, publishing, ghosts, confirm
  <1> QED BY <1>1, <1>2, <1>3 DEF PrepareStep, PrepareSend, LookupWalletConnectPublication,
             WalletConnectBridgeTemplate, PrepareCall, ReadSigner, RecheckGen, PrepareFails

LEMMA CancelConfirm ==
  ASSUME TypeInv, CancelInv, ConfirmStep PROVE CancelInv'
  <1>0. holdCounter \in Nat
    BY DEF TypeInv, HoldInv, HoldOK
  <1>1. CASE ConfirmGoesOn
    <2>1. confirm.snap.id \in 1..holdCounter
      BY <1>1 DEF CancelInv, ConfirmGoesOn
    <2>2. publishingHold' = confirm.snap.id /\ confirm.snap.id \notin cancelled
      BY <1>1 DEF CancelInv, ConfirmGoesOn, Latched
    <2> QED BY <1>1, <2>1, <2>2, ConfirmMoves DEF CancelInv, ConfirmGoesOn, Latched
  <1>2. CASE ConfirmStops
    <2>1. UNCHANGED <<holdCounter, cancelled>> /\ confirm'.pc = "idle"
      BY <1>2, ConfirmMoves, Blanks DEF ConfirmStops
    <2>2. pending'.id <= holdCounter /\ pending'.id \notin cancelled
      BY <1>0, <1>2, Blanks DEF CancelInv, ConfirmStops
    <2> QED BY <2>1, <2>2 DEF CancelInv, Latched
  <1> QED BY <1>1, <1>2, ConfirmMoves

LEMMA CancelCancel ==
  ASSUME TypeInv, CancelInv, NEW id, CancelPending(id) PROVE CancelInv'
  <1>0. holdCounter \in Nat /\ pending.id \in Nat
    BY DEF TypeInv, HoldInv, HoldOK, Hold
  <1>1. /\ pending' = NoHold /\ cancelled' = cancelled \cup ({pending.id} \ {0})
        /\ UNCHANGED <<holdCounter, publishingHold, worker>>
    BY DEF CancelPending, publishing
  <1>2. cancelled' \subseteq 1..holdCounter /\ 0 \notin cancelled'
    <2>1. pending.id \in {0} \cup 1..holdCounter
      BY <1>0 DEF CancelInv
    <2>2. {pending.id} \ {0} \subseteq 1..holdCounter
      BY <2>1
    <2>3. cancelled \subseteq 1..holdCounter
      BY DEF CancelInv
    <2>4. cancelled' \subseteq 1..holdCounter
      BY <1>1, <2>2, <2>3
    <2>5. 0 \notin 1..holdCounter
      BY <1>0
    <2> QED BY <2>4, <2>5
  <1>3. ASSUME Latched PROVE confirm.snap.id # pending.id
    \* The latch is on the snapshot, so neither 0 nor its id may be cancelled.
    <2>1. confirm.pc # "idle" /\ publishingHold = confirm.snap.id /\ publishingHold # 0
      BY <1>0, <1>3 DEF CancelInv, Latched
    <2> QED BY <2>1 DEF CancelPending
  <1> QED BY <1>0, <1>1, <1>2, <1>3, Blanks DEF CancelInv, Latched, confirm

LEMMA CancelBegins ==
  ASSUME TypeInv, CancelInv, NEW id, ConfirmPublish(id) PROVE CancelInv'
  <1> DEFINE w == [Idle EXCEPT !.pc = "latch", !.asked = id, !.snap = pending]
  <1>1. w.pc = "latch" /\ w.snap = pending
    BY Blanks DEF Worker
  <1>2. worker' = [worker EXCEPT !["confirm"] = w] /\ pending.id # 0
    BY DEF ConfirmPublish, Begin
  <1> HIDE DEF w
  <1>3. confirm' = w /\ UNCHANGED <<hold, cancelled>>
    BY <1>2 DEF TypeInv, WorkersInv, WorkersOK, ConfirmPublish, ghosts, confirm
  <1>4. pending.id \in 1..holdCounter
    BY <1>2 DEF TypeInv, HoldInv, HoldOK, Hold, CancelInv
  <1> QED BY <1>1, <1>3, <1>4 DEF CancelInv, Latched, hold

LEMMA CancelNext == ASSUME TypeInv, CancelInv, [Next]_vars PROVE CancelInv'
  <1>1. CASE OtherPublication
    BY <1>1, OthersLeaveTheHold, CancelFrame DEF TypeInv, WorkersInv
  <1>2. ASSUME NEW k \in Keys, AckWalletConnectResult(k) PROVE CancelInv'
    BY <1>2, CancelFrame DEF AckWalletConnectResult, publishing, confirm
  <1>3. CASE UNCHANGED vars
    BY <1>3, CancelFrame DEF vars, publishing, ghosts, confirm
  <1> QED BY <1>1, <1>2, <1>3, CancelEnvironment, CancelPrepare, CancelConfirm, CancelCancel,
             CancelBegins DEF Next, OtherPublication

LEMMA CancelInvariant == Spec => []CancelInv
  <1>1. Init => CancelInv
    BY Blanks DEF Init, CancelInv, Latched, confirm
  <1> QED BY <1>1, CancelNext, TypeInvariant, PTL DEF Spec

\* Exactly one of cancel and publish wins, in every interleaving of any number
\* of prepares, cancels, session changes and confirms: once CancelPending has
\* discarded a hold, no confirm of it goes past the latch.
THEOREM CancelOrPublish == Spec => []CancelWins
  <1>1. CancelInv => CancelWins
    BY DEF CancelInv, CancelWins
  <1> QED BY <1>1, CancelInvariant, PTL

-----------------------------------------------------------------------------
(* Confirm-what-you-sign. *)

LEMMA PreviewFrame ==
  ASSUME PreviewInv, UNCHANGED <<hold, calls, previews>>, confirm' = confirm,
         confirm.pc \in HasHash => blocks'[confirm.hash] = blocks[confirm.hash]
  PROVE  PreviewInv'
  <1>1. /\ (confirm.pc \in HasHash)' =>
             blocks'[confirm'.hash].chain = confirm'.snap.chain
        /\ (confirm.pc \in {"journal", "publish"})' =>
             Matches(blocks'[confirm'.hash], confirm'.snap)
    BY DEF PreviewInv, Matches, HasHash
  <1>2. /\ DOMAIN previews' \subseteq 1..holdCounter'
        /\ (pending.id \in DOMAIN previews => previews[pending.id] = PreviewOf(pending))'
    BY DEF PreviewInv, hold, PreviewOf
  <1>3. ASSUME NEW c \in Callers, (calls[c].pc = "attach")'
        PROVE  /\ (calls[c].hold.id \in 1..holdCounter)'
               /\ (pending.id = calls[c].hold.id => PreviewOf(pending) = PreviewOf(calls[c].hold))'
    BY <1>3 DEF PreviewInv, hold, PreviewOf
  <1>4. (confirm.pc # "idle")' =>
          /\ confirm'.asked \in DOMAIN previews'
          /\ previews'[confirm'.asked] = PreviewOf(confirm'.snap)
    BY DEF PreviewInv
  <1> QED BY <1>1, <1>2, <1>3, <1>4 DEF PreviewInv

\* A confirm that is not in progress asks nothing of the previews.
LEMMA PreviewEnvironment ==
  ASSUME TypeInv, PreviewInv, CancelInv, Environment PROVE PreviewInv'
  <1>0. 0 \notin DOMAIN previews /\ holdCounter \in Nat
    BY DEF TypeInv, HoldInv, HoldOK, PreviewInv
  <1>1. CASE ClearPending
    <2>1. /\ pending' = NoHold /\ UNCHANGED <<holdCounter, previews, worker, calls, blocks>>
      BY <1>1 DEF ClearPending, publishing, ghosts, ledger
    <2> QED BY <1>0, <2>1, Blanks DEF PreviewInv, confirm, Matches, PreviewOf
  <1>2. CASE Restart
    <2>1. /\ pending' = NoHold /\ previews' = [h \in {} |-> {}]
          /\ calls' = [c \in Callers |-> NoCall] /\ confirm' = Idle
      BY <1>2 DEF Restart, confirm
    <2> QED BY <2>1, Blanks DEF PreviewInv, HasHash
  <1>3. CASE UNCHANGED <<hold, calls, publishing, ledger, previews>>
    BY <1>3, PreviewFrame DEF publishing, confirm, ledger
  <1> QED BY <1>1, <1>2, <1>3 DEF Environment, Unlock, Lock, SelectAccount, ChangeSession,
             InstallConnection, Disconnect, SetChainID, SetAllowMainnetSend, ghosts

LEMMA PreviewPrepare ==
  ASSUME TypeInv, PreviewInv, CancelInv, NEW c \in Callers, PrepareStep(c) PROVE PreviewInv'
  <1>0. /\ holdCounter \in Nat /\ pending.id \in Nat /\ pending \in Hold
        /\ calls \in [Callers -> Call] /\ calls[c].hold \in Hold
        /\ calls[c] \in Call
    BY DEF TypeInv, HoldInv, HoldOK, Hold, CallsInv, Call
  <1>1. CASE HoldPending(c)
    <2> DEFINE h == [calls[c].hold EXCEPT !.id = holdCounter + 1, !.req = NoRequest]
    <2>1. /\ h.id = holdCounter + 1 /\ PreviewOf(h) = PreviewOf(calls[c].hold)
      BY <1>0 DEF Hold, PreviewOf
    <2>2. /\ holdCounter' = holdCounter + 1 /\ pending' = h
          /\ UNCHANGED <<worker, blocks>>
      BY <1>1 DEF HoldPending, publishing, ledger
    <2>3. /\ DOMAIN previews' \subseteq 1..holdCounter'
          /\ h.id \in DOMAIN previews' => previews'[h.id] = PreviewOf(h)
          /\ \A i \in DOMAIN previews : i \in DOMAIN previews' /\ previews'[i] = previews[i]
      <3>1. DOMAIN previews \subseteq 1..holdCounter /\ h.id \notin 1..holdCounter
        BY <1>0, <2>1 DEF PreviewInv
      <3>2. \/ previews' = previews
            \/ previews' = [x \in DOMAIN previews \cup {h.id} |->
                              IF x = h.id THEN PreviewOf(h) ELSE previews[x]]
        BY <1>1 DEF HoldPending
      <3>3. 1..holdCounter \subseteq 1..holdCounter' /\ h.id \in 1..holdCounter'
        BY <1>0, <2>1, <2>2
      <3> HIDE DEF h
      <3> QED BY <3>1, <3>2, <3>3
    <2>4. ASSUME NEW d \in Callers, (calls[d].pc = "attach")'
          PROVE  /\ calls'[d].hold.id \in 1..holdCounter'
                 /\ pending'.id = calls'[d].hold.id =>
                      PreviewOf(pending') = PreviewOf(calls'[d].hold)
      <3>1. CASE d = c
        <4>1. calls[c].hold.req # NoRequest
          BY <1>0, <1>1, <2>4, <3>1, Blanks DEF HoldPending, Return
        <4>2. calls'[c].hold = [calls[c].hold EXCEPT !.id = h.id]
          BY <1>0, <1>1, <4>1 DEF HoldPending, Call
        <4>3. calls'[c].hold.id = holdCounter + 1
          BY <1>0, <2>1, <4>2 DEF Hold
        <4>4. PreviewOf(calls'[c].hold) = PreviewOf(calls[c].hold)
          BY <1>0, <4>2 DEF Hold, PreviewOf
        <4>5. holdCounter + 1 \in 1..holdCounter'
          BY <1>0, <2>2
        <4>6. PreviewOf(pending') = PreviewOf(calls[c].hold)
          BY <2>1, <2>2
        <4> QED BY <3>1, <4>3, <4>4, <4>5, <4>6
      <3>2. CASE d # c
        <4>1. calls'[d] = calls[d]
          BY <1>0, <1>1, <3>2 DEF HoldPending, Return
        <4>2. calls[d].hold.id \in 1..holdCounter
          BY <2>4, <4>1 DEF PreviewInv
        <4>3. calls[d].hold.id \in 1..holdCounter' /\ calls[d].hold.id # holdCounter + 1
          BY <1>0, <2>2, <4>2
        <4> QED BY <2>1, <2>2, <4>1, <4>3
      <3> QED BY <3>1, <3>2
    <2> HIDE DEF h
    <2> QED BY <2>1, <2>2, <2>3, <2>4 DEF PreviewInv, confirm, Matches
  <1>2. CASE AttachWalletConnectIdentity(c)
    <2> DEFINE h == calls[c].hold
    <2>0. calls[c].pc = "attach" /\ calls' = [calls EXCEPT ![c] = NoCall]
          /\ UNCHANGED <<holdCounter, worker, blocks>>
      BY <1>2 DEF AttachWalletConnectIdentity, Return, publishing, ledger
    <2>1. h.id \in 1..holdCounter /\ (pending.id = h.id => PreviewOf(pending) = PreviewOf(h))
      BY <2>0 DEF PreviewInv
    <2>2. pending'.id = pending.id /\ PreviewOf(pending') = PreviewOf(pending)
      BY <1>0, <1>2 DEF AttachWalletConnectIdentity, Hold, PreviewOf
    <2>3. \A d \in Callers : calls'[d].pc = "attach" =>
            calls'[d] = calls[d] /\ calls[d].pc = "attach"
      BY <1>0, <2>0, Blanks
    <2>4. /\ DOMAIN previews' \subseteq 1..holdCounter
          /\ \A i \in DOMAIN previews : i \in DOMAIN previews' /\ previews'[i] = previews[i]
          /\ pending.id \in DOMAIN previews' => previews'[pending.id] = PreviewOf(pending)
      <3>1. CASE pending.id = h.id
        <4>1. previews' = [x \in DOMAIN previews \cup {h.id} |->
                             IF x = h.id THEN PreviewOf(h) ELSE previews[x]]
          BY <1>2, <3>1 DEF AttachWalletConnectIdentity
        <4>2. /\ DOMAIN previews \subseteq 1..holdCounter
              /\ h.id \in DOMAIN previews => previews[h.id] = PreviewOf(h)
          BY <2>1, <3>1 DEF PreviewInv
        <4>3. PreviewOf(pending) = PreviewOf(h)
          BY <2>1, <3>1
        <4> HIDE DEF h
        <4> QED BY <2>1, <3>1, <4>1, <4>2, <4>3
      <3>2. CASE pending.id # h.id
        BY <1>2, <3>2 DEF AttachWalletConnectIdentity, PreviewInv
      <3> QED BY <3>1, <3>2
    <2> HIDE DEF h
    <2> QED BY <2>0, <2>2, <2>3, <2>4 DEF PreviewInv, confirm, Matches
  <1>3. ASSUME OnlyCalls, \A d \in Callers : (calls[d].pc = "attach")' => calls'[d] = calls[d]
        PROVE  PreviewInv'
    <2>1. UNCHANGED <<hold, previews, worker, blocks>>
      BY <1>3 DEF OnlyCalls, publishing, ghosts, ledger
    <2> QED BY <1>3, <2>1 DEF PreviewInv, hold, confirm, Matches
  <1>4. ASSUME NEW x, calls' = [calls EXCEPT ![c] = x], x.pc # "attach"
        PROVE  \A d \in Callers : (calls[d].pc = "attach")' => calls'[d] = calls[d]
    BY <1>0, <1>4
  <1>5. CASE \E e \in Sends : PrepareSend(c, e)
    BY <1>3, <1>4, <1>5 DEF PrepareSend
  <1>6. CASE \E r \in Requests : LookupWalletConnectPublication(c, r)
    BY <1>3, <1>4, <1>6 DEF LookupWalletConnectPublication
  <1>7. CASE PrepareCall(c)
    BY <1>0, <1>3, <1>7 DEF PrepareCall, Call
  <1>8. CASE ReadSigner(c)
    BY <1>0, <1>3, <1>8 DEF ReadSigner, Call
  <1>9. CASE WalletConnectBridgeTemplate(c) \/ RecheckGen(c)
    BY <1>0, <1>3, <1>9 DEF WalletConnectBridgeTemplate, RecheckGen, Goto, Call
  <1>10. CASE PrepareFails(c)
    BY <1>3, <1>4, <1>10, Blanks DEF PrepareFails, Return
  <1> QED BY <1>1, <1>2, <1>5, <1>6, <1>7, <1>8, <1>9, <1>10 DEF PrepareStep

LEMMA PreviewConfirm ==
  ASSUME TypeInv, PreviewInv, CancelInv, ConfirmStep PROVE PreviewInv'
  <1>0. /\ WorkersOK /\ confirm \in Worker /\ Len(blocks) \in Nat
        /\ WorkerTyped("confirm", confirm) /\ 0 \notin DOMAIN previews
    BY DEF TypeInv, WorkersInv, WorkersOK, confirm, LedgerOK, PreviewInv, HoldInv, HoldOK
  <1>1. /\ UNCHANGED <<holdCounter, calls, previews>>
        /\ ConfirmGoesOn \/ ConfirmStops
    BY ConfirmMoves
  <1>2. ASSUME pending' \in {pending, NoHold}
        PROVE  /\ (pending.id \in DOMAIN previews => previews[pending.id] = PreviewOf(pending))'
               /\ \A c \in Callers : (calls[c].pc = "attach")' =>
                    /\ (calls[c].hold.id \in 1..holdCounter)'
                    /\ (pending.id = calls[c].hold.id =>
                          PreviewOf(pending) = PreviewOf(calls[c].hold))'
    <2>1. CASE pending' = pending
      BY <1>1, <2>1 DEF PreviewInv, PreviewOf
    <2>2. CASE pending' = NoHold
      <3>1. \A c \in Callers : calls[c].pc = "attach" => calls[c].hold.id # 0
        BY DEF PreviewInv, TypeInv, HoldInv, HoldOK
      <3>2. pending'.id = 0
        BY <2>2, Blanks
      <3> QED BY <1>0, <1>1, <3>1, <3>2 DEF PreviewInv
    <2> QED BY <1>2, <2>1, <2>2
  <1>3. CASE ConfirmStops
    <2>1. confirm'.pc = "idle"
      BY <1>3, Blanks DEF ConfirmStops
    <2> QED BY <1>1, <1>2, <1>3, <2>1 DEF PreviewInv, ConfirmStops, HasHash
  <1>4. ASSUME ConfirmGoesOn,
               (confirm.pc \in HasHash)' => blocks'[confirm'.hash].chain = confirm.snap.chain,
               (confirm.pc \in {"journal", "publish"})' =>
                 Matches(blocks'[confirm'.hash], confirm.snap)
        PROVE  PreviewInv'
    <2>1. /\ confirm.pc # "idle" /\ confirm'.snap = confirm.snap
          /\ confirm'.asked = confirm.asked /\ pending' = pending
      BY <1>4 DEF ConfirmGoesOn
    <2>2. /\ confirm'.asked \in DOMAIN previews'
          /\ previews'[confirm'.asked] = PreviewOf(confirm'.snap)
      BY <1>1, <2>1 DEF PreviewInv
    <2>3. DOMAIN previews' \subseteq 1..holdCounter'
      BY <1>1 DEF PreviewInv
    <2> QED BY <1>1, <1>2, <1>4, <2>1, <2>2, <2>3 DEF PreviewInv
  <1>5. ASSUME ConfirmGoesOn, LatchHold \/ CheckSession \/ ReadKey PROVE PreviewInv'
    <2>1. confirm'.pc \notin HasHash
      <3>1. CASE LatchHold \/ CheckSession
        BY <1>0, <1>5, <3>1, ConfirmAdvances, ConfirmEnds, Blanks
        DEF LatchHold, CheckSession, GiveUp, HasHash, WorkerPcs
      <3>2. CASE ReadKey
        <4> DEFINE w == [confirm EXCEPT !.pc = "pow", !.acct = session.account,
                                        !.client = node.conn]
        <4>1. w.pc = "pow"
          BY <1>0 DEF Worker
        <4>2. CASE Advance("confirm", w)
          <5> HIDE DEF w
          <5> QED BY <1>0, <4>1, <4>2 DEF Advance, WorkersOK, confirm, HasHash
        <4>3. CASE Release
          BY <1>0, <4>3, ConfirmEnds, Blanks DEF HasHash
        <4> QED BY <3>2, <4>2, <4>3 DEF ReadKey, GiveUp, Refuse
      <3> QED BY <1>5, <3>1, <3>2
    <2> QED BY <1>4, <1>5, <2>1 DEF HasHash
  <1>6. ASSUME ConfirmGoesOn, PrepareBlock PROVE PreviewInv'
    <2> DEFINE w == [confirm EXCEPT !.pc = "recheck", !.hash = Len(blocks) + 1]
    <2>1. Settled(confirm.snap) /\ confirm.acct \in Accounts
      BY <1>0, <1>6 DEF PrepareBlock, At, WorkerTyped, confirm
    <2>2. blocks'[Len(blocks) + 1].chain = confirm.snap.chain
      <3>1. blocks'[Len(blocks) + 1] =
              [from |-> confirm.acct, effect |-> confirm.snap.effect,
               chain |-> confirm.snap.chain,
               prev |-> Frontier(confirm.snap.chain, confirm.acct), req |-> confirm.snap.req]
        BY <1>6, <2>1, Signed DEF PrepareBlock, Settled, confirm
      <3> QED BY <3>1
    <2>3. w.pc = "recheck" /\ w.hash = Len(blocks) + 1
      BY <1>0 DEF Worker
    <2>4. Advance("confirm", w)
      BY <1>6 DEF PrepareBlock
    <2> HIDE DEF w
    <2>5. confirm' = w
      BY <1>0, <2>4 DEF Advance, WorkersOK, confirm
    <2> QED BY <1>4, <1>6, <2>2, <2>3, <2>5
  <1>7. ASSUME ConfirmGoesOn, RecheckBuilt PROVE PreviewInv'
    <2> DEFINE pc == IF confirm.snap.req = NoRequest THEN "publish" ELSE "journal"
    <2>1. blocks' = blocks /\ confirm.pc = "recheck"
      BY <1>7 DEF RecheckBuilt, OnlyWorker, ledger, At, confirm
    <2>2. Step("confirm", pc) /\ Matches(blocks[confirm.hash], confirm.snap)
      BY <1>0, <1>7, ConfirmEnds, Blanks DEF RecheckBuilt, GiveUp, Refuse, ConfirmGoesOn
    <2>3. confirm'.hash = confirm.hash
      BY <1>0, <2>2, ConfirmAdvances DEF WorkerPcs
    <2>4. blocks[confirm.hash].chain = confirm.snap.chain
      BY <2>1 DEF PreviewInv, HasHash
    <2> QED BY <1>4, <1>7, <2>1, <2>2, <2>3, <2>4
  <1>8. ASSUME ConfirmGoesOn, JournalSigned \/ Publish PROVE PreviewInv'
    <2>1. blocks' = blocks /\ confirm.pc \in {"journal", "publish"}
      BY <1>8 DEF JournalSigned, Publish, OnlySubmit, ledger, At, confirm
    <2>2. confirm'.hash = confirm.hash
      BY <1>0, <1>8, ConfirmAdvances DEF JournalSigned, Publish, WorkerPcs
    <2> QED BY <1>4, <1>8, <2>1, <2>2 DEF PreviewInv, HasHash
  <1>9. ASSUME ConfirmGoesOn,
               PrepareBlockFails \/ JournalFails \/ PublishFails \/ FinishConfirm
        PROVE  FALSE
    BY <1>0, <1>9, ConfirmEnds, Blanks DEF PrepareBlockFails, JournalFails, PublishFails,
       FinishConfirm, GiveUp, ConfirmGoesOn
  <1> QED BY <1>1, <1>3, <1>5, <1>6, <1>7, <1>8, <1>9 DEF ConfirmStep

LEMMA PreviewCancel ==
  ASSUME TypeInv, PreviewInv, NEW id, CancelPending(id) PROVE PreviewInv'
  <1>1. /\ pending' = NoHold
        /\ UNCHANGED <<holdCounter, worker, calls, previews, blocks>>
    BY DEF CancelPending, publishing, ledger
  <1>2. 0 \notin DOMAIN previews /\ holdCounter \in Nat
    BY DEF TypeInv, HoldInv, HoldOK, PreviewInv
  <1> QED BY <1>1, <1>2, Blanks DEF PreviewInv, confirm, Matches, PreviewOf

LEMMA PreviewBegins ==
  ASSUME TypeInv, PreviewInv, NEW id \in DOMAIN previews, ConfirmPublish(id)
  PROVE  PreviewInv'
  <1> DEFINE w == [Idle EXCEPT !.pc = "latch", !.asked = id, !.snap = pending]
  <1>1. w.pc = "latch" /\ w.snap = pending /\ w.asked = id
    BY Blanks DEF Worker
  <1>2. worker' = [worker EXCEPT !["confirm"] = w] /\ id = pending.id
    BY DEF ConfirmPublish, Begin
  <1> HIDE DEF w
  <1>3. confirm' = w /\ UNCHANGED <<pending, holdCounter, calls, previews>>
    BY <1>2 DEF TypeInv, WorkersInv, WorkersOK, ConfirmPublish, ghosts, hold, confirm
  <1>4. previews[pending.id] = PreviewOf(pending)
    BY <1>2 DEF PreviewInv
  <1>5. confirm'.pc \notin HasHash
    BY <1>1, <1>3 DEF HasHash
  <1> QED BY <1>1, <1>2, <1>3, <1>4, <1>5 DEF PreviewInv, HasHash

\* A signed block never changes; the ledger only grows.
LEMMA OthersKeepBlocks ==
  ASSUME TypeInv, OtherPublication, NEW i \in 1..Len(blocks) PROVE blocks'[i] = blocks[i]
  <1>1. CASE ReceiveSign
    <2>1. receive.acct \in Accounts /\ receive.snap.chain \in Chains
      BY <1>1 DEF ReceiveSign, At, WorkerTyped, receive, TypeInv, WorkersInv
    <2> QED BY <1>1, <2>1, Signed DEF ReceiveSign, ghosts, receive
  <1>2. CASE blocks' = blocks
    BY <1>2
  <1> QED BY <1>1, <1>2 DEF OtherPublication, Receive, ReceiveStep, ReceiveGuard,
      ReceiveChain, ReceiveFails, ReceivePublish, ReconcileStep,
      ReconcileWalletConnectPublication, ReconcileFound, ReconcileNotFound,
      ReconcileQueryFails, Rebroadcast, RebroadcastFails, FinishReconcile, OnlyWorker,
      OnlySubmit, ledger

LEMMA PreviewNext ==
  ASSUME TypeInv, PreviewInv, CancelInv, [Next]_vars PROVE PreviewInv'
  <1>1. CASE OtherPublication
    <2>1. confirm.pc \in HasHash => confirm.hash \in 1..Len(blocks)
      BY DEF TypeInv, WorkersInv, WorkerTyped, confirm
    <2>2. UNCHANGED <<hold, calls, previews>> /\ confirm' = confirm
      BY <1>1, OthersLeaveTheHold DEF TypeInv, WorkersInv
    <2>3. confirm.pc \in HasHash => blocks'[confirm.hash] = blocks[confirm.hash]
      BY <1>1, <2>1, OthersKeepBlocks
    <2> QED BY <2>2, <2>3, PreviewFrame
  <1>2. ASSUME NEW k \in Keys, AckWalletConnectResult(k) PROVE PreviewInv'
    BY <1>2, PreviewFrame DEF AckWalletConnectResult, publishing, ledger, confirm
  <1>3. CASE UNCHANGED vars
    BY <1>3, PreviewFrame DEF vars, publishing, ghosts, ledger, confirm
  <1> QED BY <1>1, <1>2, <1>3, PreviewEnvironment, PreviewPrepare, PreviewConfirm,
             PreviewCancel, PreviewBegins DEF Next, OtherPublication

LEMMA PreviewInvariant == Spec => []PreviewInv
  <1>1. Init => PreviewInv
    BY Blanks DEF Init, PreviewInv, HasHash, confirm
  <1> QED BY <1>1, PreviewNext, TypeInvariant, CancelInvariant, PTL DEF Spec

\* Confirm-what-you-sign: for any accounts, effects and number of prepares, a
\* block handed to the node is the one whose preview carried the confirmed id.
THEOREM SignsWhatWasShown == Spec => []ConfirmWhatYouSign
  <1>1. TypeInv /\ PreviewInv => ConfirmWhatYouSign
    <2> SUFFICES ASSUME TypeInv, PreviewInv, At("confirm", "publish")
                 PROVE  /\ confirm.asked \in DOMAIN previews
                        /\ LET b == blocks[confirm.hash]
                           IN  previews[confirm.asked] =
                                 [from |-> b.from, effect |-> b.effect, chain |-> b.chain]
      BY DEF ConfirmWhatYouSign
    <2>1. confirm.pc = "publish"
      BY DEF At, confirm
    <2>2. /\ confirm.asked \in DOMAIN previews
          /\ previews[confirm.asked] = PreviewOf(confirm.snap)
          /\ blocks[confirm.hash].chain = confirm.snap.chain
          /\ Matches(blocks[confirm.hash], confirm.snap)
      BY <2>1 DEF PreviewInv, HasHash
    <2> QED BY <2>2 DEF PreviewOf, Matches
  <1> QED BY <1>1, TypeInvariant, PreviewInvariant, PTL
-----------------------------------------------------------------------------
(* The publications: what is handed to the network is retained, at most    *)
(* once, provided that prepares come one at a time (OneAtATime).           *)

\* The publication op goes on with w, or ends.
Moves(op, w) ==
  /\ publishMu \in {"free", op}
  /\ worker' = [worker EXCEPT ![op] = w]
  /\ publishMu' = op \/ (publishMu' = "free" /\ w = Idle)

LEMMA MovesAlone ==
  ASSUME WorkersOK, Exclusive, NEW op \in Ops, NEW w, Moves(op, w)
  PROVE  /\ worker'[op] = w
         /\ \A o \in Ops \ {op} : worker[o] = Idle /\ worker'[o] = Idle
         /\ Exclusive'
  <1>1. worker'[op] = w /\ \A o \in Ops \ {op} : worker'[o] = worker[o]
    BY DEF WorkersOK, Moves
  <1>2. \A o \in Ops \ {op} : worker[o] = Idle
    BY DEF Exclusive, Moves
  <1>3. \A o \in Ops : o # publishMu' => worker'[o] = Idle
    BY <1>1, <1>2 DEF Moves
  <1> QED BY <1>1, <1>2, <1>3 DEF Exclusive

LEMMA BeginMoves == ASSUME NEW op \in Ops, NEW w, Begin(op, w) PROVE Moves(op, w)
  BY DEF Begin, Moves

LEMMA AdvanceMoves ==
  ASSUME Exclusive, NEW op \in Ops, NEW w, worker[op].pc # "idle", Advance(op, w)
  PROVE  Moves(op, w)
  BY Blanks DEF Exclusive, Advance, Moves

LEMMA EndMoves ==
  ASSUME Exclusive, NEW op \in Ops, worker[op].pc # "idle", End(op) PROVE Moves(op, Idle)
  BY Blanks DEF Exclusive, End, Moves

\* The rest of the worker's fields survive a step to another point.
LEMMA StepMoves ==
  ASSUME WorkersOK, Exclusive, NEW op \in Ops, NEW pc \in WorkerPcs, worker[op].pc # "idle",
         Step(op, pc)
  PROVE  \E w \in Worker : /\ Moves(op, w) /\ w.pc = pc /\ w.client = worker[op].client
                           /\ w.snap = worker[op].snap /\ w.hash = worker[op].hash
  <1> DEFINE w == [worker[op] EXCEPT !.pc = pc]
  <1>1. /\ w \in Worker /\ w.pc = pc /\ w.client = worker[op].client
        /\ w.snap = worker[op].snap /\ w.hash = worker[op].hash
    BY DEF WorkersOK, Worker
  <1>2. Advance(op, w)
    BY DEF Step
  <1> HIDE DEF w
  <1> QED BY <1>1, <1>2, AdvanceMoves

-----------------------------------------------------------------------------
(* Records and blocks that a step leaves alone. *)

LEMMA RecordsKept ==
  ASSUME TypeInv, RecordsInv, journal' = journal, sent \subseteq sent',
         \A i \in 1..Len(blocks) : blocks'[i] = blocks[i]
  PROVE  RecordsInv'
  <1>1. \A k \in DOMAIN journal : blocks'[journal[k].hash] = blocks[journal[k].hash]
    BY DEF TypeInv, RecordsTyped
  <1> QED BY <1>1 DEF RecordsInv

LEMMA IdleInHand == InHand(Idle) /\ InHand(Idle)'
  BY Blanks DEF InHand, HasHash

LEMMA PublicationMoves ==
  ASSUME TypeInv, PublicationInv, NEW op \in Ops, NEW w, Moves(op, w),
         InHand(w)', RecordsInv',
         op = "receive" => w.snap.req = NoRequest,
         op = "reconcile" /\ w.pc # "idle" =>
           w.pc \in {"query", "publish", "mark"} /\ w.snap.req # NoRequest,
         (onChain \subseteq sent)', (Len(blocks) <= MaxBlocks)',
         w.pc \in BeforeSigning => (Len(blocks) < MaxBlocks)'
  PROVE  PublicationInv'
  <1>1. /\ worker'[op] = w /\ Exclusive'
        /\ \A o \in Ops \ {op} : worker'[o] = Idle
    BY MovesAlone DEF TypeInv, WorkersInv, PublicationInv
  <1>2. \A o \in Ops : InHand(worker[o])'
    BY <1>1, IdleInHand DEF InHand
  <1>3. (receive.snap.req = NoRequest)'
    <2>1. CASE op = "receive"
      BY <1>1, <2>1 DEF receive
    <2>2. CASE op # "receive"
      BY <1>1, <2>2, Blanks DEF receive
    <2> QED BY <2>1, <2>2
  <1>4. (reconcile.pc # "idle" =>
           reconcile.pc \in {"query", "publish", "mark"} /\ reconcile.snap.req # NoRequest)'
    <2>1. CASE op = "reconcile"
      BY <1>1, <2>1 DEF reconcile
    <2>2. CASE op # "reconcile"
      BY <1>1, <2>2, Blanks DEF reconcile
    <2> QED BY <2>1, <2>2
  <1>5. \A o \in Ops : (worker[o].pc \in BeforeSigning => Len(blocks) < MaxBlocks)'
    BY <1>1, Blanks DEF BeforeSigning
  <1> QED BY <1>1, <1>2, <1>3, <1>4, <1>5 DEF PublicationInv, WorkerInv

\* A step towards signing, or an end, that touches neither journal nor ledger.
LEMMA QuietMove ==
  ASSUME TypeInv, PublicationInv, NEW op \in Ops, NEW w, Moves(op, w),
         UNCHANGED <<journal, ledger, sent>>,
         \/ w = Idle
         \/ /\ w.pc \in BeforeSigning /\ Len(blocks) < MaxBlocks
            /\ op # "reconcile" /\ (op = "receive" => w.snap.req = NoRequest)
  PROVE  PublicationInv'
  <1>1. RecordsInv'
    BY RecordsKept DEF PublicationInv, ledger
  <1>2. InHand(w)'
    BY IdleInHand DEF InHand, HasHash, BeforeSigning
  <1>3. (onChain \subseteq sent)' /\ (Len(blocks) <= MaxBlocks)'
    BY DEF PublicationInv, WorkerInv, ledger
  <1>4. w.pc \in BeforeSigning => (Len(blocks) < MaxBlocks)'
    BY Blanks DEF ledger, BeforeSigning
  <1> QED BY <1>1, <1>2, <1>3, <1>4, Blanks, PublicationMoves

LEMMA SigningMove ==
  ASSUME TypeInv, PublicationInv, NEW op \in Ops, NEW w, Moves(op, w),
         NEW effect \in Effects \cup {NoEffect},
         worker[op].pc \in BeforeSigning,
         worker[op].acct \in Accounts, worker[op].snap.chain \in Chains,
         SignBlock(op, effect), UNCHANGED <<journal, onChain, sent, acked>>,
         w.hash = Len(blocks) + 1, w.snap = worker[op].snap,
         \/ op = "confirm" /\ w.pc = "recheck"
         \/ op = "receive" /\ w.pc = "publish"
  PROVE  PublicationInv'
  <1>1. /\ Len(blocks') = Len(blocks) + 1
        /\ \A i \in 1..Len(blocks) : blocks'[i] = blocks[i]
        /\ blocks'[Len(blocks) + 1].req = w.snap.req
    <2>1. /\ Len(blocks') = Len(blocks) + 1
          /\ \A i \in 1..Len(blocks) : blocks'[i] = blocks[i]
          /\ blocks'[Len(blocks) + 1] =
               [from |-> worker[op].acct, effect |-> effect, chain |-> worker[op].snap.chain,
                prev |-> Frontier(worker[op].snap.chain, worker[op].acct),
                req |-> worker[op].snap.req]
      BY Signed
    <2> QED BY <2>1
  <1>2. Len(blocks) \in Nat /\ MaxBlocks \in Nat /\ sent \subseteq 1..Len(blocks)
    BY ConstantsAssumption DEF TypeInv, LedgerOK
  <1>3. Len(blocks) < MaxBlocks /\ onChain \subseteq sent /\ receive.snap.req = NoRequest
    BY DEF PublicationInv, WorkerInv
  <1>4. op = "receive" => w.snap.req = NoRequest
    BY <1>3 DEF receive
  <1>5. InHand(w)'
    <2>1. w.hash \notin sent'
      BY <1>2
    <2> QED BY <1>1, <1>4, <2>1 DEF InHand
  <1>6. RecordsInv'
    BY <1>1, RecordsKept DEF PublicationInv
  <1>7. (onChain \subseteq sent)' /\ (Len(blocks) <= MaxBlocks)'
    BY <1>1, <1>2, <1>3
  <1> QED BY <1>4, <1>5, <1>6, <1>7, PublicationMoves DEF BeforeSigning

LEMMA JournalMove ==
  ASSUME TypeInv, PublicationInv, NEW w, Moves("confirm", w), confirm.pc = "journal",
         w.pc = "publish", w.hash = confirm.hash, w.snap = confirm.snap,
         journal' = Put(journal, KeyOf(confirm.snap.req),
                        [intent |-> IntentOf(confirm.snap.req), state |-> "signed",
                         hash |-> confirm.hash]),
         UNCHANGED <<ledger, sent>>
  PROVE  PublicationInv'
  <1> DEFINE r == confirm.snap.req
             rec == [intent |-> IntentOf(r), state |-> "signed", hash |-> confirm.hash]
  <1>1. r # NoRequest /\ blocks[confirm.hash].req = r
    BY DEF TypeInv, WorkersInv, WorkerTyped, confirm, PublicationInv, WorkerInv, InHand,
           HasHash
  <1>2. /\ DOMAIN journal' = DOMAIN journal \cup {KeyOf(r)}
        /\ journal'[KeyOf(r)] = rec
        /\ \A k \in DOMAIN journal : k # KeyOf(r) => journal'[k] = journal[k]
    BY DEF Put
  <1>3. rec.intent = IntentOf(r) /\ rec.state = "signed" /\ rec.hash = confirm.hash
    OBVIOUS
  <1> HIDE DEF rec
  <1>4. RecordsInv'
    <2> SUFFICES ASSUME NEW k \in DOMAIN journal'
                 PROVE  LET b == journal'[k].hash
                        IN  /\ blocks[b].req # NoRequest
                            /\ KeyOf(blocks[b].req) = k
                            /\ IntentOf(blocks[b].req) = journal'[k].intent
                            /\ journal'[k].state = "published" => b \in sent
      BY DEF RecordsInv, ledger
    <2>1. CASE k = KeyOf(r)
      BY <1>1, <1>2, <1>3, <2>1
    <2>2. CASE k # KeyOf(r)
      BY <1>2, <2>2 DEF PublicationInv, RecordsInv
    <2> QED BY <2>1, <2>2
  <1>5. InHand(w)'
    BY <1>1, <1>2, <1>3 DEF InHand, Records, ledger
  <1>6. (onChain \subseteq sent)' /\ (Len(blocks) <= MaxBlocks)'
    BY DEF PublicationInv, WorkerInv, ledger
  <1> QED BY <1>4, <1>5, <1>6, PublicationMoves DEF BeforeSigning

\* Handing the block in hand to the node.
LEMMA SubmitMove ==
  ASSUME TypeInv, PublicationInv, NEW op \in Ops, NEW w, Moves(op, w),
         worker[op].pc = "publish", Accepted(op) \/ NoReply(op), OnlySubmit,
         \/ w = Idle
         \/ w.pc = "mark" /\ w.hash = worker[op].hash /\ w.snap = worker[op].snap
  PROVE  PublicationInv'
  <1>1. sent' = sent \cup {worker[op].hash} /\ onChain' \subseteq onChain \cup {worker[op].hash}
    BY DEF Accepted, NoReply
  <1>2. UNCHANGED <<journal, blocks>>
    BY DEF OnlySubmit
  <1>3. RecordsInv'
    BY <1>1, <1>2, RecordsKept DEF PublicationInv
  <1>4. InHand(w)'
    <2>1. CASE w = Idle
      BY <2>1, IdleInHand
    <2>2. CASE w # Idle
      <3>1. InHand(worker[op])
        BY DEF PublicationInv, WorkerInv
      <3> QED BY <1>1, <1>2, <2>2, <3>1 DEF InHand, Records, HasHash
    <2> QED BY <2>1, <2>2
  <1>5. (onChain \subseteq sent)' /\ (Len(blocks) <= MaxBlocks)'
    BY <1>1, <1>2 DEF PublicationInv, WorkerInv
  <1>6. /\ op = "receive" => w.snap.req = NoRequest
        /\ op = "reconcile" /\ w.pc # "idle" =>
             w.pc \in {"query", "publish", "mark"} /\ w.snap.req # NoRequest
    BY Blanks DEF PublicationInv, WorkerInv, receive, reconcile
  <1> QED BY <1>3, <1>4, <1>5, <1>6, Blanks, PublicationMoves DEF BeforeSigning

\* The end of a publication, after the mark on its record.
LEMMA MarkMove ==
  ASSUME TypeInv, PublicationInv, NEW op \in Ops, End(op), worker[op].pc = "mark",
         \/ journal' = journal
         \/ worker[op].snap.req # NoRequest /\ Marked(KeyOf(worker[op].snap.req)),
         UNCHANGED <<ledger, sent>>
  PROVE  PublicationInv'
  <1>1. Moves(op, Idle)
    BY EndMoves DEF PublicationInv
  <1>2. CASE journal' = journal
    BY <1>1, <1>2, QuietMove
  <1>3. CASE journal' # journal
    <2> DEFINE k == KeyOf(worker[op].snap.req)
    <2>1. Records(k, worker[op].hash) /\ worker[op].hash \in sent
      BY <1>3 DEF PublicationInv, WorkerInv, InHand
    <2>2. journal' = [journal EXCEPT ![k].state = "published"]
      BY <1>3, <2>1 DEF Marked, MarkPublished, Records
    <2>3. /\ DOMAIN journal' = DOMAIN journal
          /\ \A x \in DOMAIN journal :
               /\ journal'[x].hash = journal[x].hash
               /\ journal'[x].intent = journal[x].intent
               /\ journal'[x].state = "published" => x = k \/ journal[x].state = "published"
      <3>1. \A rec \in Record : LET p == [rec EXCEPT !.state = "published"]
                                IN  p.hash = rec.hash /\ p.intent = rec.intent
        BY DEF Record
      <3>2. \A x \in DOMAIN journal : journal[x] \in Record
        BY DEF TypeInv, RecordsTyped, JournalOK
      <3> HIDE DEF k
      <3>3. \A x \in DOMAIN journal :
              journal'[x] = IF x = k THEN [journal[x] EXCEPT !.state = "published"]
                                     ELSE journal[x]
        BY <2>2
      <3> QED BY <2>2, <3>1, <3>2, <3>3
    <2>4. RecordsInv'
      BY <2>1, <2>3 DEF PublicationInv, RecordsInv, Records, ledger
    <2>5. (onChain \subseteq sent)' /\ (Len(blocks) <= MaxBlocks)'
      BY DEF PublicationInv, WorkerInv, ledger
    <2> QED BY <1>1, <2>4, <2>5, IdleInHand, Blanks, PublicationMoves DEF BeforeSigning
  <1> QED BY <1>2, <1>3

-----------------------------------------------------------------------------
(* The actions of PublicationInv. *)

LEMMA PublicationFrame ==
  ASSUME PublicationInv, UNCHANGED <<publishing, journal, ledger, sent>>
  PROVE  PublicationInv'
  BY DEF PublicationInv, Exclusive, RecordsInv, WorkerInv, InHand, Records, publishing,
         ledger, receive, reconcile

LEMMA PublicationEnvironment ==
  ASSUME TypeInv, PublicationInv, Environment PROVE PublicationInv'
  <1>1. CASE Restart
    <2>1. /\ worker' = [op \in Ops |-> Idle]
          /\ UNCHANGED <<journal, ledger, sent>>
      BY <1>1 DEF Restart
    <2>2. Exclusive'
      BY <2>1 DEF Exclusive
    <2>3. RecordsInv'
      BY <2>1, RecordsKept DEF PublicationInv, ledger
    <2>4. WorkerInv'
      <3>1. \A op \in Ops : InHand(worker[op])'
        BY <2>1, IdleInHand DEF InHand
      <3> QED BY <2>1, <3>1, Blanks
              DEF PublicationInv, WorkerInv, receive, reconcile, ledger, BeforeSigning
    <2> QED BY <2>2, <2>3, <2>4 DEF PublicationInv
  <1>2. CASE ~Restart
    BY <1>2, PublicationFrame DEF Environment, Unlock, SelectAccount, Lock, ChangeSession,
       ClearPending, InstallConnection, Disconnect, SetChainID, SetAllowMainnetSend, ghosts
  <1> QED BY <1>1, <1>2

LEMMA PublicationPrepare ==
  ASSUME PublicationInv, NEW c \in Callers, PrepareStep(c) PROVE PublicationInv'
  BY PublicationFrame DEF PrepareStep, PrepareSend, LookupWalletConnectPublication,
     WalletConnectBridgeTemplate, PrepareCall, ReadSigner, RecheckGen, HoldPending,
     AttachWalletConnectIdentity, PrepareFails, OnlyCalls, ghosts

LEMMA AckKeeps ==
  ASSUME TypeInv, PublicationInv, NEW k \in Keys, AckWalletConnectResult(k)
  PROVE  PublicationInv'
  <1>1. /\ DOMAIN journal' = DOMAIN journal \ {k}
        /\ \A x \in DOMAIN journal' : journal'[x] = journal[x]
        /\ journal[k].state = "published"
    BY DEF AckWalletConnectResult, DeletePublished, CanDelete, Restrict
  <1>2. UNCHANGED <<publishMu, worker, blocks, onChain, sent>>
    BY DEF AckWalletConnectResult, publishing, ledger
  <1>3. RecordsInv'
    BY <1>1, <1>2 DEF PublicationInv, RecordsInv
  <1>4. \A x, b : Records(x, b) => Records(x, b)'
    BY <1>1 DEF Records
  <1>5. \A op \in Ops : InHand(worker[op])'
    <2> SUFFICES ASSUME NEW op \in Ops PROVE InHand(worker[op])'
      OBVIOUS
    <2>1. InHand(worker[op])
      BY DEF PublicationInv, WorkerInv
    <2>2. worker'[op] = worker[op]
      BY <1>2
    <2> QED BY <1>2, <1>4, <2>1, <2>2 DEF InHand
  <1> QED BY <1>2, <1>3, <1>5 DEF PublicationInv, Exclusive, WorkerInv, receive, reconcile

LEMMA PublicationBegins ==
  ASSUME TypeInv, PublicationInv, NEW id \in DOMAIN previews, ConfirmPublish(id)
  PROVE  PublicationInv'
  <1>1. PICK w : w = [Idle EXCEPT !.pc = "latch", !.asked = id, !.snap = pending]
    OBVIOUS
  <1>2. w.pc = "latch"
    BY <1>1, Blanks DEF Worker
  <1>3. Moves("confirm", w) /\ Len(blocks) < MaxBlocks /\ UNCHANGED <<journal, ledger, sent>>
    BY <1>1, BeginMoves DEF ConfirmPublish, ghosts
  <1> QED BY <1>2, <1>3, QuietMove DEF BeforeSigning

\* A publication that ends without submitting or marking anything.
LEMMA QuietEnd ==
  ASSUME TypeInv, PublicationInv, NEW op \in Ops, worker[op].pc # "idle", End(op),
         UNCHANGED <<journal, ledger, sent>>
  PROVE  PublicationInv'
  BY EndMoves, QuietMove DEF PublicationInv

\* One step closer to signing.
LEMMA QuietStep ==
  ASSUME TypeInv, PublicationInv, NEW op \in {"confirm", "receive"},
         NEW pc \in BeforeSigning, worker[op].pc \in BeforeSigning, Step(op, pc),
         UNCHANGED <<journal, ledger, sent>>
  PROVE  PublicationInv'
  <1>1. worker[op].pc # "idle" /\ pc \in WorkerPcs
    BY DEF BeforeSigning, WorkerPcs
  <1>2. PICK w \in Worker : /\ Moves(op, w) /\ w.pc = pc
                            /\ w.snap = worker[op].snap /\ w.hash = worker[op].hash
    BY <1>1, StepMoves DEF TypeInv, WorkersInv, PublicationInv
  <1>3. op = "receive" => w.snap.req = NoRequest
    BY <1>2 DEF PublicationInv, WorkerInv, receive
  <1>4. Len(blocks) < MaxBlocks
    BY DEF PublicationInv, WorkerInv
  <1> QED BY <1>2, <1>3, <1>4, QuietMove

LEMMA PublicationConfirm ==
  ASSUME TypeInv, PublicationInv, ConfirmStep PROVE PublicationInv'
  <1>0. WorkersOK /\ Exclusive /\ confirm \in Worker /\ WorkerTyped("confirm", confirm)
    BY DEF TypeInv, WorkersInv, WorkersOK, PublicationInv, confirm
  <1>1. ASSUME OnlyWorker, Release, confirm.pc # "idle" PROVE PublicationInv'
    BY <1>1, QuietEnd DEF OnlyWorker, Release, confirm, ghosts
  <1>2. CASE LatchHold
    BY <1>1, <1>2, QuietStep DEF LatchHold, At, confirm, OnlyWorker, ghosts, BeforeSigning
  <1>3. CASE CheckSession
    BY <1>1, <1>3, QuietStep
    DEF CheckSession, GiveUp, At, confirm, OnlyWorker, ghosts, BeforeSigning
  <1>4. CASE ReadKey
    <2>1. PICK w : w = [confirm EXCEPT !.pc = "pow", !.acct = session.account,
                                       !.client = node.conn]
      OBVIOUS
    <2>2. CASE Advance("confirm", w)
      <3>1. Moves("confirm", w) /\ w.pc = "pow" /\ Len(blocks) < MaxBlocks
        BY <1>0, <1>4, <2>1, <2>2, AdvanceMoves
        DEF ReadKey, At, confirm, Worker, PublicationInv, WorkerInv, BeforeSigning
      <3> QED BY <1>4, <3>1, QuietMove DEF ReadKey, OnlyWorker, ghosts, BeforeSigning
    <2>3. CASE ~Advance("confirm", w)
      BY <1>1, <1>4, <2>1, <2>3 DEF ReadKey, GiveUp, Refuse, At, confirm
    <2> QED BY <2>2, <2>3
  <1>5. CASE PrepareBlock
    <2>1. PICK w : w = [confirm EXCEPT !.pc = "recheck", !.hash = Len(blocks) + 1]
      OBVIOUS
    <2>2. w.pc = "recheck" /\ w.hash = Len(blocks) + 1 /\ w.snap = confirm.snap
      BY <1>0, <2>1 DEF Worker
    <2>3. Moves("confirm", w) /\ confirm.pc = "pow"
      BY <1>0, <1>5, <2>1, AdvanceMoves DEF PrepareBlock, At, confirm
    <2>4. confirm.acct \in Accounts /\ Settled(confirm.snap)
      BY <1>0, <2>3 DEF WorkerTyped
    <2> QED BY <1>5, <2>2, <2>3, <2>4, SigningMove
            DEF PrepareBlock, Settled, confirm, BeforeSigning
  <1>6. CASE PrepareBlockFails \/ JournalFails
    BY <1>1, <1>6 DEF PrepareBlockFails, JournalFails, GiveUp, At, confirm
  <1>7. CASE RecheckBuilt
    <2> DEFINE pc == IF confirm.snap.req = NoRequest THEN "publish" ELSE "journal"
    <2>1. CASE Step("confirm", pc)
      <3>1. PICK w \in Worker : /\ Moves("confirm", w) /\ w.pc = pc
                                /\ w.snap = confirm.snap /\ w.hash = confirm.hash
        BY <1>0, <1>7, <2>1, StepMoves DEF RecheckBuilt, At, confirm, WorkerPcs
      <3>2. UNCHANGED <<journal, blocks, onChain, sent>>
        BY <1>7 DEF RecheckBuilt, OnlyWorker, ghosts, ledger
      <3>3. blocks[confirm.hash].req = confirm.snap.req /\ confirm.hash \notin sent
        BY <1>7 DEF RecheckBuilt, At, PublicationInv, WorkerInv, InHand, HasHash, confirm
      <3>4. InHand(w)'
        BY <3>1, <3>2, <3>3 DEF InHand
      <3>5. RecordsInv' /\ (onChain \subseteq sent)' /\ (Len(blocks) <= MaxBlocks)'
        BY <3>2, RecordsKept DEF PublicationInv, WorkerInv
      <3> QED BY <3>1, <3>4, <3>5, PublicationMoves DEF BeforeSigning
    <2>2. CASE ~Step("confirm", pc)
      BY <1>1, <1>7, <2>2 DEF RecheckBuilt, GiveUp, Refuse, At, confirm
    <2> QED BY <2>1, <2>2
  <1>8. CASE JournalSigned
    <2>1. PICK w \in Worker : /\ Moves("confirm", w) /\ w.pc = "publish"
                              /\ w.snap = confirm.snap /\ w.hash = confirm.hash
      BY <1>0, <1>8, StepMoves DEF JournalSigned, At, confirm, WorkerPcs
    <2> QED BY <1>8, <2>1, JournalMove DEF JournalSigned, At, confirm, ghosts
  <1>9. CASE Publish
    <2>1. PICK w \in Worker : /\ Moves("confirm", w) /\ w.pc = "mark"
                              /\ w.snap = confirm.snap /\ w.hash = confirm.hash
      BY <1>0, <1>9, StepMoves DEF Publish, At, confirm, WorkerPcs
    <2> QED BY <1>9, <2>1, SubmitMove DEF Publish, At, confirm
  <1>10. CASE PublishFails
    <2>1. Moves("confirm", Idle)
      BY <1>0, <1>10, EndMoves DEF PublishFails, GiveUp, Release, At
    <2> QED BY <1>10, <2>1, SubmitMove DEF PublishFails, At
  <1>11. CASE FinishConfirm
    BY <1>11, MarkMove DEF FinishConfirm, GiveUp, Release, At, confirm, ghosts
  <1> QED BY <1>2, <1>3, <1>4, <1>5, <1>6, <1>7, <1>8, <1>9, <1>10, <1>11 DEF ConfirmStep

LEMMA PublicationReceive ==
  ASSUME TypeInv, PublicationInv, Receive \/ ReceiveStep PROVE PublicationInv'
  <1>0. /\ WorkersOK /\ Exclusive /\ receive \in Worker /\ WorkerTyped("receive", receive)
        /\ receive.snap.req = NoRequest
    BY DEF TypeInv, WorkersInv, WorkersOK, PublicationInv, WorkerInv, receive
  <1>1. ASSUME OnlyWorker, End("receive"), receive.pc # "idle" PROVE PublicationInv'
    BY <1>1, QuietEnd DEF OnlyWorker, receive, ghosts
  <1>2. CASE Receive
    <2>1. PICK w : w = [Idle EXCEPT !.pc = "guard", !.client = node.conn]
      OBVIOUS
    <2>2. w.pc = "guard" /\ w.snap.req = NoRequest
      BY <2>1, Blanks DEF Worker
    <2> QED BY <1>2, <2>1, <2>2, BeginMoves, QuietMove DEF Receive, BeforeSigning
  <1>3. CASE ReceiveGuard
    BY <1>1, <1>3, QuietStep DEF ReceiveGuard, At, receive, OnlyWorker, ghosts, BeforeSigning
  <1>4. CASE ReceiveChain
    <2>1. PICK w : w = [receive EXCEPT !.pc = "send", !.acct = session.account,
                                       !.snap.chain = settings.chain]
      OBVIOUS
    <2>2. CASE Advance("receive", w)
      <3>1. w.pc = "send" /\ w.snap.req = NoRequest
        BY <1>0, <2>1 DEF Worker, Hold
      <3>2. Moves("receive", w) /\ Len(blocks) < MaxBlocks
        BY <1>0, <1>4, <2>2, AdvanceMoves
        DEF ReceiveChain, At, receive, PublicationInv, WorkerInv, BeforeSigning
      <3> QED BY <1>4, <3>1, <3>2, QuietMove DEF ReceiveChain, OnlyWorker, ghosts, BeforeSigning
    <2>3. CASE ~Advance("receive", w)
      BY <1>1, <1>4, <2>1, <2>3 DEF ReceiveChain, At, receive
    <2> QED BY <2>2, <2>3
  <1>5. CASE ReceiveSign
    <2>1. PICK w : w = [receive EXCEPT !.pc = "publish", !.hash = Len(blocks) + 1]
      OBVIOUS
    <2>2. w.pc = "publish" /\ w.hash = Len(blocks) + 1 /\ w.snap = receive.snap
      BY <1>0, <2>1 DEF Worker
    <2>3. Moves("receive", w) /\ receive.pc = "send"
      BY <1>0, <1>5, <2>1, AdvanceMoves DEF ReceiveSign, At, receive
    <2>4. receive.acct \in Accounts /\ receive.snap.chain \in Chains
      BY <1>0, <2>3 DEF WorkerTyped
    <2> QED BY <1>5, <2>2, <2>3, <2>4, SigningMove
            DEF ReceiveSign, receive, BeforeSigning, ghosts
  <1>6. CASE ReceiveFails
    BY <1>1, <1>6 DEF ReceiveFails, At, receive
  <1>7. CASE ReceivePublish
    <2>1. Moves("receive", Idle)
      BY <1>0, <1>7, EndMoves DEF ReceivePublish, At
    <2> QED BY <1>7, <2>1, SubmitMove DEF ReceivePublish, At
  <1> QED BY <1>2, <1>3, <1>4, <1>5, <1>6, <1>7 DEF ReceiveStep

LEMMA PublicationReconcile ==
  ASSUME TypeInv, PublicationInv,
         ReconcileStep \/ (\E k \in Keys : ReconcileWalletConnectPublication(k))
  PROVE  PublicationInv'
  <1>0. /\ WorkersOK /\ Exclusive /\ reconcile \in Worker /\ InHand(reconcile)
        /\ reconcile.pc # "idle" => reconcile.snap.req # NoRequest
        /\ RecordsInv /\ onChain \subseteq sent /\ Len(blocks) <= MaxBlocks
    BY DEF TypeInv, WorkersInv, WorkersOK, PublicationInv, WorkerInv, reconcile
  <1>1. ASSUME OnlyWorker, End("reconcile"), reconcile.pc # "idle" PROVE PublicationInv'
    BY <1>1, QuietEnd DEF OnlyWorker, reconcile, ghosts
  <1>2. ASSUME NEW w, Moves("reconcile", w), UNCHANGED <<journal, blocks, onChain, sent>>,
               InHand(w), w.pc \in {"query", "publish", "mark"}, w.snap.req # NoRequest
        PROVE  PublicationInv'
    <2>1. InHand(w)'
      BY <1>2 DEF InHand, Records
    <2>2. RecordsInv'
      BY <1>0, <1>2, RecordsKept
    <2> QED BY <1>0, <1>2, <2>1, <2>2, PublicationMoves DEF BeforeSigning
  <1>3. ASSUME NEW k \in Keys, ReconcileWalletConnectPublication(k) PROVE PublicationInv'
    <2> DEFINE b == journal[k].hash
    <2>1. PICK w : w = [Idle EXCEPT !.pc = "query", !.client = node.conn, !.hash = b,
                                    !.snap.req = blocks[b].req]
      OBVIOUS
    <2>2. w.pc = "query" /\ w.hash = b /\ w.snap.req = blocks[b].req
      BY <2>1, Blanks DEF Worker, Hold
    <2>3. k \in DOMAIN journal /\ journal[k].state = "signed"
      BY <1>3 DEF ReconcileWalletConnectPublication
    <2>4. blocks[b].req # NoRequest /\ KeyOf(blocks[b].req) = k
      BY <1>0, <2>3 DEF RecordsInv
    <2>5. InHand(w)
      BY <2>2, <2>3, <2>4 DEF InHand, Records
    <2>6. Moves("reconcile", w) /\ UNCHANGED <<journal, blocks, onChain, sent>>
      BY <1>3, <2>1, BeginMoves DEF ReconcileWalletConnectPublication, ledger
    <2> QED BY <1>2, <2>2, <2>4, <2>5, <2>6
  <1>4. ASSUME NEW pc \in {"publish", "mark"}, Step("reconcile", pc), reconcile.pc = "query",
               pc = "mark" => reconcile.hash \in onChain, OnlyWorker
        PROVE  PublicationInv'
    <2>1. PICK w \in Worker : /\ Moves("reconcile", w) /\ w.pc = pc
                              /\ w.snap = reconcile.snap /\ w.hash = reconcile.hash
      BY <1>0, <1>4, StepMoves DEF reconcile, WorkerPcs
    <2>2. InHand(w)
      BY <1>0, <1>4, <2>1 DEF InHand, HasHash
    <2> QED BY <1>0, <1>2, <1>4, <2>1, <2>2 DEF OnlyWorker, ghosts, ledger
  <1>5. CASE ReconcileFound
    BY <1>4, <1>5 DEF ReconcileFound, At, reconcile
  <1>6. CASE ReconcileNotFound
    BY <1>1, <1>4, <1>6 DEF ReconcileNotFound, At, reconcile
  <1>7. CASE ReconcileQueryFails
    BY <1>1, <1>7 DEF ReconcileQueryFails, At, reconcile
  <1>8. CASE Rebroadcast
    <2>1. PICK w \in Worker : /\ Moves("reconcile", w) /\ w.pc = "mark"
                              /\ w.snap = reconcile.snap /\ w.hash = reconcile.hash
      BY <1>0, <1>8, StepMoves DEF Rebroadcast, At, reconcile, WorkerPcs
    <2> QED BY <1>8, <2>1, SubmitMove DEF Rebroadcast, At, reconcile
  <1>9. CASE RebroadcastFails
    <2>1. Moves("reconcile", Idle)
      BY <1>0, <1>9, EndMoves DEF RebroadcastFails, At
    <2> QED BY <1>9, <2>1, SubmitMove DEF RebroadcastFails, At
  <1>10. CASE FinishReconcile
    BY <1>0, <1>10, MarkMove DEF FinishReconcile, At, reconcile, ghosts
  <1> QED BY <1>3, <1>5, <1>6, <1>7, <1>8, <1>9, <1>10 DEF ReconcileStep

LEMMA PublicationNext ==
  ASSUME TypeInv, PublicationInv, [Next]_vars PROVE PublicationInv'
  <1>1. CASE UNCHANGED vars
    BY <1>1, PublicationFrame DEF vars, ghosts
  <1>2. ASSUME NEW id, CancelPending(id) PROVE PublicationInv'
    BY <1>2, PublicationFrame DEF CancelPending
  <1> QED BY <1>1, <1>2, PublicationEnvironment, PublicationPrepare, PublicationBegins,
             PublicationConfirm, PublicationReceive, PublicationReconcile, AckKeeps
          DEF Next

LEMMA PublicationInvariant == Spec => []PublicationInv
  <1>1. Init => PublicationInv
    <2> SUFFICES ASSUME Init PROVE PublicationInv
      OBVIOUS
    <2>1. /\ worker = [op \in Ops |-> Idle] /\ DOMAIN journal = {} /\ blocks = <<>>
          /\ onChain = {} /\ sent = {}
      BY DEF Init, EmptyJournal
    <2>2. MaxBlocks \in Nat /\ Len(blocks) = 0
      BY <2>1, ConstantsAssumption
    <2>3. Exclusive /\ RecordsInv
      BY <2>1 DEF Exclusive, RecordsInv
    <2>4. WorkerInv
      BY <2>1, <2>2, Blanks, IdleInHand DEF WorkerInv, receive, reconcile, BeforeSigning
    <2> QED BY <2>3, <2>4 DEF PublicationInv
  <1> QED BY <1>1, PublicationNext, TypeInvariant, PTL DEF Spec

-----------------------------------------------------------------------------
(* One request at a time. *)

NoNewRecord ==
  /\ DOMAIN journal' \subseteq DOMAIN journal
  /\ \A k \in DOMAIN journal' : journal'[k].intent = journal[k].intent

LEMMA StillUnknown == NoNewRecord => \A r : Unknown(r) => Unknown(r)'
  BY DEF NoNewRecord, Unknown

LEMMA MarkedNoNewRecord ==
  ASSUME RecordsTyped, NEW k, Marked(k) PROVE NoNewRecord
  <1>1. CASE journal' = journal
    BY <1>1 DEF NoNewRecord
  <1>2. CASE journal' # journal
    <2>1. journal' = [journal EXCEPT ![k].state = "published"]
      BY <1>2 DEF Marked, MarkPublished
    <2>2. \A rec \in Record : [rec EXCEPT !.state = "published"].intent = rec.intent
      BY DEF Record
    <2>3. \A x \in DOMAIN journal :
            journal'[x] = IF x = k THEN [journal[x] EXCEPT !.state = "published"]
                                   ELSE journal[x]
      BY <2>1
    <2> QED BY <2>1, <2>2, <2>3 DEF NoNewRecord, RecordsTyped, JournalOK
  <1> QED BY <1>1, <1>2

\* Requests that move no further, or are let go, leave the slot's invariant.
LEMMA SlotKept ==
  ASSUME SlotInv, NoNewRecord,
         \A c \in Callers : calls'[c].hold.req \in {calls[c].hold.req, NoRequest},
         pending' = pending \/ pending'.req = NoRequest,
         \/ /\ confirm'.snap = confirm.snap
            /\ confirm.pc \in {"publish", "mark"} => confirm'.pc \in {"publish", "mark"}
         \/ /\ confirm'.snap.req = NoRequest
            /\ pending'.req # NoRequest /\ confirm.snap.req # NoRequest =>
                 confirm.pc \notin {"publish", "mark"}
  PROVE  SlotInv'
  <1>0. \A r : Unknown(r) => Unknown(r)'
    BY StillUnknown
  <1>1. CallsSlot'
    <2> SUFFICES ASSUME NEW c \in Callers, calls'[c].hold.req # NoRequest
                 PROVE  /\ Unknown(calls[c].hold.req)'
                        /\ pending'.req = NoRequest /\ confirm'.snap.req = NoRequest
                        /\ \A d \in Callers : calls'[d].hold.req # NoRequest => c = d
      BY DEF CallsSlot
    <2>1. calls'[c].hold.req = calls[c].hold.req
      OBVIOUS
    <2>2. /\ Unknown(calls[c].hold.req)
          /\ pending.req = NoRequest /\ confirm.snap.req = NoRequest
          /\ \A d \in Callers : calls[d].hold.req # NoRequest => c = d
      BY <2>1 DEF SlotInv, CallsSlot
    <2>3. PICK r : r = calls[c].hold.req
      OBVIOUS
    <2>4. Unknown(r)'
      BY <1>0, <2>2, <2>3
    <2>5. Unknown(calls[c].hold.req)'
      BY <2>1, <2>3, <2>4 DEF Unknown
    <2> QED BY <2>2, <2>5
  <1>2. HoldSlot'
    <2> SUFFICES ASSUME pending'.req # NoRequest
                 PROVE  /\ confirm'.snap.req = NoRequest => Unknown(pending.req)'
                        /\ confirm'.snap.req # NoRequest => pending' = confirm'.snap
      BY DEF HoldSlot
    <2>1. pending' = pending
      OBVIOUS
    <2>2. PICK r : r = pending.req
      OBVIOUS
    <2>3. confirm'.snap.req = NoRequest => Unknown(r)
      BY <2>1, <2>2 DEF SlotInv, HoldSlot, ConfirmSlot
    <2>4. confirm'.snap.req = NoRequest => Unknown(pending.req)'
      BY <1>0, <2>1, <2>2, <2>3 DEF Unknown
    <2> QED BY <2>1, <2>4 DEF SlotInv, HoldSlot
  <1>3. ConfirmSlot'
    <2> SUFFICES ASSUME confirm'.snap.req # NoRequest, confirm'.pc \notin {"publish", "mark"}
                 PROVE  Unknown(confirm.snap.req)'
      BY DEF ConfirmSlot
    <2>1. confirm'.snap = confirm.snap
      OBVIOUS
    <2>2. PICK r : r = confirm.snap.req
      OBVIOUS
    <2>3. Unknown(r)
      BY <2>1, <2>2 DEF SlotInv, ConfirmSlot
    <2> QED BY <1>0, <2>1, <2>2, <2>3 DEF Unknown
  <1>4. OneRecordPerIntent'
    BY DEF SlotInv, OneRecordPerIntent, NoNewRecord
  <1> QED BY <1>1, <1>2, <1>3, <1>4 DEF SlotInv

LEMMA SlotEnvironment ==
  ASSUME TypeInv, SlotInv, Environment PROVE SlotInv'
  <1>1. CASE Restart
    <2>1. /\ pending'.req = NoRequest /\ confirm'.snap.req = NoRequest
          /\ \A c \in Callers : calls'[c].hold.req = NoRequest
          /\ journal' = journal
      BY <1>1, Blanks DEF Restart, confirm
    <2> QED BY <2>1 DEF SlotInv, CallsSlot, HoldSlot, ConfirmSlot, OneRecordPerIntent
  <1>2. CASE ClearPending
    BY <1>2, SlotKept, Blanks DEF ClearPending, NoNewRecord, publishing, confirm
  <1>3. CASE ~Restart /\ ~ClearPending
    <2>1. UNCHANGED <<pending, calls, worker, journal>>
      BY <1>3 DEF Environment, Unlock, SelectAccount, Lock, ChangeSession,
         InstallConnection, Disconnect, SetChainID, SetAllowMainnetSend, hold, publishing
    <2> QED BY <2>1, SlotKept DEF NoNewRecord, confirm
  <1> QED BY <1>1, <1>2, <1>3

LEMMA SlotPrepare ==
  ASSUME TypeInv, SlotInv, OneAtATime, NEW c \in Callers, PrepareStep(c) PROVE SlotInv'
  <1>0. /\ calls \in [Callers -> Call] /\ calls[c] \in Call /\ calls[c].hold \in Hold
        /\ CallTyped(calls[c]) /\ pending \in Hold /\ holdCounter \in Nat
    BY DEF TypeInv, CallsInv, CallTyped, Call, HoldInv, HoldOK
  <1>1. ASSUME NEW x, calls' = [calls EXCEPT ![c] = x],
               x.hold.req \in {calls[c].hold.req, NoRequest},
               pending' = pending \/ pending'.req = NoRequest,
               UNCHANGED <<publishing, journal>>
        PROVE  SlotInv'
    <2>1. \A d \in Callers : calls'[d].hold.req \in {calls[d].hold.req, NoRequest}
      BY <1>0, <1>1
    <2> QED BY <1>1, <2>1, SlotKept DEF NoNewRecord, publishing, confirm
  <1>2. CASE \E e \in Sends : PrepareSend(c, e)
    <2>1. PICK e \in Sends : PrepareSend(c, e)
      BY <1>2
    <2>2. [NoHold EXCEPT !.effect = e, !.gen = session.gen].req = NoRequest
      BY Blanks DEF Hold
    <2> QED BY <1>1, <2>1, <2>2 DEF PrepareSend, OnlyCalls, hold
  <1>3. CASE WalletConnectBridgeTemplate(c) \/ RecheckGen(c)
    BY <1>0, <1>1, <1>3 DEF WalletConnectBridgeTemplate, RecheckGen, Goto, OnlyCalls, hold, Call
  <1>4. CASE PrepareCall(c)
    <2> DEFINE x == [calls[c] EXCEPT !.pc = "read", !.hold.gen = session.gen]
    <2>1. calls' = [calls EXCEPT ![c] = x]
      BY <1>0, <1>4 DEF PrepareCall
    <2>2. x.hold.req = calls[c].hold.req
      BY <1>0 DEF Call, Hold
    <2> HIDE DEF x
    <2> QED BY <1>1, <1>4, <2>1, <2>2 DEF PrepareCall, OnlyCalls, hold
  <1>5. CASE ReadSigner(c)
    <2> DEFINE x == [calls[c] EXCEPT !.pc = "rpc", !.hold.from = session.account,
                                     !.hold.chain = settings.chain]
    <2>1. calls' = [calls EXCEPT ![c] = x]
      BY <1>0, <1>5 DEF ReadSigner
    <2>2. x.hold.req = calls[c].hold.req
      BY <1>0 DEF Call, Hold
    <2> HIDE DEF x
    <2> QED BY <1>1, <1>5, <2>1, <2>2 DEF ReadSigner, OnlyCalls, hold
  <1>6. CASE HoldPending(c)
    <2> DEFINE h == [calls[c].hold EXCEPT !.id = holdCounter + 1, !.req = NoRequest]
    <2>1. pending' = h /\ h.req = NoRequest /\ UNCHANGED <<publishing, journal>>
      BY <1>0, <1>6 DEF HoldPending, Hold
    <2>2. CASE calls[c].hold.req = NoRequest
      BY <1>1, <1>6, <2>1, <2>2, Blanks DEF HoldPending, Return
    <2>3. CASE calls[c].hold.req # NoRequest
      <3> DEFINE x == [calls[c] EXCEPT !.pc = "attach", !.hold.id = h.id]
      <3>1. calls' = [calls EXCEPT ![c] = x]
        BY <1>0, <1>6, <2>3 DEF HoldPending
      <3>2. x.hold.req = calls[c].hold.req
        BY <1>0 DEF Call, Hold
      <3> HIDE DEF x, h
      <3> QED BY <1>1, <2>1, <3>1, <3>2
    <2> QED BY <2>2, <2>3
  <1>7. CASE PrepareFails(c)
    BY <1>1, <1>7, Blanks DEF PrepareFails, Return, OnlyCalls, hold
  <1>8. CASE \E r \in Requests : LookupWalletConnectPublication(c, r)
    <2>1. PICK r \in Requests : LookupWalletConnectPublication(c, r)
      BY <1>8
    <2>2. Unknown(r)
      <3>1. PICK res \in Lookup(journal, r) : res.outcome = "none"
        BY <2>1 DEF LookupWalletConnectPublication, Fresh
      <3>2. /\ KeyOf(r) \notin DOMAIN journal
            /\ FindByIntent(journal, r.topic, IntentOf(r), KeyOf(r)) = {}
            /\ FindByIntentAnyTopic(journal, IntentOf(r), KeyOf(r), r.topic) = {}
        BY <3>1 DEF Lookup, ReplayResult
      <3> QED BY <3>2 DEF FindByIntent, FindByIntentAnyTopic, Unknown
    <2>3. /\ \A d \in Callers : calls[d].hold.req = NoRequest
          /\ pending.req = NoRequest /\ confirm.snap.req = NoRequest
      BY <2>1 DEF LookupWalletConnectPublication, SlotFree, confirm
    <2>4. /\ calls'[c].hold.req = r
          /\ \A d \in Callers \ {c} : calls'[d].hold.req = NoRequest
          /\ UNCHANGED <<pending, worker, journal>>
      <3>1. [NoHold EXCEPT !.effect = r.effect, !.req = r].req = r
        BY Blanks DEF Hold
      <3> QED BY <1>0, <2>1, <2>3, <3>1
              DEF LookupWalletConnectPublication, OnlyCalls, hold, publishing
    <2>5. CallsSlot'
      BY <2>2, <2>3, <2>4 DEF CallsSlot, Unknown, confirm
    <2>6. HoldSlot' /\ ConfirmSlot' /\ OneRecordPerIntent'
      BY <2>3, <2>4 DEF HoldSlot, ConfirmSlot, OneRecordPerIntent, SlotInv, confirm
    <2> QED BY <2>5, <2>6 DEF SlotInv
  <1>9. CASE AttachWalletConnectIdentity(c)
    <2> DEFINE h == calls[c].hold
    <2>1. /\ calls' = [calls EXCEPT ![c] = NoCall]
          /\ pending' = IF pending.id = h.id THEN [pending EXCEPT !.req = h.req] ELSE pending
          /\ UNCHANGED <<publishing, journal>>
      BY <1>9 DEF AttachWalletConnectIdentity, Return
    <2>2. CASE pending.id # h.id
      BY <1>1, <2>1, <2>2, Blanks
    <2>3. CASE pending.id = h.id
      <3>1. h.req # NoRequest /\ pending'.req = h.req
        BY <1>0, <1>9, <2>1, <2>3 DEF AttachWalletConnectIdentity, CallTyped, Hold
      <3>2. /\ Unknown(h.req) /\ confirm.snap.req = NoRequest
            /\ \A d \in Callers : calls[d].hold.req # NoRequest => c = d
        BY <3>1 DEF SlotInv, CallsSlot
      <3>3. \A d \in Callers : calls'[d].hold.req = NoRequest
        BY <1>0, <2>1, <3>2, Blanks
      <3>4. journal' = journal /\ confirm' = confirm
        BY <2>1 DEF publishing, confirm
      <3>5. HoldSlot'
        BY <3>1, <3>2, <3>4 DEF HoldSlot, Unknown
      <3> QED BY <3>2, <3>3, <3>4, <3>5
              DEF SlotInv, CallsSlot, ConfirmSlot, OneRecordPerIntent
    <2> QED BY <2>2, <2>3
  <1> QED BY <1>2, <1>3, <1>4, <1>5, <1>6, <1>7, <1>8, <1>9 DEF PrepareStep

LEMMA SlotBegins ==
  ASSUME TypeInv, Exclusive, SlotInv, NEW id, ConfirmPublish(id) PROVE SlotInv'
  <1> DEFINE w == [Idle EXCEPT !.pc = "latch", !.asked = id, !.snap = pending]
  <1>1. w.pc = "latch" /\ w.snap = pending
    BY Blanks DEF Worker
  <1>2. worker' = [worker EXCEPT !["confirm"] = w] /\ publishMu = "free"
    BY DEF ConfirmPublish, Begin
  <1> HIDE DEF w
  <1>3. confirm' = w /\ UNCHANGED <<pending, calls, journal>>
    BY <1>2 DEF TypeInv, WorkersInv, WorkersOK, ConfirmPublish, hold, confirm
  <1>4. confirm.snap.req = NoRequest
    BY <1>2, Blanks DEF Exclusive, confirm
  <1>5. CallsSlot'
    BY <1>1, <1>3 DEF SlotInv, CallsSlot, Unknown
  <1>6. pending.req # NoRequest => Unknown(pending.req)
    BY <1>4 DEF SlotInv, HoldSlot
  <1>7. HoldSlot' /\ ConfirmSlot'
    BY <1>1, <1>3, <1>6 DEF HoldSlot, ConfirmSlot, Unknown
  <1> QED BY <1>3, <1>5, <1>7 DEF SlotInv, OneRecordPerIntent

\* The record of a request that nothing was retained for is the only one.
LEMMA SlotJournal ==
  ASSUME TypeInv, SlotInv, JournalSigned PROVE SlotInv'
  <1> DEFINE r == confirm.snap.req
             rec == [intent |-> IntentOf(r), state |-> "signed", hash |-> confirm.hash]
  <1>1. confirm.pc = "journal" /\ r # NoRequest /\ WorkersOK
    BY DEF JournalSigned, At, confirm, TypeInv, WorkersInv, WorkerTyped
  <1>2. /\ confirm'.snap = confirm.snap /\ confirm'.pc = "publish"
        /\ UNCHANGED <<pending, calls>>
    BY <1>1, ConfirmAdvances DEF JournalSigned, WorkerPcs, hold
  <1>3. /\ DOMAIN journal' = DOMAIN journal \cup {KeyOf(r)}
        /\ journal'[KeyOf(r)].intent = IntentOf(r)
        /\ \A k \in DOMAIN journal : k # KeyOf(r) => journal'[k] = journal[k]
    <2>1. journal' = Put(journal, KeyOf(r), rec) /\ rec.intent = IntentOf(r)
      BY DEF JournalSigned
    <2> HIDE DEF rec
    <2> QED BY <2>1 DEF Put
  <1>4. Unknown(r)
    BY <1>1 DEF SlotInv, ConfirmSlot
  <1>5. CallsSlot'
    BY <1>1, <1>2 DEF SlotInv, CallsSlot
  <1>6. HoldSlot' /\ ConfirmSlot'
    BY <1>1, <1>2 DEF SlotInv, HoldSlot, ConfirmSlot
  <1>7. OneRecordPerIntent'
    BY <1>3, <1>4 DEF SlotInv, OneRecordPerIntent, Unknown
  <1> QED BY <1>5, <1>6, <1>7 DEF SlotInv

LEMMA SlotConfirm ==
  ASSUME TypeInv, SlotInv, ConfirmStep PROVE SlotInv'
  <1>0. WorkersOK
    BY DEF TypeInv, WorkersInv
  <1>1. UNCHANGED calls /\ (ConfirmGoesOn \/ ConfirmStops)
    BY ConfirmMoves
  <1>2. ASSUME ~JournalSigned PROVE NoNewRecord
    <2>1. CASE FinishConfirm
      BY <2>1, MarkedNoNewRecord DEF FinishConfirm, TypeInv, NoNewRecord
    <2>2. CASE journal' = journal
      BY <2>2 DEF NoNewRecord
    <2> QED BY <1>2, <2>1, <2>2
            DEF ConfirmStep, LatchHold, CheckSession, ReadKey, PrepareBlock,
                PrepareBlockFails, RecheckBuilt, JournalFails, Publish, PublishFails,
                OnlyWorker, OnlySubmit
  <1>3. ASSUME ~JournalSigned, ConfirmGoesOn PROVE SlotInv'
    <2>1. confirm.pc \in {"publish", "mark"} => confirm'.pc \in {"publish", "mark"}
      <3>1. CASE Publish
        BY <1>0, <3>1, ConfirmAdvances DEF Publish, WorkerPcs
      <3>2. CASE PublishFails \/ FinishConfirm
        BY <1>0, <1>3, <3>2, ConfirmEnds, Blanks
        DEF PublishFails, FinishConfirm, GiveUp, ConfirmGoesOn
      <3>3. CASE confirm.pc \notin {"publish", "mark"}
        BY <3>3
      <3> QED BY <1>3, <3>1, <3>2, <3>3
              DEF ConfirmStep, LatchHold, CheckSession, ReadKey, PrepareBlock,
                  PrepareBlockFails, RecheckBuilt, JournalFails, At, confirm
    <2> QED BY <1>1, <1>2, <1>3, <2>1, SlotKept DEF ConfirmGoesOn
  <1>4. ASSUME ~JournalSigned, ConfirmStops PROVE SlotInv'
    <2>1. confirm'.snap.req = NoRequest /\ (pending' = pending \/ pending'.req = NoRequest)
      BY <1>4, Blanks DEF ConfirmStops
    <2>2. ASSUME confirm.pc \in {"publish", "mark"}, confirm.snap.req # NoRequest
          PROVE  pending'.req = NoRequest
      <3>1. CASE GiveUp
        BY <2>2, <3>1, Blanks DEF GiveUp, ClearIf, SlotInv, HoldSlot
      <3>2. CASE Publish
        BY <1>0, <1>4, <3>2, ConfirmAdvances, Blanks DEF Publish, WorkerPcs, ConfirmStops
      <3> QED BY <1>4, <2>2, <3>1, <3>2
              DEF ConfirmStep, LatchHold, CheckSession, ReadKey, PrepareBlock,
                  PrepareBlockFails, RecheckBuilt, JournalFails, PublishFails,
                  FinishConfirm, At, confirm
    <2> QED BY <1>1, <1>2, <1>4, <2>1, <2>2, SlotKept
  <1> QED BY <1>1, <1>3, <1>4, SlotJournal

LEMMA SlotNext ==
  ASSUME TypeInv, Exclusive, SlotInv, OneAtATime, [Next]_vars PROVE SlotInv'
  <1>1. ASSUME OtherPublication PROVE SlotInv'
    <2>1. UNCHANGED <<pending, calls>> /\ confirm' = confirm
      BY <1>1, OthersLeaveTheHold DEF TypeInv, WorkersInv, hold
    <2>2. NoNewRecord
      <3>1. CASE FinishReconcile
        BY <3>1, MarkedNoNewRecord DEF FinishReconcile, TypeInv
      <3>2. CASE journal' = journal
        BY <3>2 DEF NoNewRecord
      <3> QED BY <1>1, <3>1, <3>2
              DEF OtherPublication, Receive, ReceiveStep, ReceiveGuard, ReceiveChain,
                  ReceiveSign, ReceiveFails, ReceivePublish, ReconcileStep,
                  ReconcileWalletConnectPublication, ReconcileFound, ReconcileNotFound,
                  ReconcileQueryFails, Rebroadcast, RebroadcastFails, OnlyWorker, OnlySubmit
    <2> QED BY <2>1, <2>2, SlotKept
  <1>2. ASSUME NEW k \in Keys, AckWalletConnectResult(k) PROVE SlotInv'
    <2>1. NoNewRecord
      BY <1>2 DEF AckWalletConnectResult, DeletePublished, CanDelete, Restrict, NoNewRecord
    <2> QED BY <1>2, <2>1, SlotKept DEF AckWalletConnectResult, hold, publishing, confirm
  <1>3. ASSUME NEW id, CancelPending(id) PROVE SlotInv'
    BY <1>3, SlotKept, Blanks DEF CancelPending, publishing, confirm, NoNewRecord
  <1>4. CASE UNCHANGED vars
    BY <1>4, SlotKept DEF vars, hold, publishing, confirm, NoNewRecord
  <1> QED BY <1>1, <1>2, <1>3, <1>4, SlotEnvironment, SlotPrepare, SlotBegins, SlotConfirm
          DEF Next, OtherPublication

LEMMA SlotInvariant == ASSUME OneAtATime PROVE Spec => []SlotInv
  <1>1. Init => SlotInv
    BY Blanks DEF Init, SlotInv, CallsSlot, HoldSlot, ConfirmSlot, OneRecordPerIntent,
       EmptyJournal, confirm
  <1>2. TypeInv /\ PublicationInv /\ SlotInv /\ [Next]_vars => SlotInv'
    BY SlotNext DEF PublicationInv
  <1> QED BY <1>1, <1>2, TypeInvariant, PublicationInvariant, PTL DEF Spec

-----------------------------------------------------------------------------
(* What is handed over is retained until it is acknowledged. *)

\* All that a step can do to the journal and to what has been handed over.
Unrelated == UNCHANGED <<sent, acked, blocks, journal>>
Signs == UNCHANGED <<sent, acked, journal>> /\ \A i \in 1..Len(blocks) : blocks'[i] = blocks[i]
Submits(op) == worker[op].pc = "publish" /\ (Accepted(op) \/ NoReply(op)) /\ OnlySubmit
Marks(op) ==
  /\ worker[op].pc = "mark" /\ worker[op].snap.req # NoRequest
  /\ Marked(KeyOf(worker[op].snap.req))
  /\ UNCHANGED <<sent, acked, blocks>>

LEMMA StepKinds ==
  ASSUME TypeInv, PublicationInv, [Next]_vars
  PROVE  \/ Unrelated \/ Signs \/ JournalSigned
         \/ \E op \in Ops : Submits(op) \/ Marks(op)
         \/ \E k \in Keys : AckWalletConnectResult(k)
  <1>1. CASE Environment
    BY <1>1 DEF Environment, Unlock, SelectAccount, Lock, ChangeSession, ClearPending,
       InstallConnection, Disconnect, SetChainID, SetAllowMainnetSend, Restart, ghosts,
       ledger, Unrelated
  <1>2. ASSUME NEW c \in Callers, PrepareStep(c) PROVE Unrelated
    BY <1>2 DEF PrepareStep, PrepareSend, LookupWalletConnectPublication,
       WalletConnectBridgeTemplate, PrepareCall, ReadSigner, RecheckGen, HoldPending,
       AttachWalletConnectIdentity, PrepareFails, OnlyCalls, ghosts, ledger, Unrelated
  <1>3. ASSUME NEW id, ConfirmPublish(id) \/ CancelPending(id) PROVE Unrelated
    BY <1>3 DEF ConfirmPublish, CancelPending, ghosts, ledger, Unrelated
  <1>4. CASE PrepareBlock \/ ReceiveSign
    <2>0. /\ worker["confirm"].pc = "pow" => confirm.acct \in Accounts /\ Settled(confirm.snap)
          /\ worker["receive"].pc = "send" =>
               receive.acct \in Accounts /\ receive.snap.chain \in Chains
      BY DEF TypeInv, WorkersInv, WorkerTyped, confirm, receive
    <2>1. \A i \in 1..Len(blocks) : blocks'[i] = blocks[i]
      <3>1. CASE PrepareBlock
        BY <2>0, <3>1, Signed DEF PrepareBlock, At, Settled, confirm
      <3>2. CASE ReceiveSign
        BY <2>0, <3>2, Signed DEF ReceiveSign, At, ghosts, receive
      <3> QED BY <1>4, <3>1, <3>2
    <2> QED BY <1>4, <2>1 DEF PrepareBlock, ReceiveSign, ghosts, Signs
  <1>5. CASE Publish \/ PublishFails \/ ReceivePublish \/ Rebroadcast \/ RebroadcastFails
    BY <1>5 DEF Publish, PublishFails, ReceivePublish, Rebroadcast, RebroadcastFails, At,
       Submits
  <1>6. CASE FinishConfirm
    BY <1>6 DEF FinishConfirm, At, confirm, ghosts, ledger, Marks, Unrelated
  <1>7. CASE FinishReconcile
    BY <1>7 DEF FinishReconcile, At, reconcile, ghosts, ledger, Marks, PublicationInv,
       WorkerInv
  <1>8. CASE \/ LatchHold \/ CheckSession \/ ReadKey \/ PrepareBlockFails \/ RecheckBuilt
             \/ JournalFails
             \/ Receive \/ ReceiveGuard \/ ReceiveChain \/ ReceiveFails
             \/ (\E k \in Keys : ReconcileWalletConnectPublication(k))
             \/ ReconcileFound \/ ReconcileNotFound \/ ReconcileQueryFails
    BY <1>8 DEF LatchHold, CheckSession, ReadKey, PrepareBlockFails, RecheckBuilt,
       JournalFails, Receive, ReceiveGuard, ReceiveChain, ReceiveFails,
       ReconcileWalletConnectPublication, ReconcileFound, ReconcileNotFound,
       ReconcileQueryFails, OnlyWorker, ghosts, ledger, Unrelated
  <1>9. CASE UNCHANGED vars
    BY <1>9 DEF vars, ghosts, ledger, Unrelated
  <1> QED BY <1>1, <1>2, <1>3, <1>4, <1>5, <1>6, <1>7, <1>8, <1>9
          DEF Next, ConfirmStep, ReceiveStep, ReconcileStep

\* A step that hands nothing over and forgets no hash.
LEMMA SentFrame ==
  ASSUME TypeInv, SentIsJournaled, UNCHANGED <<sent, acked>>,
         \A i \in 1..Len(blocks) : blocks'[i] = blocks[i],
         \A k \in DOMAIN journal : k \in DOMAIN journal' /\ journal'[k].hash = journal[k].hash
  PROVE  SentIsJournaled'
  <1>1. \A b \in sent : blocks'[b] = blocks[b]
    BY DEF TypeInv, LedgerOK
  <1> QED BY <1>1 DEF SentIsJournaled, WalletConnectSent

LEMMA MarkedKeepsHashes ==
  ASSUME RecordsTyped, NEW x, Marked(x)
  PROVE  \A k \in DOMAIN journal : k \in DOMAIN journal' /\ journal'[k].hash = journal[k].hash
  <1>1. CASE journal' = journal
    BY <1>1
  <1>2. CASE journal' # journal
    <2>1. journal' = [journal EXCEPT ![x].state = "published"]
      BY <1>2 DEF Marked, MarkPublished
    <2>2. \A rec \in Record : [rec EXCEPT !.state = "published"].hash = rec.hash
      BY DEF Record
    <2>3. \A k \in DOMAIN journal :
            journal'[k] = IF k = x THEN [journal[k] EXCEPT !.state = "published"]
                                   ELSE journal[k]
      BY <2>1
    <2> QED BY <2>1, <2>2, <2>3 DEF RecordsTyped, JournalOK
  <1> QED BY <1>1, <1>2

LEMMA SentSubmit ==
  ASSUME PublicationInv, SentIsJournaled, NEW op \in Ops, Submits(op)
  PROVE  SentIsJournaled'
  <1> DEFINE h == worker[op].hash
  <1>1. sent' = sent \cup {h} /\ UNCHANGED <<blocks, journal, acked>>
    BY DEF Submits, Accepted, NoReply, OnlySubmit
  <1>2. /\ blocks[h].req = worker[op].snap.req
        /\ worker[op].snap.req # NoRequest => Records(KeyOf(worker[op].snap.req), h)
    BY DEF Submits, PublicationInv, WorkerInv, InHand, HasHash
  <1> HIDE DEF h
  <1> QED BY <1>1, <1>2 DEF SentIsJournaled, WalletConnectSent, Records

\* Prepared one at a time, a record never replaces one whose block is out.
LEMMA SentJournal ==
  ASSUME TypeInv, SlotInv, SentIsJournaled, JournalSigned PROVE SentIsJournaled'
  <1> DEFINE r == confirm.snap.req
  <1>1. r # NoRequest /\ confirm.pc = "journal"
    BY DEF JournalSigned, At, confirm, TypeInv, WorkersInv, WorkerTyped
  <1>2. KeyOf(r) \notin DOMAIN journal
    BY <1>1 DEF SlotInv, ConfirmSlot, Unknown
  <1>3. \A k \in DOMAIN journal : k \in DOMAIN journal' /\ journal'[k] = journal[k]
    BY <1>2 DEF JournalSigned, Put
  <1>4. UNCHANGED <<sent, acked, blocks>>
    BY DEF JournalSigned, ghosts, ledger
  <1> QED BY <1>3, <1>4, SentFrame

LEMMA SentAcknowledge ==
  ASSUME SentIsJournaled, NEW k \in Keys, AckWalletConnectResult(k) PROVE SentIsJournaled'
  <1>1. /\ DOMAIN journal' = DOMAIN journal \ {k}
        /\ \A x \in DOMAIN journal' : journal'[x] = journal[x]
        /\ acked' = acked \cup {journal[k].hash} /\ UNCHANGED <<blocks, sent>>
    BY DEF AckWalletConnectResult, DeletePublished, CanDelete, Restrict, ledger
  <1> QED BY <1>1 DEF SentIsJournaled, WalletConnectSent

LEMMA SentNext ==
  ASSUME TypeInv, PublicationInv, SlotInv, SentIsJournaled, [Next]_vars
  PROVE  SentIsJournaled'
  <1>1. CASE Unrelated \/ Signs
    BY <1>1, SentFrame DEF Unrelated, Signs
  <1>2. ASSUME NEW op \in Ops, Marks(op) PROVE SentIsJournaled'
    BY <1>2, MarkedKeepsHashes, SentFrame DEF Marks, TypeInv
  <1> QED BY <1>1, <1>2, StepKinds, SentSubmit, SentJournal, SentAcknowledge

\* A WalletConnect block that may be on chain stays in the journal until its
\* result is acknowledged, for any requests, callers, crashes and disk failures,
\* provided that prepares come from the store's slot.
THEOREM SentStaysJournaled == ASSUME OneAtATime PROVE Spec => []SentIsJournaled
  <1>1. Init => SentIsJournaled
    BY DEF Init, SentIsJournaled, WalletConnectSent
  <1>2. TypeInv /\ PublicationInv /\ SlotInv /\ SentIsJournaled /\ [Next]_vars
          => SentIsJournaled'
    BY SentNext
  <1> QED BY <1>1, <1>2, TypeInvariant, PublicationInvariant, SlotInvariant, PTL DEF Spec

\* At most one unacknowledged block is out per request key and per intent,
\* under the same proviso.
THEOREM PublishedExactlyOnce == ASSUME OneAtATime PROVE Spec => []ExactlyOnce
  <1>1. PublicationInv /\ SlotInv /\ SentIsJournaled => ExactlyOnce
    <2> SUFFICES ASSUME RecordsInv, OneRecordPerIntent, SentIsJournaled,
                        NEW b1 \in WalletConnectSent \ acked,
                        NEW b2 \in WalletConnectSent \ acked,
                        \/ KeyOf(blocks[b1].req) = KeyOf(blocks[b2].req)
                        \/ IntentOf(blocks[b1].req) = IntentOf(blocks[b2].req)
                 PROVE  b1 = b2
      BY DEF PublicationInv, SlotInv, ExactlyOnce
    <2> DEFINE k1 == KeyOf(blocks[b1].req)
               k2 == KeyOf(blocks[b2].req)
    <2>1. /\ k1 \in DOMAIN journal /\ journal[k1].hash = b1
          /\ k2 \in DOMAIN journal /\ journal[k2].hash = b2
      BY DEF SentIsJournaled
    <2>2. /\ journal[k1].intent = IntentOf(blocks[b1].req)
          /\ journal[k2].intent = IntentOf(blocks[b2].req)
      BY <2>1 DEF RecordsInv
    <2>3. k1 = k2
      BY <2>1, <2>2 DEF OneRecordPerIntent
    <2> QED BY <2>1, <2>3
  <1> QED BY <1>1, PublicationInvariant, SlotInvariant, SentStaysJournaled, PTL

-----------------------------------------------------------------------------
(* The refinement: every step signs, hands over, resolves or acknowledges a *)
(* retained block as PublishOnce does, or is none of its business.          *)

LEMMA PromiseFrame ==
  ASSUME TypeInv, Unrelated \/ Signs PROVE UNCHANGED Promise!vars
  <1>1. \A b \in sent : blocks'[b] = blocks[b]
    BY DEF TypeInv, LedgerOK, Unrelated, Signs
  <1>2. UNCHANGED <<sent, journal>>
    BY DEF Unrelated, Signs
  <1> QED BY <1>1, <1>2 DEF Promise!vars, WalletConnectSent

LEMMA PromiseSign ==
  ASSUME TypeInv, PublicationInv, SlotInv, JournalSigned
  PROVE  \E k \in Keys, i \in {IntentOf(r) : r \in Requests}, h \in 1..MaxBlocks :
           Promise!Sign(k, i, h)
  <1> DEFINE r == confirm.snap.req
  <1>1. r \in Requests /\ confirm.pc = "journal"
    BY DEF JournalSigned, At, confirm, TypeInv, WorkersInv, WorkersOK, WorkerTyped, Worker, Hold
  <1>2. r # NoRequest
    BY <1>1, ConstantsAssumption
  <1>3. Unknown(r) /\ confirm.hash \notin sent
    BY <1>1, <1>2 DEF SlotInv, ConfirmSlot, PublicationInv, WorkerInv, InHand, confirm
  <1>4. confirm.hash \in 1..MaxBlocks
    <2>1. confirm.hash \in 1..Len(blocks) /\ Len(blocks) \in Nat
      BY <1>1 DEF TypeInv, WorkersInv, WorkerTyped, HasHash, confirm, LedgerOK
    <2>2. Len(blocks) <= MaxBlocks /\ MaxBlocks \in Nat
      BY ConstantsAssumption DEF PublicationInv, WorkerInv
    <2> QED BY <2>1, <2>2
  <1>5. KeyOf(r) \in Keys /\ IntentOf(r) \in {IntentOf(x) : x \in Requests}
    BY <1>1 DEF Keys
  <1>6. /\ journal' = Put(journal, KeyOf(r), [intent |-> IntentOf(r), state |-> "signed",
                                              hash |-> confirm.hash])
        /\ WalletConnectSent' = WalletConnectSent
    BY DEF JournalSigned, WalletConnectSent, ghosts, ledger
  <1>7. Promise!Sign(KeyOf(r), IntentOf(r), confirm.hash)
    BY <1>3, <1>6 DEF Promise!Sign, Unknown, Put, WalletConnectSent
  <1> QED BY <1>4, <1>5, <1>7

LEMMA PromiseHand ==
  ASSUME TypeInv, PublicationInv, NEW op \in Ops, Submits(op)
  PROVE  (\E k \in Keys : Promise!Hand(k)) \/ UNCHANGED Promise!vars
  <1> DEFINE h == worker[op].hash
             r == worker[op].snap.req
  <1>1. sent' = sent \cup {h} /\ UNCHANGED <<blocks, journal>>
    BY DEF Submits, Accepted, NoReply, OnlySubmit
  <1>2. /\ blocks[h].req = r
        /\ r # NoRequest => KeyOf(r) \in DOMAIN journal /\ journal[KeyOf(r)].hash = h
    BY DEF Submits, PublicationInv, WorkerInv, InHand, HasHash, Records
  <1> HIDE DEF h, r
  <1>3. CASE r = NoRequest
    BY <1>1, <1>2, <1>3 DEF Promise!vars, WalletConnectSent
  <1>4. CASE r # NoRequest
    <2>1. WalletConnectSent' = WalletConnectSent \cup {h}
      BY <1>1, <1>2, <1>4 DEF WalletConnectSent
    <2>2. Promise!Hand(KeyOf(r)) /\ KeyOf(r) \in Keys
      BY <1>1, <1>2, <1>4, <2>1 DEF Promise!Hand, TypeInv, RecordsTyped, JournalOK
    <2> QED BY <2>2
  <1> QED BY <1>3, <1>4

LEMMA PromiseResolve ==
  ASSUME TypeInv, PublicationInv, NEW op \in Ops, Marks(op)
  PROVE  (\E k \in Keys : Promise!Resolve(k)) \/ UNCHANGED Promise!vars
  <1> DEFINE h == worker[op].hash
             r == worker[op].snap.req
  <1>1. /\ blocks[h].req = r /\ h \in sent /\ r # NoRequest
        /\ KeyOf(r) \in DOMAIN journal /\ journal[KeyOf(r)].hash = h
    BY DEF Marks, PublicationInv, WorkerInv, InHand, HasHash, Records
  <1>2. journal' \in {journal, [journal EXCEPT ![KeyOf(r)].state = "published"]}
    BY <1>1 DEF Marks, Marked, MarkPublished
  <1>3. WalletConnectSent' = WalletConnectSent /\ h \in WalletConnectSent
    BY <1>1 DEF Marks, WalletConnectSent
  <1>4. KeyOf(r) \in Keys
    BY <1>1 DEF TypeInv, RecordsTyped, JournalOK
  <1> HIDE DEF h, r
  <1> QED BY <1>1, <1>2, <1>3, <1>4 DEF Promise!Resolve, Promise!vars

LEMMA PromiseAcknowledge ==
  ASSUME NEW k \in Keys, AckWalletConnectResult(k) PROVE Promise!Acknowledge(k)
  BY DEF AckWalletConnectResult, DeletePublished, CanDelete, Restrict, Promise!Acknowledge,
     WalletConnectSent, ledger

LEMMA PromiseNext ==
  ASSUME TypeInv, PublicationInv, SlotInv, [Next]_vars
  PROVE  Promise!Next \/ UNCHANGED Promise!vars
  <1>1. JournalSigned => Promise!Next
    BY PromiseSign DEF Promise!Next
  <1>2. ASSUME NEW op \in Ops, Submits(op) \/ Marks(op)
        PROVE  Promise!Next \/ UNCHANGED Promise!vars
    BY <1>2, PromiseHand, PromiseResolve DEF Promise!Next
  <1>3. ASSUME NEW k \in Keys, AckWalletConnectResult(k) PROVE Promise!Next
    BY <1>3, PromiseAcknowledge DEF Promise!Next
  <1> QED BY <1>1, <1>2, <1>3, PromiseFrame, StepKinds

\* The service keeps the promise of PublishOnce: it signs only for a request
\* nothing is retained for, broadcasts only retained blocks, and forgets one only
\* when its outcome is known, provided that prepares come one at a time.
THEOREM Refinement == ASSUME OneAtATime PROVE Spec => ImplementsPublishOnce
  <1>1. Init => Promise!Init
    BY DEF Init, Promise!Init, WalletConnectSent, EmptyJournal
  <1>2. TypeInv /\ PublicationInv /\ SlotInv /\ [Next]_vars => [Promise!Next]_(Promise!vars)
    BY PromiseNext
  <1> QED BY <1>1, <1>2, TypeInvariant, PublicationInvariant, SlotInvariant, PTL
          DEF Spec, ImplementsPublishOnce, Promise!Spec
-----------------------------------------------------------------------------
(* Where a block is handed over: to a node of its own chain, on mainnet    *)
(* only with the opt-in, and as the successor of its account's chain, for  *)
(* any interleaving of reconnects, setting changes, sends, receives and    *)
(* rebroadcasts.                                                           *)

(* What a step leaves alone. *)

\* The frontier counts blocks that are on chain, and a signed block stays as it is.
LEMMA FrontierKept ==
  ASSUME LedgerOK, onChain' = onChain,
         \A i \in 1..Len(blocks) : blocks'[i] = blocks[i],
         NEW chain, NEW a
  PROVE  Frontier(chain, a)' = Frontier(chain, a)
  <1>1. \A b \in onChain : blocks'[b] = blocks[b]
    BY DEF LedgerOK
  <1>2. {b \in onChain' : blocks'[b].chain = chain /\ blocks'[b].from = a}
          = {b \in onChain : blocks[b].chain = chain /\ blocks[b].from = a}
    BY <1>1
  <1> QED BY <1>2 DEF Frontier

LEMMA IdleNetwork ==
  ASSUME NEW op \in Ops PROVE (ClientInv(Idle) /\ Extends(op, Idle))'
  BY Blanks DEF ClientInv, Extends, HasClient, HasHash, PastGuard

\* A step of one publication: the others have nothing in progress.
LEMMA NetworkMove ==
  ASSUME TypeInv, PublicationInv, NEW op \in Ops, NEW w, Moves(op, w),
         (settings.optIn => consent)', ClientInv(w)', Extends(op, w)'
  PROVE  NetworkInv'
  <1>1. worker'[op] = w /\ \A o \in Ops \ {op} : worker'[o] = Idle
    BY MovesAlone DEF TypeInv, WorkersInv, PublicationInv
  <1>2. ASSUME NEW o \in Ops PROVE (ClientInv(worker[o]) /\ Extends(o, worker[o]))'
    <2>1. CASE o = op
      BY <1>1, <2>1 DEF ClientInv, Extends
    <2>2. CASE o # op
      BY <1>1, <2>2, IdleNetwork DEF ClientInv, Extends
    <2> QED BY <2>1, <2>2
  <1> QED BY <1>2 DEF NetworkInv

LEMMA NetworkFrame ==
  ASSUME NetworkInv, UNCHANGED <<node, worker, ledger>>, consent => consent',
         (settings.optIn => consent)'
  PROVE  NetworkInv'
  <1>1. \A op \in Ops : ClientInv(worker[op])'
    BY DEF NetworkInv, ClientInv, Live, Connected, ledger
  <1>2. \A op \in Ops : Extends(op, worker[op])'
    BY DEF NetworkInv, Extends, Frontier, ledger
  <1> QED BY <1>1, <1>2 DEF NetworkInv

\* An end of a publication.
LEMMA NetworkEnd ==
  ASSUME TypeInv, PublicationInv, NetworkInv, NEW op \in Ops, worker[op].pc # "idle",
         End(op), UNCHANGED <<settings, consent>>
  PROVE  NetworkInv'
  <1>1. Moves(op, Idle)
    BY EndMoves DEF PublicationInv
  <1> QED BY <1>1, IdleNetwork, NetworkMove DEF NetworkInv

\* A client carried on with its publication, on an unchanged connection.
LEMMA ClientCarried ==
  ASSUME NEW v, NEW w, ClientInv(v), UNCHANGED <<node, blocks, consent>>,
         v.pc \in HasClient, w.client = v.client,
         w.pc \in {"pow", "send"} => v.pc = w.pc /\ w.snap = v.snap,
         w.pc \in HasHash => v.pc \in HasHash /\ w.hash = v.hash,
         w.pc \in PastGuard =>
           v.pc \in PastGuard \/ (Live(v.client) /\ node.chain = "mainnet" => consent)
  PROVE  ClientInv(w)'
  BY DEF ClientInv, Live, Connected, HasHash, HasClient, PastGuard

-----------------------------------------------------------------------------
(* The connection: a client does not outlive a disconnect. *)

LEMMA NetworkEnvironment ==
  ASSUME TypeInv, NetworkInv, Environment PROVE NetworkInv'
  <1>1. CASE \E chain \in Networks : InstallConnection(chain)
    <2>1. PICK chain \in Networks : InstallConnection(chain)
      BY <1>1
    <2>2. ~Connected /\ node'.conn = node.conn
      BY <2>1 DEF InstallConnection, TypeInv, EnvOK
    <2>3. UNCHANGED <<settings, consent, worker, blocks, onChain>>
      BY <2>1 DEF InstallConnection, publishing, ledger, ghosts
    <2>4. chain # NoChain /\ node'.chain = chain
      BY <2>1, ConstantsAssumption DEF InstallConnection, TypeInv, EnvOK, Chains, NoChain
    <2>5. ASSUME NEW op \in Ops PROVE ClientInv(worker[op])'
      <3>1. ClientInv(worker[op])
        BY DEF NetworkInv
      <3>2. worker[op].pc \in HasClient => worker[op].client <= node.conn /\ worker[op].client # node.conn
        BY <2>2, <3>1 DEF ClientInv
      <3>3. worker[op].pc \in {"pow", "send"} \cup HasHash \cup PastGuard =>
              worker[op].pc \in HasClient
        BY DEF HasClient, PastGuard, HasHash
      <3> QED BY <2>2, <2>3, <3>2, <3>3 DEF ClientInv, Live
    <2>6. \A op \in Ops : Extends(op, worker[op])'
      BY <2>3 DEF NetworkInv, Extends, Frontier
    <2> QED BY <2>3, <2>5, <2>6 DEF NetworkInv
  <1>2. CASE Disconnect
    <2>1. node'.conn = node.conn + 1 /\ node.conn \in Nat
      BY <1>2 DEF Disconnect, TypeInv, EnvOK
    <2>2. UNCHANGED <<settings, consent, worker, blocks, onChain>>
      BY <1>2 DEF Disconnect, publishing, ledger, ghosts
    <2>3. ASSUME NEW op \in Ops PROVE ClientInv(worker[op])'
      <3>1. worker[op].client \in Nat /\ ClientInv(worker[op])
        BY DEF NetworkInv, TypeInv, WorkersInv, WorkersOK, Worker
      <3>2. worker[op].pc \in HasClient =>
              worker[op].client <= node'.conn /\ worker[op].client # node'.conn
        BY <2>1, <3>1 DEF ClientInv
      <3>3. worker[op].pc \in {"pow", "send"} \cup HasHash \cup PastGuard =>
              worker[op].pc \in HasClient
        BY DEF HasClient, PastGuard, HasHash
      <3> QED BY <2>2, <3>2, <3>3 DEF ClientInv, Live
    <2>4. \A op \in Ops : Extends(op, worker[op])'
      BY <2>2 DEF NetworkInv, Extends, Frontier
    <2> QED BY <2>2, <2>3, <2>4 DEF NetworkInv
  <1>3. CASE Restart
    <2>1. \A op \in Ops : worker'[op] = Idle
      BY <1>3 DEF Restart
    <2>2. ASSUME NEW op \in Ops PROVE (ClientInv(worker[op]) /\ Extends(op, worker[op]))'
      BY <2>1, IdleNetwork DEF ClientInv, Extends
    <2> QED BY <1>3, <2>2 DEF NetworkInv, Restart
  <1>4. ASSUME NEW v \in OptIns, SetAllowMainnetSend(v) PROVE NetworkInv'
    <2>1. settings'.optIn = v /\ consent' = (consent \/ v) /\ UNCHANGED <<node, worker, ledger>>
      BY <1>4 DEF SetAllowMainnetSend, TypeInv, EnvOK, publishing
    <2>2. (settings.optIn => consent)' /\ (consent => consent')
      BY <2>1, Zenon
    <2> QED BY <2>1, <2>2, NetworkFrame
  <1>5. CASE \/ \E a \in Accounts : Unlock(a) \/ SelectAccount(a)
             \/ Lock \/ ClearPending \/ \E id \in ChainIDs : SetChainID(id)
    <2>1. settings'.optIn = settings.optIn /\ UNCHANGED <<node, worker, ledger, consent>>
      BY <1>5 DEF Unlock, SelectAccount, Lock, ChangeSession, ClearPending, SetChainID,
         publishing, ghosts, TypeInv, EnvOK
    <2>2. (settings.optIn => consent)'
      BY <2>1 DEF NetworkInv
    <2> QED BY <2>1, <2>2, NetworkFrame
  <1> QED BY <1>1, <1>2, <1>3, <1>4, <1>5 DEF Environment

LEMMA NetworkOthers ==
  ASSUME NetworkInv,
         \/ \E c \in Callers : PrepareStep(c)
         \/ \E id : CancelPending(id)
         \/ \E k \in Keys : AckWalletConnectResult(k)
         \/ UNCHANGED vars
  PROVE  NetworkInv'
  <1>1. UNCHANGED <<node, settings, worker, ledger, consent>>
    BY DEF PrepareStep, PrepareSend, LookupWalletConnectPublication,
       WalletConnectBridgeTemplate, PrepareCall, ReadSigner, RecheckGen, HoldPending,
       AttachWalletConnectIdentity, PrepareFails, OnlyCalls, CancelPending,
       AckWalletConnectResult, env, publishing, ghosts, vars
  <1> QED BY <1>1, NetworkFrame DEF NetworkInv

-----------------------------------------------------------------------------
(* The publications. *)

\* Signing: the new block is for the chain of the snapshot and extends it.
LEMMA NetworkSign ==
  ASSUME TypeInv, PublicationInv, NetworkInv, NEW op \in {"confirm", "receive"}, NEW w,
         Moves(op, w), NEW effect \in Effects \cup {NoEffect}, SignBlock(op, effect),
         worker[op].pc \in {"pow", "send"},
         worker[op].acct \in Accounts, worker[op].snap.chain \in Chains,
         UNCHANGED <<node, settings, journal, onChain, sent, acked>>,
         w.hash = Len(blocks) + 1, w.client = worker[op].client,
         \/ w.pc = "recheck" /\ consent' = settings.optIn
         \/ w.pc = "publish" /\ consent' = consent /\ worker[op].pc \in PastGuard
  PROVE  NetworkInv'
  <1>0. PICK chain, a : chain = worker[op].snap.chain /\ a = worker[op].acct
    OBVIOUS
  <1>1. /\ \A i \in 1..Len(blocks) : blocks'[i] = blocks[i]
        /\ blocks'[w.hash] =
             [from |-> worker[op].acct, effect |-> effect, chain |-> worker[op].snap.chain,
              prev |-> Frontier(worker[op].snap.chain, worker[op].acct),
              req |-> worker[op].snap.req]
    BY Signed
  <1>2. /\ blocks'[w.hash].chain = chain /\ blocks'[w.hash].from = a
        /\ blocks'[w.hash].prev = Frontier(chain, a)
    BY <1>0, <1>1
  <1>3. ClientInv(worker[op])
    BY DEF NetworkInv
  <1>4. ClientInv(w)'
    <2>1. worker[op].pc \in HasClient
      BY DEF HasClient
    <2>2. Live(worker[op].client) => node.chain = chain
      BY <1>0, <1>3 DEF ClientInv
    <2> QED BY <1>2, <1>3, <2>1, <2>2
            DEF ClientInv, Live, Connected, HasClient, HasHash, PastGuard
  <1>5. Extends(op, w)'
    <2>1. Frontier(chain, a)' = Frontier(chain, a)
      BY <1>1, FrontierKept DEF TypeInv
    <2> QED BY <1>2, <2>1 DEF Extends
  <1>6. (settings.optIn => consent)'
    BY DEF NetworkInv
  <1> QED BY <1>4, <1>5, <1>6, NetworkMove

\* A step of a publication that neither signs, asks for consent nor hands over.
LEMMA NetworkStep ==
  ASSUME TypeInv, PublicationInv, NetworkInv, NEW op \in Ops, NEW w, Moves(op, w),
         UNCHANGED <<node, settings, blocks, onChain, consent>>,
         worker[op].pc \in HasClient, w.client = worker[op].client,
         w.pc \notin {"pow", "send"},
         w.pc \in HasHash => worker[op].pc \in HasHash /\ w.hash = worker[op].hash,
         w.pc \in PastGuard =>
           \/ worker[op].pc \in PastGuard
           \/ Live(worker[op].client) /\ node.chain = "mainnet" => consent,
         op # "reconcile" /\ w.pc \in {"recheck", "journal", "publish"} =>
           worker[op].pc \in {"recheck", "journal", "publish"}
  PROVE  NetworkInv'
  <1>1. ClientInv(worker[op]) /\ Extends(op, worker[op])
    BY DEF NetworkInv
  <1>2. ClientInv(w)'
    BY <1>1, ClientCarried
  <1>3. Extends(op, w)'
    BY <1>1 DEF Extends, Frontier, HasHash
  <1> QED BY <1>2, <1>3, NetworkMove DEF NetworkInv

\* A submission: its publication goes on to mark its block, or ends.
LEMMA NetworkSubmit ==
  ASSUME TypeInv, PublicationInv, NetworkInv, NEW op \in Ops, NEW w, Moves(op, w),
         worker[op].pc = "publish", OnlySubmit,
         \/ w = Idle
         \/ w.pc = "mark" /\ w.client = worker[op].client /\ w.hash = worker[op].hash
  PROVE  NetworkInv'
  <1>1. UNCHANGED <<node, settings, blocks, consent>>
    BY DEF OnlySubmit, env
  <1>2. ClientInv(w)'
    <2>1. CASE w = Idle
      BY <2>1, IdleNetwork DEF ClientInv
    <2>2. CASE w # Idle
      <3>1. ClientInv(worker[op])
        BY DEF NetworkInv
      <3> QED BY <1>1, <2>2, <3>1, ClientCarried DEF HasClient, HasHash, PastGuard
    <2> QED BY <2>1, <2>2
  <1>3. Extends(op, w)'
    BY Blanks DEF Extends
  <1> QED BY <1>1, <1>2, <1>3, NetworkMove DEF NetworkInv

\* A publication begins, or goes on before it reads a client.
LEMMA NetworkOpens ==
  ASSUME TypeInv, PublicationInv, NetworkInv, NEW op \in Ops, NEW w, Moves(op, w),
         w.pc \notin HasClient, UNCHANGED <<settings, consent>>
  PROVE  NetworkInv'
  <1>1. ClientInv(w)' /\ Extends(op, w)'
    BY DEF ClientInv, Extends, HasClient, HasHash, PastGuard
  <1> QED BY <1>1, NetworkMove DEF NetworkInv

LEMMA NetworkConfirm ==
  ASSUME TypeInv, PublicationInv, NetworkInv,
         ConfirmStep \/ \E id : ConfirmPublish(id)
  PROVE  NetworkInv'
  <1>0. /\ WorkersOK /\ Exclusive /\ confirm \in Worker /\ WorkerTyped("confirm", confirm)
        /\ ClientInv(confirm) /\ Extends("confirm", confirm)
    BY DEF TypeInv, WorkersInv, WorkersOK, PublicationInv, NetworkInv, confirm
  <1>1. ASSUME OnlyWorker, Release, confirm.pc # "idle" PROVE NetworkInv'
    BY <1>1, NetworkEnd DEF OnlyWorker, Release, confirm, env, ghosts
  <1>2. ASSUME NEW id, ConfirmPublish(id) PROVE NetworkInv'
    <2>1. PICK w : w = [Idle EXCEPT !.pc = "latch", !.asked = id, !.snap = pending]
      OBVIOUS
    <2>2. w.pc = "latch"
      BY <2>1, Blanks DEF Worker
    <2>3. Moves("confirm", w) /\ UNCHANGED <<settings, consent>>
      BY <1>2, <2>1, BeginMoves DEF ConfirmPublish, env, ghosts
    <2> QED BY <2>2, <2>3, NetworkOpens DEF HasClient, HasHash
  <1>3. ASSUME NEW pc \in {"session", "key"}, Step("confirm", pc), OnlyWorker,
               confirm.pc # "idle"
        PROVE  NetworkInv'
    <2>1. PICK w \in Worker : Moves("confirm", w) /\ w.pc = pc
      BY <1>0, <1>3, StepMoves DEF confirm, WorkerPcs
    <2> QED BY <1>3, <2>1, NetworkOpens DEF OnlyWorker, HasClient, HasHash, env, ghosts
  <1>4. CASE LatchHold
    BY <1>1, <1>3, <1>4 DEF LatchHold, At, confirm
  <1>5. CASE CheckSession
    BY <1>1, <1>3, <1>5 DEF CheckSession, GiveUp, At, confirm
  <1>6. CASE ReadKey
    <2>1. PICK w : w = [confirm EXCEPT !.pc = "pow", !.acct = session.account,
                                       !.client = node.conn]
      OBVIOUS
    <2>2. CASE Advance("confirm", w) /\ ~Locked /\ node.chain = confirm.snap.chain
      <3>1. w.pc = "pow" /\ w.client = node.conn /\ w.snap = confirm.snap
        BY <1>0, <2>1 DEF Worker
      <3>2. Moves("confirm", w)
        BY <1>0, <1>6, <2>2, AdvanceMoves DEF ReadKey, At, confirm
      <3>3. UNCHANGED <<node, settings, blocks, consent>>
        BY <1>6 DEF ReadKey, OnlyWorker, env, ledger, ghosts
      <3>4. node.conn \in Nat /\ confirm.snap.chain \in Chains
        BY <1>0, <1>6 DEF ReadKey, At, confirm, WorkerTyped, Settled, TypeInv, EnvOK
      <3>5. ClientInv(w)'
        BY <2>2, <3>1, <3>3, <3>4
        DEF ClientInv, Live, Connected, HasHash, PastGuard, Chains, NoChain
      <3>6. Extends("confirm", w)'
        BY <3>1 DEF Extends
      <3> QED BY <3>2, <3>3, <3>5, <3>6, NetworkMove DEF NetworkInv
    <2>3. CASE GiveUp \/ Refuse
      BY <1>1, <1>6, <2>3 DEF ReadKey, GiveUp, Refuse, At, confirm
    <2> QED BY <1>6, <2>1, <2>2, <2>3 DEF ReadKey
  <1>7. CASE PrepareBlock
    <2>1. PICK w : w = [confirm EXCEPT !.pc = "recheck", !.hash = Len(blocks) + 1]
      OBVIOUS
    <2>2. w.pc = "recheck" /\ w.hash = Len(blocks) + 1 /\ w.client = confirm.client
      BY <1>0, <2>1 DEF Worker
    <2>3. Moves("confirm", w) /\ confirm.pc = "pow"
      BY <1>0, <1>7, <2>1, AdvanceMoves DEF PrepareBlock, At, confirm
    <2>4. confirm.acct \in Accounts /\ confirm.snap.chain \in Chains
          /\ confirm.snap.effect \in Effects
      BY <1>0, <2>3 DEF WorkerTyped, Settled
    <2> QED BY <1>7, <2>2, <2>3, <2>4, NetworkSign DEF PrepareBlock, confirm, env
  <1>8. CASE PrepareBlockFails \/ JournalFails
    BY <1>1, <1>8 DEF PrepareBlockFails, JournalFails, GiveUp, At, confirm
  <1>9. CASE RecheckBuilt
    <2> DEFINE pc == IF confirm.snap.req = NoRequest THEN "publish" ELSE "journal"
    <2>1. CASE /\ Step("confirm", pc) /\ GuardChain(blocks[confirm.hash].chain)
               /\ blocks[confirm.hash].chain = node.chain
      <3>1. PICK w \in Worker : /\ Moves("confirm", w) /\ w.pc = pc
                                /\ w.client = confirm.client /\ w.hash = confirm.hash
        BY <1>0, <1>9, <2>1, StepMoves DEF RecheckBuilt, At, confirm, WorkerPcs
      <3>2. confirm.pc = "recheck" /\ UNCHANGED <<node, settings, blocks, onChain, consent>>
        BY <1>9 DEF RecheckBuilt, OnlyWorker, At, confirm, env, ledger, ghosts
      <3>3. node.chain = "mainnet" => consent
        BY <2>1 DEF GuardChain, NetworkInv
      <3> QED BY <3>1, <3>2, <3>3, NetworkStep DEF HasClient, HasHash, confirm
    <2>2. CASE GiveUp \/ Refuse
      BY <1>1, <1>9, <2>2 DEF RecheckBuilt, GiveUp, Refuse, At, confirm
    <2> QED BY <1>9, <2>1, <2>2 DEF RecheckBuilt
  <1>10. CASE JournalSigned
    <2>1. PICK w \in Worker : /\ Moves("confirm", w) /\ w.pc = "publish"
                              /\ w.client = confirm.client /\ w.hash = confirm.hash
      BY <1>0, <1>10, StepMoves DEF JournalSigned, At, confirm, WorkerPcs
    <2>2. confirm.pc = "journal" /\ UNCHANGED <<node, settings, blocks, onChain, consent>>
      BY <1>10 DEF JournalSigned, At, confirm, env, ledger, ghosts
    <2> QED BY <2>1, <2>2, NetworkStep DEF HasClient, HasHash, PastGuard, confirm
  <1>11. CASE Publish
    <2>1. PICK w \in Worker : /\ Moves("confirm", w) /\ w.pc = "mark"
                              /\ w.client = confirm.client /\ w.hash = confirm.hash
      BY <1>0, <1>11, StepMoves DEF Publish, At, confirm, WorkerPcs
    <2> QED BY <1>11, <2>1, NetworkSubmit DEF Publish, At, confirm
  <1>12. CASE PublishFails
    <2>1. Moves("confirm", Idle)
      BY <1>0, <1>12, EndMoves DEF PublishFails, GiveUp, Release, At
    <2> QED BY <1>12, <2>1, NetworkSubmit DEF PublishFails, At
  <1>13. CASE FinishConfirm
    BY <1>13, NetworkEnd DEF FinishConfirm, GiveUp, Release, At, confirm, env, ghosts
  <1> QED BY <1>2, <1>4, <1>5, <1>6, <1>7, <1>8, <1>9, <1>10, <1>11, <1>12, <1>13
          DEF ConfirmStep

LEMMA NetworkReceive ==
  ASSUME TypeInv, PublicationInv, NetworkInv, Receive \/ ReceiveStep PROVE NetworkInv'
  <1>0. /\ WorkersOK /\ Exclusive /\ receive \in Worker /\ WorkerTyped("receive", receive)
        /\ ClientInv(receive) /\ node.conn \in Nat
    BY DEF TypeInv, WorkersInv, WorkersOK, PublicationInv, NetworkInv, EnvOK, receive
  <1>1. ASSUME OnlyWorker, End("receive"), receive.pc # "idle" PROVE NetworkInv'
    BY <1>1, NetworkEnd DEF OnlyWorker, receive, env, ghosts
  <1>2. CASE Receive
    <2>1. PICK w : w = [Idle EXCEPT !.pc = "guard", !.client = node.conn]
      OBVIOUS
    <2>2. w.pc = "guard" /\ w.client = node.conn
      BY <2>1, Blanks DEF Worker
    <2>3. /\ Moves("receive", w) /\ Connected /\ UNCHANGED <<node, settings>>
          /\ consent' = settings.optIn
      BY <1>2, <2>1, BeginMoves DEF Receive, env
    <2>4. ClientInv(w)'
      BY <1>0, <2>2, <2>3 DEF ClientInv, Connected, HasHash, PastGuard
    <2>5. Extends("receive", w)'
      BY <2>2 DEF Extends
    <2> QED BY <2>3, <2>4, <2>5, NetworkMove
  <1>3. CASE ReceiveGuard
    <2>1. receive.pc = "guard" /\ OnlyWorker
      BY <1>3 DEF ReceiveGuard, At, receive
    <2>2. CASE Step("receive", "chain") /\ GuardChain(node.chain)
      <3>1. PICK w \in Worker : /\ Moves("receive", w) /\ w.pc = "chain"
                                /\ w.client = receive.client
        BY <1>0, <2>1, <2>2, StepMoves DEF receive, WorkerPcs
      <3>2. node.chain = "mainnet" => consent
        BY <2>2 DEF GuardChain, NetworkInv
      <3>3. UNCHANGED <<node, settings, blocks, onChain, consent>>
        BY <2>1 DEF OnlyWorker, env, ledger, ghosts
      <3> QED BY <2>1, <3>1, <3>2, <3>3, NetworkStep DEF HasClient, HasHash, receive
    <2>3. CASE End("receive")
      BY <1>1, <2>1, <2>3
    <2> QED BY <1>3, <2>2, <2>3 DEF ReceiveGuard
  <1>4. CASE ReceiveChain
    <2>1. PICK w : w = [receive EXCEPT !.pc = "send", !.acct = session.account,
                                       !.snap.chain = settings.chain]
      OBVIOUS
    <2>2. CASE Advance("receive", w) /\ settings.chain = node.chain
      <3>1. w.pc = "send" /\ w.client = receive.client /\ w.snap.chain = settings.chain
        BY <1>0, <2>1 DEF Worker, Hold
      <3>2. Moves("receive", w) /\ receive.pc = "chain"
        BY <1>0, <1>4, <2>2, AdvanceMoves DEF ReceiveChain, At, receive
      <3>3. UNCHANGED <<node, settings, consent>>
        BY <1>4 DEF ReceiveChain, OnlyWorker, env, ghosts
      <3>4. ClientInv(w)'
        BY <1>0, <2>2, <3>1, <3>2, <3>3
        DEF ClientInv, Live, Connected, HasClient, HasHash, PastGuard
      <3>5. Extends("receive", w)'
        BY <3>1 DEF Extends
      <3> QED BY <3>2, <3>3, <3>4, <3>5, NetworkMove DEF NetworkInv
    <2>3. CASE End("receive")
      BY <1>1, <1>4, <2>3 DEF ReceiveChain, At, receive
    <2> QED BY <1>4, <2>1, <2>2, <2>3 DEF ReceiveChain
  <1>5. CASE ReceiveSign
    <2>1. PICK w : w = [receive EXCEPT !.pc = "publish", !.hash = Len(blocks) + 1]
      OBVIOUS
    <2>2. w.pc = "publish" /\ w.hash = Len(blocks) + 1 /\ w.client = receive.client
      BY <1>0, <2>1 DEF Worker
    <2>3. Moves("receive", w) /\ receive.pc = "send"
      BY <1>0, <1>5, <2>1, AdvanceMoves DEF ReceiveSign, At, receive
    <2>4. receive.acct \in Accounts /\ receive.snap.chain \in Chains
      BY <1>0, <2>3 DEF WorkerTyped
    <2> QED BY <1>5, <2>2, <2>3, <2>4, NetworkSign
            DEF ReceiveSign, receive, PastGuard, env, ghosts
  <1>6. CASE ReceiveFails
    BY <1>1, <1>6 DEF ReceiveFails, At, receive
  <1>7. CASE ReceivePublish
    <2>1. Moves("receive", Idle)
      BY <1>0, <1>7, EndMoves DEF ReceivePublish, At
    <2> QED BY <1>7, <2>1, NetworkSubmit DEF ReceivePublish, At
  <1> QED BY <1>2, <1>3, <1>4, <1>5, <1>6, <1>7 DEF ReceiveStep

LEMMA NetworkReconcile ==
  ASSUME TypeInv, PublicationInv, NetworkInv,
         ReconcileStep \/ (\E k \in Keys : ReconcileWalletConnectPublication(k))
  PROVE  NetworkInv'
  <1>0. /\ WorkersOK /\ Exclusive /\ reconcile \in Worker /\ ClientInv(reconcile)
        /\ node.conn \in Nat
    BY DEF TypeInv, WorkersInv, WorkersOK, PublicationInv, NetworkInv, EnvOK, reconcile
  <1>1. ASSUME UNCHANGED <<settings, consent>>, End("reconcile"), reconcile.pc # "idle"
        PROVE  NetworkInv'
    BY <1>1, NetworkEnd DEF reconcile
  <1>2. ASSUME NEW k \in Keys, ReconcileWalletConnectPublication(k) PROVE NetworkInv'
    <2> DEFINE b == journal[k].hash
    <2>1. PICK w : w = [Idle EXCEPT !.pc = "query", !.client = node.conn, !.hash = b,
                                    !.snap.req = blocks[b].req]
      OBVIOUS
    <2>2. w.pc = "query" /\ w.hash = b /\ w.client = node.conn
      BY <2>1, Blanks DEF Worker, Hold
    <2>3. /\ Moves("reconcile", w) /\ node.chain = blocks[b].chain /\ consent' = settings.optIn
          /\ UNCHANGED <<node, settings, blocks>>
      BY <1>2, <2>1, BeginMoves DEF ReconcileWalletConnectPublication, env, ledger
    <2>4. Connected
      <3>1. b \in 1..Len(blocks) /\ blocks \in Seq(Block)
        BY <1>2 DEF ReconcileWalletConnectPublication, TypeInv, RecordsTyped, LedgerOK
      <3>2. blocks[b] \in Block
        BY <3>1
      <3>3. blocks[b].chain \in Chains
        BY <3>2 DEF Block
      <3> QED BY <2>3, <3>3 DEF Connected, Chains, NoChain
    <2>5. ClientInv(w)'
      BY <1>0, <2>2, <2>3, <2>4 DEF ClientInv, Connected, PastGuard
    <2>6. Extends("reconcile", w)'
      BY DEF Extends
    <2> QED BY <2>3, <2>5, <2>6, NetworkMove
  <1>3. ASSUME NEW pc \in {"publish", "mark"}, Step("reconcile", pc), reconcile.pc = "query",
               pc = "publish" => GuardChain(blocks[reconcile.hash].chain), OnlyWorker
        PROVE  NetworkInv'
    <2>1. PICK w \in Worker : /\ Moves("reconcile", w) /\ w.pc = pc
                              /\ w.client = reconcile.client /\ w.hash = reconcile.hash
      BY <1>0, <1>3, StepMoves DEF reconcile, WorkerPcs
    <2>2. UNCHANGED <<node, settings, blocks, onChain, consent>>
      BY <1>3 DEF OnlyWorker, env, ledger, ghosts
    <2>3. Live(reconcile.client) => node.chain = blocks[reconcile.hash].chain
      BY <1>0, <1>3 DEF ClientInv, HasHash
    <2>4. pc = "publish" /\ Live(reconcile.client) /\ node.chain = "mainnet" => consent
      BY <1>3, <2>3 DEF GuardChain, NetworkInv
    <2> QED BY <1>3, <2>1, <2>2, <2>4, NetworkStep
            DEF HasClient, HasHash, PastGuard, reconcile
  <1>4. CASE ReconcileFound
    BY <1>3, <1>4 DEF ReconcileFound, At, reconcile
  <1>5. CASE ReconcileNotFound
    BY <1>1, <1>3, <1>5 DEF ReconcileNotFound, OnlyWorker, At, reconcile, env, ghosts
  <1>6. CASE ReconcileQueryFails
    BY <1>1, <1>6 DEF ReconcileQueryFails, OnlyWorker, At, reconcile, env, ghosts
  <1>7. CASE Rebroadcast
    <2>1. PICK w \in Worker : /\ Moves("reconcile", w) /\ w.pc = "mark"
                              /\ w.client = reconcile.client /\ w.hash = reconcile.hash
      BY <1>0, <1>7, StepMoves DEF Rebroadcast, At, reconcile, WorkerPcs
    <2> QED BY <1>7, <2>1, NetworkSubmit DEF Rebroadcast, At, reconcile
  <1>8. CASE RebroadcastFails
    <2>1. Moves("reconcile", Idle)
      BY <1>0, <1>8, EndMoves DEF RebroadcastFails, At
    <2> QED BY <1>8, <2>1, NetworkSubmit DEF RebroadcastFails, At
  <1>9. CASE FinishReconcile
    BY <1>1, <1>9 DEF FinishReconcile, At, reconcile, env, ghosts
  <1> QED BY <1>2, <1>4, <1>5, <1>6, <1>7, <1>8, <1>9 DEF ReconcileStep

-----------------------------------------------------------------------------
LEMMA NetworkNext ==
  ASSUME TypeInv, PublicationInv, NetworkInv, [Next]_vars PROVE NetworkInv'
  BY NetworkEnvironment, NetworkOthers, NetworkConfirm, NetworkReceive, NetworkReconcile
  DEF Next

LEMMA NetworkInvariant == Spec => []NetworkInv
  <1>1. Init => NetworkInv
    <2> SUFFICES ASSUME Init PROVE NetworkInv
      OBVIOUS
    <2>1. /\ consent = settings.optIn
          /\ \A op \in Ops : worker[op] = Idle
      BY DEF Init
    <2>2. \A op \in Ops : ClientInv(worker[op]) /\ Extends(op, worker[op])
      BY <2>1, Blanks DEF ClientInv, Extends, HasClient, HasHash, PastGuard
    <2> QED BY <2>1, <2>2 DEF NetworkInv
  <1> QED BY <1>1, NetworkNext, TypeInvariant, PublicationInvariant, PTL DEF Spec

\* A block is handed only to a node of the chain it is for, whichever networks
\* the user reconnects to and whatever chain is configured in the meantime.
THEOREM DeliversToOwnNetwork == Spec => []OwnNetwork
  <1>1. NetworkInv => OwnNetwork
    BY DEF NetworkInv, ClientInv, OwnNetwork, Delivering, At, HasHash
  <1> QED BY <1>1, NetworkInvariant, PTL

\* No block is handed to a mainnet node unless the opt-in was on at some moment
\* since its work was done, or since its receive or rebroadcast began.
THEOREM MainnetOnlyWithConsent == Spec => []MainnetConsent
  <1>1. NetworkInv => MainnetConsent
    BY DEF NetworkInv, ClientInv, MainnetConsent, Delivering, At, PastGuard
  <1> QED BY <1>1, NetworkInvariant, PTL

\* publishMu guards the frontier (tx_service.go:551): the block that a confirm or
\* a receive hands to a connected node extends its account's chain at that moment,
\* whatever was published while its work was done.  Of rebroadcasts, and of blocks
\* that were signed and never arrived, it says nothing.
THEOREM HandsOverAtFrontier == Spec => []NoSiblings
  <1>1. NetworkInv => NoSiblings
    BY DEF NetworkInv, Extends, NoSiblings, Delivering, At
  <1> QED BY <1>1, NetworkInvariant, PTL
=============================================================================
