-------------------------- MODULE WalletSessionProofs --------------------------
(***************************************************************************)
(* Proofs about the wallet's session on both sides of the binding:         *)
(* WalletSession, for every set of wallets and callers, any number of      *)
(* calls and any account limits that SessionAssumption allows; and, in the *)
(* second half, AccountStore (wallet.ts), for any number of accounts,      *)
(* selections and sessions.                                                *)
(*                                                                         *)
(* The invariant is Inv.  selMu's holder is the only one that changes the  *)
(* session, so its place says how far the watchdog (Watched) and the       *)
(* choice on disk (Selected) are behind it.  Outside selMu a call works on *)
(* what it read under a generation: while that lasts, the wallet is the    *)
(* one it read (Reading).  Spends bounds the generations: a call pays for  *)
(* the session it changes, an unlock also for the watchdog it leaves.      *)
(*                                                                         *)
(* AccountStore's is SignerInv: what is on its way, in its order, will     *)
(* make the store show what the backend signs with.  IntentInv adds what   *)
(* the user asked for last, DataInv what a load has read.                  *)
(***************************************************************************)
EXTENDS WalletSession, Sequences, FiniteSetTheorems, SequenceTheorems, TLAPS

-----------------------------------------------------------------------------
(* The inductive invariant.                                                *)

\* The unlocks under way, and the watchdogs that may still lock.
Unlocking == {c \in Callers : call[c].pc \in {"unlock", "swap"}}
Alive == {g \in Gens : watchdog[g] # "none"}

\* What the holder of selMu will still spend: a selection its generation, an
\* unlock its watchdog.
HolderDue == IF selMu.at \in {"minutes", "watch", "persist", "select"} THEN 1 ELSE 0

Spends == gen + 2 * Cardinality(Unlocking) + Cardinality(Alive) + HolderDue <= 2 * calls

\* What selMu's holder has in hand.
HolderFields ==
  /\ selMu.at \in {"persist", "select"} => selMu.arg \in 0..(MaxAccounts - 1)
  /\ selMu.at = "watch" => selMu.arg \in Presets
  /\ selMu.at \in {"minutes", "watch"} => gen # 0

\* What a call outside selMu has in hand; only a derivation takes a slot.
CallFields ==
  \A c \in Callers :
    /\ c \in kdf => call[c].pc \in {"unlock", "reveal"}
    /\ call[c].pc \in {"unlock", "swap", "reveal", "recheck", "add"} => call[c].wallet \in Wallets
    /\ call[c].pc = "minutes" => call[c].arg \in Presets

\* While the generation a reveal began under lasts, so does its wallet.
Reading ==
  \A c \in Callers : call[c].pc \in {"reveal", "recheck"} =>
    call[c].gen <= gen /\ (gen = call[c].gen => session.wallet = call[c].wallet)

\* An unlock that has swapped the session still has to start its watchdog, a
\* lock to stop it; everywhere else a session has one exactly if it is unlocked.
Watched ==
  /\ selMu.at \in {"minutes", "watch", "persist", "select"} => Unlocked
  /\ selMu.at = "unwatch" => ~Unlocked
  /\ selMu.at \in {"free", "persist", "select", "callback"} =>
       IF Unlocked
       THEN autoLockStop \in Gens /\ watchdog[autoLockStop] # "none"
       ELSE autoLockStop = 0

\* A selection is on disk before it is in memory, and is of a revealed account.
Selected ==
  Unlocked =>
    /\ session.active < settings.counts[session.wallet]
    /\ selMu.at # "select" => session.active \in {0, settings.active}
    /\ selMu.at \in {"persist", "select"} => selMu.arg < settings.counts[session.wallet]
    /\ selMu.at = "select" => settings.active = selMu.arg

Inv ==
  /\ TypeOK /\ calls \in 0..MaxCalls
  /\ Spends /\ HolderFields /\ CallFields
  /\ Reading /\ Watched /\ Selected /\ RevealsWhatWasAsked

-----------------------------------------------------------------------------
(* The fields the invariant is about.                                      *)

CallType ==
  [pc : {"idle", "unlock", "reveal", "swap", "recheck", "minutes", "add"},
   wallet : Wallets \cup {NoWallet}, gen : 0..MaxGen, arg : Nat]
SelMuType ==
  [at : {"free", "minutes", "watch", "unwatch", "callback", "persist", "select"}, arg : Nat]
SettingsType ==
  [active : 0..(MaxAccounts - 1), counts : [Wallets -> AccountRange..MaxAccounts],
   minutes : Presets]
SessionType == [wallet : Wallets \cup {NoWallet}, active : 0..(MaxAccounts - 1)]
WatchType ==
  /\ autoLockMins \in Presets \cup {0} /\ idle \in 0..MaxIdle /\ autoLockStop \in 0..MaxGen
  /\ watchdog \in [Gens -> {"none", "watch", "expired"}]
RevealType ==
  /\ hold \in 0..MaxGen
  /\ revealed \in [asked : Wallets \cup {NoWallet}, shown : Wallets \cup {NoWallet}]

\* The fields of TypeOK, one by one.
LEMMA Types ==
  ASSUME TypeOK
  PROVE  /\ session \in SessionType /\ selMu \in SelMuType /\ settings \in SettingsType
         /\ call \in [Callers -> CallType] /\ watchdog \in [Gens -> {"none", "watch", "expired"}]
BY DEF TypeOK, SessionType, SelMuType, SettingsType, CallType

\* The generations TypeOK allows are numbers.
LEMMA GenTypes ==
  ASSUME SessionAssumption, TypeOK
  PROVE  /\ MaxGen \in Nat /\ gen \in Nat /\ gen \in 0..MaxGen
         /\ AccountRange \in Nat /\ MaxAccounts \in Nat /\ AccountRange > 0
BY DEF SessionAssumption, TypeOK, MaxGen

\* A wallet is not the missing one, so Locked is locked.
LEMMA LockedIsLocked == Locked.wallet = NoWallet /\ Locked.active = 0
BY DEF Locked

\* The holder takes selMu with what the call was given.
LEMMA HolderStep ==
  ASSUME SessionAssumption, TypeOK, HolderFields, [Next]_vars
  PROVE  HolderFields'
<1> USE DEF HolderFields, SelMuType, Begin, Called, Return, Goto, TakeSelMu, Step,
         Release, NotHeld, Idle, EndSession
<1>a. selMu \in SelMuType /\ settings.minutes \in Presets /\ DefaultMinutes \in Presets
  BY Types DEF SettingsType, SessionAssumption
<1>b. gen \in Nat
  BY GenTypes
<1>1. ASSUME NEW c \in Callers, SwapSession(c) PROVE HolderFields'
  BY <1>1, <1>a, <1>b DEF SwapSession
<1>2. CASE Lock
  BY <1>2, <1>a, <1>b DEF Lock
<1>3. ASSUME NEW i \in 0..(MaxAccounts - 1), SelectAccount(i) PROVE HolderFields'
  BY <1>3, <1>a, <1>b DEF SelectAccount
<1>4. CASE ReadMinutes
  <2>1. PICK m \in Presets : selMu' = [at |-> "watch", arg |-> m]
    BY <1>4, <1>a DEF ReadMinutes
  <2> QED
    BY <1>4, <1>a, <1>b, <2>1 DEF ReadMinutes, sessionVars
<1>5. CASE StartAutoLock
  BY <1>5, <1>a, <1>b DEF StartAutoLock
<1>6. CASE StopAutoLock
  BY <1>6, <1>a, <1>b DEF StopAutoLock
<1>7. CASE SessionChanged
  BY <1>7, <1>a, <1>b DEF SessionChanged
<1>8. CASE PersistSelection
  BY <1>8, <1>a, <1>b DEF PersistSelection
<1>9. CASE ApplySelection
  BY <1>9, <1>a, <1>b DEF ApplySelection
<1>10. ASSUME NEW g \in Gens, WatchdogLocks(g) PROVE HolderFields'
  BY <1>10, <1>a, <1>b DEF WatchdogLocks
<1>11. CASE UNCHANGED <<selMu, gen>>
  BY <1>11
<1> QED
  BY <1>1, <1>2, <1>3, <1>4, <1>5, <1>6, <1>7, <1>8, <1>9, <1>10, <1>11
     DEF Next, Call, Finish, Holder, Watchdog, vars, sessionVars, autoLock, derivations,
         Unlock, SetAutoLockMinutes, RevealMnemonic, AddAccount, EnterKDF, LeaveKDF,
         ShowMnemonic, PersistMinutes, RevealOneMore, HoldPending, Minute, NoteActivity,
         WatchdogExpires, WatchdogStops

\* A call keeps the wallet and the choice it began with.
LEMMA CallStep ==
  ASSUME SessionAssumption, TypeOK, CallFields, [Next]_vars
  PROVE  CallFields'
<1> USE DEF CallFields, CallType, SessionType, Unlocked, Begin, Called, Return, Goto,
         TakeSelMu, Step, Release, NotHeld, Idle, EndSession
<1>a. call \in [Callers -> CallType] /\ session \in SessionType
  BY Types
<1>1. ASSUME NEW c \in Callers, NEW w \in Wallets, Unlock(c, w) PROVE CallFields'
  BY <1>1, <1>a DEF Unlock
<1>2. ASSUME NEW c \in Callers, NEW m \in Presets, SetAutoLockMinutes(c, m)
      PROVE  CallFields'
  BY <1>2, <1>a DEF SetAutoLockMinutes
<1>3. ASSUME NEW c \in Callers, RevealMnemonic(c) PROVE CallFields'
  BY <1>3, <1>a DEF RevealMnemonic
<1>4. ASSUME NEW c \in Callers, AddAccount(c) PROVE CallFields'
  BY <1>4, <1>a DEF AddAccount
<1>5. ASSUME NEW c \in Callers, EnterKDF(c) PROVE CallFields'
  BY <1>5, <1>a DEF EnterKDF
<1>6. ASSUME NEW c \in Callers, LeaveKDF(c) PROVE CallFields'
  BY <1>6, <1>a DEF LeaveKDF
<1>7. ASSUME NEW c \in Callers, ShowMnemonic(c) PROVE CallFields'
  BY <1>7, <1>a DEF ShowMnemonic
<1>8. ASSUME NEW c \in Callers, SwapSession(c) PROVE CallFields'
  BY <1>8, <1>a DEF SwapSession
<1>9. ASSUME NEW c \in Callers, PersistMinutes(c) PROVE CallFields'
  BY <1>9, <1>a DEF PersistMinutes
<1>10. ASSUME NEW c \in Callers, RevealOneMore(c) PROVE CallFields'
  BY <1>10, <1>a DEF RevealOneMore
<1>11. CASE UNCHANGED <<kdf, call>>
  BY <1>11
<1> QED
  BY <1>1, <1>2, <1>3, <1>4, <1>5, <1>6, <1>7, <1>8, <1>9, <1>10, <1>11
     DEF Next, Call, Finish, Holder, Watchdog, vars, sessionVars, autoLock, derivations,
         Lock, SelectAccount, ReadMinutes, StartAutoLock, StopAutoLock, SessionChanged,
         PersistSelection, ApplySelection, HoldPending, Minute, NoteActivity,
         WatchdogExpires, WatchdogStops, WatchdogLocks

\* Whoever changes the session holds selMu until the watchdog follows.
LEMMA WatchedStep ==
  ASSUME SessionAssumption, TypeOK, HolderFields, CallFields, Watched, [Next]_vars
  PROVE  Watched'
<1> USE DEF Watched, HolderFields, CallFields, SelMuType, Unlocked, Locked, Gens,
         sessionVars, autoLock, derivations, Begin, Called, Return, Goto, TakeSelMu, Step,
         Release, NotHeld, Idle, EndSession
<1>a. selMu \in SelMuType /\ watchdog \in [Gens -> {"none", "watch", "expired"}]
  BY Types
<1>b. gen \in 0..MaxGen /\ MaxGen \in Nat /\ NoWallet \notin Wallets
  BY GenTypes DEF SessionAssumption
<1>1. ASSUME NEW c \in Callers, SwapSession(c) PROVE Watched'
  BY <1>1, <1>a, <1>b DEF SwapSession
<1>2. CASE Lock
  BY <1>2, <1>a, <1>b DEF Lock
<1>3. ASSUME NEW i \in 0..(MaxAccounts - 1), SelectAccount(i) PROVE Watched'
  BY <1>3, <1>a, <1>b DEF SelectAccount
<1>4. CASE ReadMinutes
  BY <1>4, <1>a, <1>b DEF ReadMinutes
<1>5. CASE StartAutoLock
  BY <1>5, <1>a, <1>b DEF StartAutoLock
<1>6. CASE StopAutoLock
  BY <1>6, <1>a, <1>b DEF StopAutoLock
<1>7. CASE SessionChanged
  BY <1>7, <1>a, <1>b DEF SessionChanged
<1>8. CASE PersistSelection
  BY <1>8, <1>a, <1>b DEF PersistSelection
<1>9. CASE ApplySelection
  BY <1>9, <1>a, <1>b DEF ApplySelection
<1>10. ASSUME NEW g \in Gens, WatchdogExpires(g) PROVE Watched'
  BY <1>10, <1>a, <1>b DEF WatchdogExpires
<1>11. ASSUME NEW g \in Gens, WatchdogStops(g) PROVE Watched'
  BY <1>11, <1>a, <1>b DEF WatchdogStops
<1>12. ASSUME NEW g \in Gens, WatchdogLocks(g) PROVE Watched'
  BY <1>12, <1>a, <1>b DEF WatchdogLocks
<1>13. CASE UNCHANGED <<selMu, session, autoLockStop, watchdog>>
  BY <1>13
<1> QED
  BY <1>1, <1>2, <1>3, <1>4, <1>5, <1>6, <1>7, <1>8, <1>9, <1>10, <1>11, <1>12, <1>13
     DEF Next, Call, Finish, Holder, Watchdog, vars, sessionVars, autoLock, derivations,
         Unlock, SetAutoLockMinutes, RevealMnemonic, AddAccount, EnterKDF, LeaveKDF,
         ShowMnemonic, PersistMinutes, RevealOneMore, HoldPending, Minute, NoteActivity

\* A call in progress keeps its generation; a change of wallet takes a new
\* one.
LEMMA ReadingStep ==
  ASSUME SessionAssumption, TypeOK, CallFields, Reading, [Next]_vars
  PROVE  Reading'
<1> USE DEF Reading, CallType, SessionType, sessionVars, derivations, Begin, Called,
         Return, Goto, TakeSelMu, Step, Release, NotHeld, Idle, EndSession
<1>a. call \in [Callers -> CallType] /\ session \in SessionType
  BY Types
<1>b. gen \in Nat /\ MaxGen \in Nat
  BY GenTypes
<1>1. ASSUME NEW c \in Callers, NEW w \in Wallets, Unlock(c, w) PROVE Reading'
  BY <1>1, <1>a, <1>b DEF Unlock
<1>2. ASSUME NEW c \in Callers, NEW m \in Presets, SetAutoLockMinutes(c, m)
      PROVE  Reading'
  BY <1>2, <1>a, <1>b DEF SetAutoLockMinutes
<1>3. ASSUME NEW c \in Callers, RevealMnemonic(c) PROVE Reading'
  BY <1>3, <1>a, <1>b DEF RevealMnemonic
<1>4. ASSUME NEW c \in Callers, AddAccount(c) PROVE Reading'
  BY <1>4, <1>a, <1>b DEF AddAccount
<1>5. ASSUME NEW c \in Callers, LeaveKDF(c) PROVE Reading'
  <2>1. UNCHANGED <<session, gen>>
    BY <1>5 DEF LeaveKDF
  <2>2. \A d \in Callers \ {c} : call'[d] = call[d]
    BY <1>5, <1>a DEF LeaveKDF
  <2>3. CASE call'[c] = Idle
    BY <2>1, <2>2, <2>3
  <2>4. CASE call'[c] = [call[c] EXCEPT !.pc = IF call[c].pc = "unlock" THEN "swap" ELSE "recheck"]
    BY <1>5, <1>a, <2>1, <2>2, <2>4 DEF LeaveKDF, CallFields
  <2> QED
    BY <1>5, <1>a, <2>3, <2>4 DEF LeaveKDF
<1>6. ASSUME NEW c \in Callers, ShowMnemonic(c) PROVE Reading'
  BY <1>6, <1>a, <1>b DEF ShowMnemonic
<1>7. ASSUME NEW c \in Callers, SwapSession(c) PROVE Reading'
  BY <1>7, <1>a, <1>b DEF SwapSession
<1>8. ASSUME NEW c \in Callers, PersistMinutes(c) PROVE Reading'
  BY <1>8, <1>a, <1>b DEF PersistMinutes
<1>9. ASSUME NEW c \in Callers, RevealOneMore(c) PROVE Reading'
  BY <1>9, <1>a, <1>b DEF RevealOneMore
<1>10. CASE Lock
  BY <1>10, <1>a, <1>b DEF Lock
<1>11. CASE ApplySelection
  BY <1>11, <1>a, <1>b DEF ApplySelection
<1>12. ASSUME NEW g \in Gens, WatchdogLocks(g) PROVE Reading'
  BY <1>12, <1>a, <1>b DEF WatchdogLocks
<1>13. CASE UNCHANGED <<call, session, gen>>
  BY <1>13
<1> QED
  BY <1>1, <1>2, <1>3, <1>4, <1>5, <1>6, <1>7, <1>8, <1>9, <1>10, <1>11, <1>12, <1>13
     DEF Next, Call, Finish, Holder, Watchdog, vars, sessionVars, autoLock, derivations,
         EnterKDF, SelectAccount, ReadMinutes, StartAutoLock, StopAutoLock,
         SessionChanged, PersistSelection, HoldPending, Minute, NoteActivity,
         WatchdogExpires, WatchdogStops

\* A selection is written, then applied; the accounts only grow in number.
LEMMA SelectedStep ==
  ASSUME SessionAssumption, TypeOK, CallFields, HolderFields, Watched, Selected, [Next]_vars
  PROVE  Selected'
<1> USE DEF Selected, Watched, CallFields, HolderFields, SelMuType, SettingsType,
         SessionType, Unlocked, Locked, WriteSettings, sessionVars, derivations, Begin,
         Called, Return, Goto, TakeSelMu, Step, Release, NotHeld, Idle, EndSession
<1>a. selMu \in SelMuType /\ settings \in SettingsType /\ session \in SessionType
  BY Types
<1>b. AccountRange \in Nat /\ MaxAccounts \in Nat /\ AccountRange > 0 /\ NoWallet \notin Wallets
  BY GenTypes DEF SessionAssumption
<1>1. ASSUME NEW c \in Callers, SwapSession(c) PROVE Selected'
  BY <1>1, <1>a, <1>b DEF SwapSession
<1>2. ASSUME NEW c \in Callers, PersistMinutes(c) PROVE Selected'
  BY <1>2, <1>a, <1>b DEF PersistMinutes
<1>3. ASSUME NEW c \in Callers, RevealOneMore(c) PROVE Selected'
  BY <1>3, <1>a, <1>b DEF RevealOneMore
<1>4. CASE Lock
  BY <1>4, <1>a, <1>b DEF Lock
<1>5. ASSUME NEW i \in 0..(MaxAccounts - 1), SelectAccount(i) PROVE Selected'
  BY <1>5, <1>a, <1>b DEF SelectAccount
<1>6. CASE ReadMinutes
  BY <1>6, <1>a, <1>b DEF ReadMinutes
<1>7. CASE StartAutoLock
  BY <1>7, <1>a, <1>b DEF StartAutoLock
<1>8. CASE StopAutoLock
  BY <1>8, <1>a, <1>b DEF StopAutoLock
<1>9. CASE SessionChanged
  BY <1>9, <1>a, <1>b DEF SessionChanged
<1>10. CASE PersistSelection
  BY <1>10, <1>a, <1>b DEF PersistSelection
<1>11. CASE ApplySelection
  BY <1>11, <1>a, <1>b DEF ApplySelection
<1>12. ASSUME NEW g \in Gens, WatchdogLocks(g) PROVE Selected'
  BY <1>12, <1>a, <1>b DEF WatchdogLocks
<1>13. CASE UNCHANGED <<selMu, session, settings>>
  BY <1>13
<1> QED
  BY <1>1, <1>2, <1>3, <1>4, <1>5, <1>6, <1>7, <1>8, <1>9, <1>10, <1>11, <1>12, <1>13
     DEF Next, Call, Finish, Holder, Watchdog, vars, sessionVars, autoLock, derivations,
         Unlock, SetAutoLockMinutes, RevealMnemonic, AddAccount, EnterKDF, LeaveKDF,
         ShowMnemonic, HoldPending, Minute, NoteActivity, WatchdogExpires, WatchdogStops

\* A mnemonic is shown under the generation its reveal began with.
LEMMA RevealStep ==
  ASSUME Reading, RevealsWhatWasAsked, [Next]_vars
  PROVE  RevealsWhatWasAsked'
<1> USE DEF RevealsWhatWasAsked, Reading
<1>1. ASSUME NEW c \in Callers, ShowMnemonic(c) PROVE RevealsWhatWasAsked'
  BY <1>1 DEF ShowMnemonic
<1>2. CASE UNCHANGED revealed
  BY <1>2
<1> QED
  BY <1>1, <1>2
     DEF Next, Call, Finish, Holder, Watchdog, vars, sessionVars, autoLock, derivations,
         Unlock, SetAutoLockMinutes, RevealMnemonic, AddAccount, EnterKDF, LeaveKDF,
         SwapSession, PersistMinutes, RevealOneMore, Lock, SelectAccount, ReadMinutes,
         StartAutoLock, StopAutoLock, SessionChanged, PersistSelection, ApplySelection,
         HoldPending, Minute, NoteActivity, WatchdogExpires, WatchdogStops, WatchdogLocks

-----------------------------------------------------------------------------
(* The types.                                                              *)

\* A session is of a wallet, on an account there may be.
LEMMA SessionTypeStep ==
  ASSUME SessionAssumption, TypeOK, HolderFields, CallFields, [Next]_vars
  PROVE  session' \in SessionType
<1> USE DEF HolderFields, CallFields, SelMuType, SessionType, Locked, Begin, Called,
         Return, Goto, TakeSelMu, Step, Release, NotHeld, Idle, EndSession
<1>a. /\ selMu \in SelMuType /\ session \in SessionType /\ settings \in SettingsType
      /\ call \in [Callers -> CallType]
  BY Types
<1>b. /\ gen \in 0..MaxGen /\ AccountRange \in Nat /\ MaxAccounts \in Nat
      /\ AccountRange > 0 /\ AccountRange <= MaxAccounts /\ Presets \subseteq Nat
      /\ DefaultMinutes \in Presets
  BY GenTypes DEF SessionAssumption
<1>1. ASSUME NEW c \in Callers, SwapSession(c) PROVE session' \in SessionType
  BY <1>1, <1>a, <1>b DEF SwapSession
<1>2. CASE Lock
  BY <1>2, <1>a, <1>b DEF Lock
<1>3. CASE ApplySelection
  BY <1>3, <1>a, <1>b DEF ApplySelection
<1>4. ASSUME NEW g \in Gens, WatchdogLocks(g) PROVE session' \in SessionType
  BY <1>4, <1>a, <1>b DEF WatchdogLocks
<1>5. CASE UNCHANGED session
  BY <1>5, <1>a
<1> QED
  BY <1>1, <1>2, <1>3, <1>4, <1>5
     DEF Next, Call, Finish, Holder, Watchdog, vars, sessionVars, autoLock, derivations,
         Unlock, SetAutoLockMinutes, RevealMnemonic, AddAccount, EnterKDF, LeaveKDF,
         ShowMnemonic, PersistMinutes, RevealOneMore, SelectAccount, ReadMinutes,
         StartAutoLock, StopAutoLock, SessionChanged, PersistSelection, HoldPending,
         Minute, NoteActivity, WatchdogExpires, WatchdogStops

\* The holder of selMu is at one of its steps.
LEMMA SelMuTypeStep ==
  ASSUME SessionAssumption, TypeOK, [Next]_vars
  PROVE  selMu' \in SelMuType
<1> USE DEF SelMuType, SettingsType, Begin, Called, Return, Goto, TakeSelMu, Step,
         Release, NotHeld, Idle, EndSession
<1>a. /\ selMu \in SelMuType /\ session \in SessionType /\ settings \in SettingsType
      /\ call \in [Callers -> CallType]
  BY Types
<1>b. /\ gen \in 0..MaxGen /\ AccountRange \in Nat /\ MaxAccounts \in Nat
      /\ AccountRange > 0 /\ AccountRange <= MaxAccounts /\ Presets \subseteq Nat
      /\ DefaultMinutes \in Presets
  BY GenTypes DEF SessionAssumption
<1>1. ASSUME NEW c \in Callers, SwapSession(c) PROVE selMu' \in SelMuType
  BY <1>1, <1>a, <1>b DEF SwapSession
<1>2. CASE Lock
  BY <1>2, <1>a, <1>b DEF Lock
<1>3. ASSUME NEW i \in 0..(MaxAccounts - 1), SelectAccount(i) PROVE selMu' \in SelMuType
  BY <1>3, <1>a, <1>b DEF SelectAccount
<1>4. CASE ReadMinutes
  BY <1>4, <1>a, <1>b DEF ReadMinutes
<1>5. CASE StartAutoLock
  BY <1>5, <1>a, <1>b DEF StartAutoLock
<1>6. CASE StopAutoLock
  BY <1>6, <1>a, <1>b DEF StopAutoLock
<1>7. CASE SessionChanged
  BY <1>7, <1>a, <1>b DEF SessionChanged
<1>8. CASE PersistSelection
  BY <1>8, <1>a, <1>b DEF PersistSelection
<1>9. CASE ApplySelection
  BY <1>9, <1>a, <1>b DEF ApplySelection
<1>10. ASSUME NEW g \in Gens, WatchdogLocks(g) PROVE selMu' \in SelMuType
  BY <1>10, <1>a, <1>b DEF WatchdogLocks
<1>11. CASE UNCHANGED selMu
  BY <1>11, <1>a
<1> QED
  BY <1>1, <1>2, <1>3, <1>4, <1>5, <1>6, <1>7, <1>8, <1>9, <1>10, <1>11
     DEF Next, Call, Finish, Holder, Watchdog, vars, sessionVars, autoLock, derivations,
         Unlock, SetAutoLockMinutes, RevealMnemonic, AddAccount, EnterKDF, LeaveKDF,
         ShowMnemonic, PersistMinutes, RevealOneMore, HoldPending, Minute, NoteActivity,
         WatchdogExpires, WatchdogStops

\* The settings keep to the accounts and the limits the user is offered.
LEMMA SettingsTypeStep ==
  ASSUME SessionAssumption, TypeOK, HolderFields, CallFields, [Next]_vars
  PROVE  settings' \in SettingsType
<1> USE DEF HolderFields, CallFields, SelMuType, SettingsType, WriteSettings, Begin,
         Called, Return, Goto, TakeSelMu, Step, Release, NotHeld, Idle, EndSession
<1>a. /\ selMu \in SelMuType /\ session \in SessionType /\ settings \in SettingsType
      /\ call \in [Callers -> CallType]
  BY Types
<1>b. /\ gen \in 0..MaxGen /\ AccountRange \in Nat /\ MaxAccounts \in Nat
      /\ AccountRange > 0 /\ AccountRange <= MaxAccounts /\ Presets \subseteq Nat
      /\ DefaultMinutes \in Presets
  BY GenTypes DEF SessionAssumption
<1>1. ASSUME NEW c \in Callers, PersistMinutes(c) PROVE settings' \in SettingsType
  BY <1>1, <1>a, <1>b DEF PersistMinutes
<1>2. ASSUME NEW c \in Callers, RevealOneMore(c) PROVE settings' \in SettingsType
  BY <1>2, <1>a, <1>b DEF RevealOneMore
<1>3. CASE PersistSelection
  BY <1>3, <1>a, <1>b DEF PersistSelection
<1>4. CASE UNCHANGED settings
  BY <1>4, <1>a
<1> QED
  BY <1>1, <1>2, <1>3, <1>4
     DEF Next, Call, Finish, Holder, Watchdog, vars, sessionVars, autoLock, derivations,
         Unlock, SetAutoLockMinutes, RevealMnemonic, AddAccount, EnterKDF, LeaveKDF,
         ShowMnemonic, SwapSession, Lock, SelectAccount, ReadMinutes, StartAutoLock,
         StopAutoLock, SessionChanged, ApplySelection, HoldPending, Minute, NoteActivity,
         WatchdogExpires, WatchdogStops, WatchdogLocks

\* The watchdogs are at one of their steps, the clock within its bound.
LEMMA WatchTypeStep ==
  ASSUME SessionAssumption, TypeOK, HolderFields, [Next]_vars
  PROVE  WatchType'
<1> USE DEF HolderFields, WatchType, Begin, Called, Return, Goto, TakeSelMu, Step,
         Release, NotHeld, Idle, EndSession
<1>a. /\ selMu \in SelMuType /\ session \in SessionType /\ settings \in SettingsType
      /\ call \in [Callers -> CallType]
  BY Types
<1>b. gen \in Nat /\ gen \in 0..MaxGen /\ MaxGen \in Nat /\ MaxIdle \in Nat
  BY GenTypes DEF SessionAssumption
<1>c. WatchType
  BY DEF WatchType, TypeOK
<1>1. ASSUME NEW c \in Callers, NEW m \in Presets, SetAutoLockMinutes(c, m)
      PROVE  WatchType'
  BY <1>1, <1>a, <1>b, <1>c DEF SetAutoLockMinutes
<1>2. CASE StartAutoLock
  <2>1. autoLockMins' \in Presets /\ autoLockStop' \in 0..MaxGen /\ idle' \in 0..MaxIdle
    BY <1>2, <1>a, <1>b DEF StartAutoLock
  <2>2. watchdog' = [watchdog EXCEPT ![gen] = "watch"]
    BY <1>2 DEF StartAutoLock
  <2> QED
    BY <1>c, <2>1, <2>2
<1>3. CASE StopAutoLock
  BY <1>3, <1>a, <1>b, <1>c DEF StopAutoLock
<1>4. CASE Minute
  BY <1>4, <1>a, <1>b, <1>c DEF Minute
<1>5. CASE NoteActivity
  BY <1>5, <1>a, <1>b, <1>c DEF NoteActivity
<1>6. ASSUME NEW g \in Gens, WatchdogExpires(g) PROVE WatchType'
  BY <1>6, <1>a, <1>b, <1>c DEF WatchdogExpires
<1>7. ASSUME NEW g \in Gens, WatchdogStops(g) PROVE WatchType'
  BY <1>7, <1>a, <1>b, <1>c DEF WatchdogStops
<1>8. ASSUME NEW g \in Gens, WatchdogLocks(g) PROVE WatchType'
  BY <1>8, <1>a, <1>b, <1>c DEF WatchdogLocks
<1>9. CASE UNCHANGED <<autoLockMins, autoLockStop, idle, watchdog>>
  BY <1>9, <1>c
<1> QED
  BY <1>1, <1>2, <1>3, <1>4, <1>5, <1>6, <1>7, <1>8, <1>9
     DEF Next, Call, Finish, Holder, Watchdog, vars, sessionVars, autoLock, derivations,
         Unlock, RevealMnemonic, AddAccount, EnterKDF, LeaveKDF, ShowMnemonic,
         SwapSession, PersistMinutes, RevealOneMore, Lock, SelectAccount, ReadMinutes,
         SessionChanged, PersistSelection, ApplySelection, HoldPending

\* A call has its wallet, its generation and its argument.
LEMMA CallTypeStep ==
  ASSUME SessionAssumption, TypeOK, CallFields, [Next]_vars
  PROVE  kdf' \subseteq Callers /\ call' \in [Callers -> CallType]
<1> USE DEF CallFields, SessionType, Unlocked, Begin, Called, Return, Goto, derivations
<1>a. /\ selMu \in SelMuType /\ session \in SessionType /\ settings \in SettingsType
      /\ call \in [Callers -> CallType]
  BY Types
<1>b. /\ gen \in 0..MaxGen /\ AccountRange \in Nat /\ MaxAccounts \in Nat
      /\ AccountRange > 0 /\ AccountRange <= MaxAccounts /\ Presets \subseteq Nat
      /\ DefaultMinutes \in Presets
  BY GenTypes DEF SessionAssumption
<1>c. kdf \subseteq Callers
  BY DEF TypeOK
<1>d. Idle \in CallType
  BY GenTypes DEF Idle, CallType
<1>1. ASSUME NEW c \in Callers, NEW w \in Wallets, Unlock(c, w)
      PROVE  kdf' \subseteq Callers /\ call' \in [Callers -> CallType]
  BY <1>1, <1>a, <1>b, <1>c DEF Unlock, CallType
<1>2. ASSUME NEW c \in Callers, NEW m \in Presets, SetAutoLockMinutes(c, m)
      PROVE  kdf' \subseteq Callers /\ call' \in [Callers -> CallType]
  BY <1>2, <1>a, <1>b, <1>c DEF SetAutoLockMinutes, CallType
<1>3. ASSUME NEW c \in Callers, RevealMnemonic(c)
      PROVE  kdf' \subseteq Callers /\ call' \in [Callers -> CallType]
  BY <1>3, <1>a, <1>b, <1>c DEF RevealMnemonic, CallType
<1>4. ASSUME NEW c \in Callers, AddAccount(c)
      PROVE  kdf' \subseteq Callers /\ call' \in [Callers -> CallType]
  BY <1>4, <1>a, <1>b, <1>c DEF AddAccount, CallType
<1>5. ASSUME NEW c \in Callers, EnterKDF(c)
      PROVE  kdf' \subseteq Callers /\ call' \in [Callers -> CallType]
  BY <1>5, <1>a, <1>b, <1>c DEF EnterKDF, CallType
<1>6. ASSUME NEW c \in Callers, LeaveKDF(c)
      PROVE  kdf' \subseteq Callers /\ call' \in [Callers -> CallType]
  <2>1. kdf' \subseteq Callers
    BY <1>6, <1>c DEF LeaveKDF
  <2>2. [call[c] EXCEPT !.pc = IF call[c].pc = "unlock" THEN "swap" ELSE "recheck"] \in CallType
    BY <1>a DEF CallType
  <2>3. PICK x \in CallType : call' = [call EXCEPT ![c] = x]
    BY <1>6, <1>d, <2>2 DEF LeaveKDF
  <2> QED
    BY <1>a, <2>1, <2>3
<1>7. ASSUME NEW c \in Callers, ShowMnemonic(c)
      PROVE  kdf' \subseteq Callers /\ call' \in [Callers -> CallType]
  <2>1. call' = [call EXCEPT ![c] = Idle] /\ kdf' \subseteq kdf
    BY <1>7 DEF ShowMnemonic
  <2> QED
    BY <1>a, <1>c, <1>d, <2>1
<1>8. ASSUME NEW c \in Callers, SwapSession(c)
      PROVE  kdf' \subseteq Callers /\ call' \in [Callers -> CallType]
  <2>1. call' = [call EXCEPT ![c] = Idle] /\ kdf' \subseteq kdf
    BY <1>8 DEF SwapSession
  <2> QED
    BY <1>a, <1>c, <1>d, <2>1
<1>9. ASSUME NEW c \in Callers, PersistMinutes(c)
      PROVE  kdf' \subseteq Callers /\ call' \in [Callers -> CallType]
  <2>1. call' = [call EXCEPT ![c] = Idle] /\ kdf' \subseteq kdf
    BY <1>9 DEF PersistMinutes
  <2> QED
    BY <1>a, <1>c, <1>d, <2>1
<1>10. ASSUME NEW c \in Callers, RevealOneMore(c)
      PROVE  kdf' \subseteq Callers /\ call' \in [Callers -> CallType]
  <2>1. call' = [call EXCEPT ![c] = Idle] /\ kdf' \subseteq kdf
    BY <1>10 DEF RevealOneMore
  <2> QED
    BY <1>a, <1>c, <1>d, <2>1
<1>11. CASE UNCHANGED <<kdf, call>>
  BY <1>11, <1>a, <1>c
<1> QED
  BY <1>1, <1>2, <1>3, <1>4, <1>5, <1>6, <1>7, <1>8, <1>9, <1>10, <1>11
     DEF Next, Call, Finish, Holder, Watchdog, vars, sessionVars, autoLock, derivations,
         Lock, SelectAccount, ReadMinutes, StartAutoLock, StopAutoLock, SessionChanged,
         PersistSelection, ApplySelection, HoldPending, Minute, NoteActivity,
         WatchdogExpires, WatchdogStops, WatchdogLocks

\* What was shown and what is held are of a wallet and of a generation.
LEMMA RevealTypeStep ==
  ASSUME SessionAssumption, TypeOK, CallFields, [Next]_vars
  PROVE  RevealType'
<1> USE DEF CallFields, RevealType, SessionType, CallType, Begin, Called, Return, Goto,
         TakeSelMu, Step, Release, NotHeld, Idle, EndSession
<1>a. /\ selMu \in SelMuType /\ session \in SessionType /\ settings \in SettingsType
      /\ call \in [Callers -> CallType]
  BY Types
<1>b. /\ gen \in 0..MaxGen /\ AccountRange \in Nat /\ MaxAccounts \in Nat
      /\ AccountRange > 0 /\ AccountRange <= MaxAccounts /\ Presets \subseteq Nat
      /\ DefaultMinutes \in Presets
  BY GenTypes DEF SessionAssumption
<1>c. RevealType /\ 0 \in 0..MaxGen
  BY GenTypes DEF RevealType, TypeOK
<1>1. ASSUME NEW c \in Callers, ShowMnemonic(c) PROVE RevealType'
  BY <1>1, <1>a, <1>b, <1>c DEF ShowMnemonic
<1>2. CASE SessionChanged
  BY <1>2, <1>a, <1>b, <1>c DEF SessionChanged
<1>3. CASE HoldPending
  BY <1>3, <1>a, <1>b, <1>c DEF HoldPending
<1>4. CASE UNCHANGED <<hold, revealed>>
  BY <1>4, <1>c
<1> QED
  BY <1>1, <1>2, <1>3, <1>4
     DEF Next, Call, Finish, Holder, Watchdog, vars, sessionVars, autoLock, derivations,
         Unlock, SetAutoLockMinutes, RevealMnemonic, AddAccount, EnterKDF, LeaveKDF,
         SwapSession, PersistMinutes, RevealOneMore, Lock, SelectAccount, ReadMinutes,
         StartAutoLock, StopAutoLock, PersistSelection, ApplySelection, Minute,
         NoteActivity, WatchdogExpires, WatchdogStops, WatchdogLocks

-----------------------------------------------------------------------------
(* The generations are enough: what every call has paid for.               *)

\* A set that gains at most one element, loses one, or only loses.
LEMMA OneMore ==
  ASSUME NEW S, NEW T, NEW x, IsFiniteSet(S), T \subseteq S \cup {x}
  PROVE  IsFiniteSet(T) /\ Cardinality(T) \in Nat /\ Cardinality(T) <= Cardinality(S) + 1
<1>0. Cardinality(S) \in Nat
  BY FS_CardinalityType
<1>1. IsFiniteSet(S \cup {x}) /\ Cardinality(S \cup {x}) <= Cardinality(S) + 1
  <2>1. IsFiniteSet(S \cup {x})
    BY FS_AddElement
  <2>2. \/ Cardinality(S \cup {x}) = Cardinality(S)
        \/ Cardinality(S \cup {x}) = Cardinality(S) + 1
    BY FS_AddElement
  <2> QED
    BY <1>0, <2>1, <2>2
<1>2. IsFiniteSet(T) /\ Cardinality(T) <= Cardinality(S \cup {x})
  BY <1>1, FS_Subset
<1> QED
  BY <1>1, <1>2, FS_CardinalityType

\* A set that loses an element has one element less.
LEMMA OneLess ==
  ASSUME NEW S, NEW T, NEW x \in S, IsFiniteSet(S), T \subseteq S \ {x}
  PROVE  IsFiniteSet(T) /\ Cardinality(T) \in Nat /\ Cardinality(T) + 1 <= Cardinality(S)
<1>1. IsFiniteSet(S \ {x}) /\ Cardinality(S \ {x}) = Cardinality(S) - 1
  BY FS_RemoveElement
<1>2. IsFiniteSet(T) /\ Cardinality(T) <= Cardinality(S \ {x})
  BY <1>1, FS_Subset
<1> QED
  BY <1>1, <1>2, FS_CardinalityType

\* A subset has no more elements.
LEMMA NoMore ==
  ASSUME NEW S, NEW T, IsFiniteSet(S), T \subseteq S
  PROVE  IsFiniteSet(T) /\ Cardinality(T) \in Nat /\ Cardinality(T) <= Cardinality(S)
BY FS_Subset, FS_CardinalityType

\* The callers and the generations are finitely many.
LEMMA Finite ==
  ASSUME SessionAssumption, TypeOK
  PROVE  /\ IsFiniteSet(Unlocking) /\ Cardinality(Unlocking) \in Nat
         /\ IsFiniteSet(Alive) /\ Cardinality(Alive) \in Nat
<1>1. IsFiniteSet(Gens)
  BY GenTypes, FS_Interval DEF Gens
<1> QED
  BY <1>1, NoMore DEF Unlocking, Alive, SessionAssumption

\* Every step stays within what the calls have paid.
LEMMA SpendStep ==
  ASSUME SessionAssumption, TypeOK, CallFields, calls \in Nat, Spends, [Next]_vars
  PROVE  Spends'
<1> USE DEF Begin, Called, Return, Goto, TakeSelMu, Step, Release, NotHeld, Idle,
        EndSession, sessionVars, autoLock, derivations
<1>1. /\ call \in [Callers -> CallType] /\ selMu \in SelMuType
      /\ watchdog \in [Gens -> {"none", "watch", "expired"}]
  BY Types
<1>2. /\ IsFiniteSet(Unlocking) /\ Cardinality(Unlocking) \in Nat
      /\ IsFiniteSet(Alive) /\ Cardinality(Alive) \in Nat
  BY Finite
<1>3. gen \in Nat /\ gen \in 0..MaxGen /\ calls \in Nat
  BY GenTypes
<1>4. /\ HolderDue \in {0, 1} /\ HolderDue' \in {0, 1}
      /\ UNCHANGED selMu => HolderDue' = HolderDue
  BY DEF HolderDue
<1>5. ASSUME Unlocking' \subseteq Unlocking, Alive' \subseteq Alive, gen' = gen,
             HolderDue' <= HolderDue, calls' \in {calls, calls + 1}
      PROVE  Spends'
  <2>1. Cardinality(Unlocking') <= Cardinality(Unlocking) /\ Cardinality(Unlocking') \in Nat
    BY <1>2, <1>5, NoMore
  <2>2. Cardinality(Alive') <= Cardinality(Alive) /\ Cardinality(Alive') \in Nat
    BY <1>2, <1>5, NoMore
  <2> QED
    BY <1>2, <1>3, <1>4, <1>5, <2>1, <2>2 DEF Spends, Unlocking, Alive
<1>6. ASSUME NEW c \in Callers, NEW w \in Wallets, Unlock(c, w) PROVE Spends'
  <2>1. Unlocking' \subseteq Unlocking \cup {c}
    BY <1>6, <1>1 DEF Unlock, Unlocking, Alive
  <2>2. Alive' = Alive /\ gen' = gen /\ calls' = calls + 1 /\ HolderDue' = HolderDue
    BY <1>6, <1>4 DEF Unlock, Unlocking, Alive
  <2>3. Cardinality(Unlocking') <= Cardinality(Unlocking) + 1 /\ Cardinality(Unlocking') \in Nat
    BY <1>2, <2>1, OneMore
  <2> QED
    BY <1>2, <1>3, <1>4, <2>2, <2>3 DEF Spends
<1>7. ASSUME NEW c \in Callers, NEW m \in Presets, SetAutoLockMinutes(c, m) PROVE Spends'
  BY <1>1, <1>4, <1>5, <1>7 DEF SetAutoLockMinutes, Unlocking, Alive
<1>8. ASSUME NEW c \in Callers, RevealMnemonic(c) PROVE Spends'
  BY <1>1, <1>4, <1>5, <1>8 DEF RevealMnemonic, Unlocking, Alive
<1>9. ASSUME NEW c \in Callers, AddAccount(c) PROVE Spends'
  BY <1>1, <1>4, <1>5, <1>9 DEF AddAccount, Unlocking, Alive
<1>10. ASSUME NEW c \in Callers, LeaveKDF(c) PROVE Spends'
  <2>1. \A d \in Callers \ {c} : call'[d] = call[d]
    BY <1>10, <1>1 DEF LeaveKDF
  <2>2. call'[c].pc \in {"unlock", "swap"} => c \in Unlocking
    BY <1>10, <1>1 DEF LeaveKDF, CallFields, CallType, Unlocking
  <2>3. Unlocking' \subseteq Unlocking
    BY <2>1, <2>2 DEF Unlocking
  <2> QED
    BY <1>4, <1>5, <1>10, <2>3 DEF LeaveKDF, Alive
<1>11. ASSUME NEW c \in Callers, ShowMnemonic(c) PROVE Spends'
  BY <1>1, <1>4, <1>5, <1>11 DEF ShowMnemonic, Unlocking, Alive
<1>12. ASSUME NEW c \in Callers, SwapSession(c) PROVE Spends'
  <2>1. c \in Unlocking /\ Unlocking' \subseteq Unlocking \ {c}
    BY <1>12, <1>1 DEF SwapSession, Unlocking, Alive
  <2>2. Alive' = Alive /\ gen' = gen + 1 /\ calls' = calls
    BY <1>12 DEF SwapSession, Unlocking, Alive
  <2>3. HolderDue = 0 /\ HolderDue' = 1
    BY <1>12 DEF SwapSession, HolderDue
  <2>4. Cardinality(Unlocking') + 1 <= Cardinality(Unlocking) /\ Cardinality(Unlocking') \in Nat
    BY <1>2, <2>1, OneLess
  <2> QED
    BY <1>2, <1>3, <2>2, <2>3, <2>4 DEF Spends
<1>13. ASSUME NEW c \in Callers, PersistMinutes(c) PROVE Spends'
  BY <1>1, <1>4, <1>5, <1>13 DEF PersistMinutes, Unlocking, Alive
<1>14. ASSUME NEW c \in Callers, RevealOneMore(c) PROVE Spends'
  BY <1>1, <1>4, <1>5, <1>14 DEF RevealOneMore, Unlocking, Alive
<1>15. CASE Lock
  <2>1. Unlocking' = Unlocking /\ Alive' = Alive /\ gen' = gen + 1 /\ calls' = calls + 1
    BY <1>15 DEF Lock, Unlocking, Alive
  <2>2. HolderDue' = 0
    BY <1>15 DEF Lock, HolderDue
  <2> QED
    BY <1>2, <1>3, <1>4, <2>1, <2>2 DEF Spends
<1>16. ASSUME NEW i \in 0..(MaxAccounts - 1), SelectAccount(i) PROVE Spends'
  <2>1. Unlocking' = Unlocking /\ Alive' = Alive /\ gen' = gen /\ calls' = calls + 1
    BY <1>16 DEF SelectAccount, Unlocking, Alive
  <2> QED
    BY <1>2, <1>3, <1>4, <2>1 DEF Spends
<1>17. CASE ReadMinutes
  <2>1. HolderDue' <= HolderDue
    BY <1>17, <1>1 DEF ReadMinutes, HolderDue, SelMuType
  <2> QED
    BY <1>5, <1>17, <2>1 DEF ReadMinutes, Unlocking, Alive
<1>18. CASE StartAutoLock
  <2>1. Unlocking' = Unlocking /\ gen' = gen /\ calls' = calls /\ Alive' \subseteq Alive \cup {gen}
    BY <1>18, <1>1 DEF StartAutoLock, Unlocking, Alive
  <2>2. HolderDue = 1 /\ HolderDue' = 0
    BY <1>18 DEF StartAutoLock, HolderDue
  <2>3. Cardinality(Alive') <= Cardinality(Alive) + 1 /\ Cardinality(Alive') \in Nat
    BY <1>2, <2>1, OneMore
  <2> QED
    BY <1>2, <1>3, <2>1, <2>2, <2>3 DEF Spends
<1>19. CASE StopAutoLock
  <2>1. HolderDue' <= HolderDue
    BY <1>19, <1>1 DEF StopAutoLock, HolderDue, SelMuType
  <2> QED
    BY <1>5, <1>19, <2>1 DEF StopAutoLock, Unlocking, Alive
<1>20. CASE SessionChanged
  <2>1. HolderDue' <= HolderDue
    BY <1>20, <1>1 DEF SessionChanged, HolderDue, SelMuType
  <2> QED
    BY <1>5, <1>20, <2>1 DEF SessionChanged, Unlocking, Alive
<1>21. CASE PersistSelection
  <2>1. HolderDue' <= HolderDue
    BY <1>21, <1>1 DEF PersistSelection, HolderDue, SelMuType
  <2> QED
    BY <1>5, <1>21, <2>1 DEF PersistSelection, Unlocking, Alive
<1>22. CASE ApplySelection
  <2>1. Unlocking' = Unlocking /\ Alive' = Alive /\ calls' = calls /\ gen' \in {gen, gen + 1}
    BY <1>22 DEF ApplySelection, Unlocking, Alive
  <2>2. HolderDue = 1 /\ HolderDue' = 0
    BY <1>22, <1>1 DEF ApplySelection, HolderDue, SelMuType
  <2> QED
    BY <1>2, <1>3, <2>1, <2>2 DEF Spends
<1>23. CASE HoldPending
  BY <1>1, <1>4, <1>5, <1>23 DEF HoldPending, Unlocking, Alive
<1>24. ASSUME NEW g \in Gens, WatchdogExpires(g) PROVE Spends'
  BY <1>1, <1>4, <1>5, <1>24 DEF WatchdogExpires, Unlocking, Alive
<1>25. ASSUME NEW g \in Gens, WatchdogStops(g) PROVE Spends'
  BY <1>1, <1>4, <1>5, <1>25 DEF WatchdogStops, Unlocking, Alive
<1>26. ASSUME NEW g \in Gens, WatchdogLocks(g) PROVE Spends'
  <2>1. g \in Alive /\ Alive' \subseteq Alive \ {g}
    BY <1>26, <1>1 DEF WatchdogLocks, Alive
  <2>2. Unlocking' = Unlocking /\ gen' = gen + 1 /\ calls' = calls
    BY <1>26 DEF WatchdogLocks, Unlocking
  <2>3. HolderDue' = 0
    BY <1>26 DEF WatchdogLocks, HolderDue
  <2>4. Cardinality(Alive') + 1 <= Cardinality(Alive) /\ Cardinality(Alive') \in Nat
    BY <1>2, <2>1, OneLess
  <2> QED
    BY <1>2, <1>3, <1>4, <2>2, <2>3, <2>4 DEF Spends
<1>27. CASE UNCHANGED <<call, calls, gen, selMu, watchdog>>
  BY <1>4, <1>5, <1>27 DEF Unlocking, Alive
<1> QED
  BY <1>6, <1>7, <1>8, <1>9, <1>10, <1>11, <1>12, <1>13, <1>14, <1>15, <1>16, <1>17,
     <1>18, <1>19, <1>20, <1>21, <1>22, <1>23, <1>24, <1>25, <1>26, <1>27
     DEF Next, Call, Finish, Holder, Watchdog, vars, EnterKDF, Minute, NoteActivity

\* A call is counted when it begins.
LEMMA CallsStep ==
  ASSUME SessionAssumption, calls \in 0..MaxCalls, [Next]_vars
  PROVE  calls' \in 0..MaxCalls
<1> USE DEF Called, Begin, EndSession
<1>a. MaxCalls \in Nat
  BY DEF SessionAssumption
<1>1. ASSUME NEW c \in Callers, NEW w \in Wallets, Unlock(c, w)
      PROVE  calls' \in 0..MaxCalls
  BY <1>1, <1>a DEF Unlock
<1>2. ASSUME NEW c \in Callers, NEW m \in Presets, SetAutoLockMinutes(c, m)
      PROVE  calls' \in 0..MaxCalls
  BY <1>2, <1>a DEF SetAutoLockMinutes
<1>3. ASSUME NEW c \in Callers, RevealMnemonic(c) PROVE calls' \in 0..MaxCalls
  BY <1>3, <1>a DEF RevealMnemonic
<1>4. ASSUME NEW c \in Callers, AddAccount(c) PROVE calls' \in 0..MaxCalls
  BY <1>4, <1>a DEF AddAccount
<1>5. CASE Lock
  BY <1>5, <1>a DEF Lock
<1>6. ASSUME NEW i \in 0..(MaxAccounts - 1), SelectAccount(i)
      PROVE  calls' \in 0..MaxCalls
  BY <1>6, <1>a DEF SelectAccount
<1>7. CASE HoldPending
  BY <1>7, <1>a DEF HoldPending
<1>8. CASE UNCHANGED calls
  BY <1>8
<1> QED
  BY <1>1, <1>2, <1>3, <1>4, <1>5, <1>6, <1>7, <1>8
     DEF Next, Call, Finish, Holder, Watchdog, vars, sessionVars, autoLock, derivations,
         EnterKDF, LeaveKDF, ShowMnemonic, SwapSession, PersistMinutes, RevealOneMore,
         ReadMinutes, StartAutoLock, StopAutoLock, SessionChanged, PersistSelection,
         ApplySelection, Minute, NoteActivity, WatchdogExpires, WatchdogStops,
         WatchdogLocks

\* A generation is followed by the next.
LEMMA GenStep ==
  ASSUME SessionAssumption, TypeOK, [Next]_vars
  PROVE  gen' \in Nat
<1> USE DEF EndSession, TakeSelMu, Release, Step
<1>a. gen \in Nat
  BY GenTypes
<1>1. ASSUME NEW c \in Callers, SwapSession(c) PROVE gen' \in Nat
  BY <1>1, <1>a DEF SwapSession
<1>2. CASE Lock
  BY <1>2, <1>a DEF Lock
<1>3. CASE ApplySelection
  BY <1>3, <1>a DEF ApplySelection
<1>4. ASSUME NEW g \in Gens, WatchdogLocks(g) PROVE gen' \in Nat
  BY <1>4, <1>a DEF WatchdogLocks
<1>5. CASE UNCHANGED gen
  BY <1>5, <1>a
<1> QED
  BY <1>1, <1>2, <1>3, <1>4, <1>5
     DEF Next, Call, Finish, Holder, Watchdog, vars, sessionVars, autoLock, derivations,
         Unlock, SetAutoLockMinutes, RevealMnemonic, AddAccount, EnterKDF, LeaveKDF,
         ShowMnemonic, PersistMinutes, RevealOneMore, SelectAccount, ReadMinutes,
         StartAutoLock, StopAutoLock, SessionChanged, PersistSelection, HoldPending,
         Minute, NoteActivity, WatchdogExpires, WatchdogStops

\* The next step's sets are finite too, whatever it does.
LEMMA FiniteAgain ==
  ASSUME SessionAssumption, TypeOK
  PROVE  IsFiniteSet(Unlocking') /\ IsFiniteSet(Alive')
<1>1. IsFiniteSet(Gens)
  BY GenTypes, FS_Interval DEF Gens
<1>2. IsFiniteSet(Callers)
  BY DEF SessionAssumption
<1>3. Unlocking' \subseteq Callers /\ Alive' \subseteq Gens
  BY DEF Unlocking, Alive
<1> QED
  BY <1>1, <1>2, <1>3, FS_Subset

-----------------------------------------------------------------------------
(* The invariant.                                                          *)

\* Nothing has happened yet.
LEMMA InvInit ==
  ASSUME SessionAssumption, Init
  PROVE  Inv
<1> USE DEF Init, Locked, NotHeld, Idle, NoReveal
<1>1. /\ MaxCalls \in Nat /\ MaxGen \in Nat /\ 0 \in 0..MaxGen /\ AccountRange > 0
      /\ MaxAccounts \in Nat /\ AccountRange \in AccountRange..MaxAccounts
      /\ 0 \in 0..(MaxAccounts - 1) /\ MaxIdle \in Nat /\ NoWallet \notin Wallets
      /\ DefaultMinutes \in Presets
  BY DEF SessionAssumption, MaxGen
<1>2. TypeOK /\ calls \in 0..MaxCalls
  BY <1>1 DEF TypeOK
<1>3. Spends
  <2>1. Unlocking = {} /\ Alive = {} /\ HolderDue = 0
    BY DEF Unlocking, Alive, HolderDue
  <2>2. Cardinality({}) = 0
    BY FS_EmptySet
  <2> QED
    BY <2>1, <2>2 DEF Spends
<1>4. HolderFields /\ CallFields /\ Reading /\ RevealsWhatWasAsked
  BY <1>1 DEF HolderFields, CallFields, Reading, RevealsWhatWasAsked
<1>5. Watched /\ Selected
  BY <1>1 DEF Watched, Selected, Unlocked
<1> QED
  BY <1>2, <1>3, <1>4, <1>5 DEF Inv

\* Whatever a call, selMu's holder or a watchdog does.
LEMMA InvNext ==
  ASSUME SessionAssumption, Inv, [Next]_vars
  PROVE  Inv'
<1>1. /\ TypeOK /\ calls \in 0..MaxCalls /\ calls \in Nat /\ Spends /\ HolderFields
      /\ CallFields /\ Reading /\ Watched /\ Selected /\ RevealsWhatWasAsked
  BY DEF Inv
<1>2. calls' \in 0..MaxCalls
  BY <1>1, CallsStep
<1>3. HolderFields' /\ CallFields' /\ Watched'
  BY <1>1, HolderStep, CallStep, WatchedStep
<1>4. Reading' /\ Selected' /\ RevealsWhatWasAsked'
  BY <1>1, ReadingStep, SelectedStep, RevealStep
<1>5. Spends'
  BY <1>1, SpendStep
<1>6. /\ session' \in SessionType /\ selMu' \in SelMuType /\ settings' \in SettingsType
      /\ WatchType' /\ RevealType'
      /\ kdf' \subseteq Callers /\ call' \in [Callers -> CallType]
  BY <1>1, SessionTypeStep, SelMuTypeStep, SettingsTypeStep, WatchTypeStep, CallTypeStep,
     RevealTypeStep
<1>7. gen' \in 0..MaxGen
  <2>1. IsFiniteSet(Unlocking') /\ IsFiniteSet(Alive')
    BY <1>1, FiniteAgain
  <2>2. Cardinality(Unlocking') \in Nat /\ Cardinality(Alive') \in Nat
    BY <2>1, FS_CardinalityType
  <2>3. HolderDue' \in {0, 1}
    BY DEF HolderDue
  <2>4. gen' \in Nat
    BY <1>1, GenStep
  <2>5. MaxCalls \in Nat
    BY DEF SessionAssumption
  <2> QED
    BY <1>2, <1>5, <2>2, <2>3, <2>4, <2>5 DEF Spends, MaxGen
<1>8. TypeOK'
  BY <1>6, <1>7 DEF TypeOK, SessionType, SelMuType, SettingsType, CallType, WatchType, RevealType
<1> QED
  BY <1>2, <1>3, <1>4, <1>5, <1>8 DEF Inv

\* The invariant holds in every reachable state.
LEMMA Invariant ==
  ASSUME SessionAssumption
  PROVE  Spec => []Inv
<1>1. Init => Inv
  BY InvInit
<1>2. Inv /\ [Next]_vars => Inv'
  BY InvNext
<1> QED
  BY <1>1, <1>2, PTL DEF Spec

-----------------------------------------------------------------------------
(* The theorems.                                                           *)

\* Every field keeps its type; in particular the two generations a call has
\* are enough for the sessions and the watchdogs it leaves behind.
THEOREM SessionTypes ==
  ASSUME SessionAssumption
  PROVE  Spec => []TypeOK
<1>1. Inv => TypeOK
  BY DEF Inv
<1> QED
  BY <1>1, Invariant, PTL

\* An unlocked wallet always has a watchdog that will lock it, a locked one
\* none, whichever unlocks, locks and expiries overlapped (startAutoLock,
\* stopAutoLock).
THEOREM AlwaysWatched ==
  ASSUME SessionAssumption
  PROVE  Spec => []WatchedIffUnlocked
<1>1. Inv => WatchedIffUnlocked
  BY DEF Inv, Watched, WatchedIffUnlocked, NotHeld, Unlocked, Gens
<1> QED
  BY <1>1, Invariant, PTL

\* A mnemonic is shown only of the wallet whose password was checked, although
\* another may be unlocked during the derivation (RevealMnemonic).
THEOREM ShowsOnlyItsOwn ==
  ASSUME SessionAssumption
  PROVE  Spec => []RevealsWhatWasAsked
<1>1. Inv => RevealsWhatWasAsked
  BY DEF Inv
<1> QED
  BY <1>1, Invariant, PTL

\* An account other than the first that signs is the one on disk and is among
\* the revealed ones, whatever write failed (SelectAccount).
THEOREM SelectionOnDisk ==
  ASSUME SessionAssumption
  PROVE  Spec => []SelectionPersisted
<1>1. Inv => SelectionPersisted
  BY DEF Inv, Selected, SelectionPersisted, NotHeld
<1> QED
  BY <1>1, Invariant, PTL

\* Whoever changes the signing key counts the generation.
LEMMA KeyStep ==
  ASSUME TypeOK, [Next]_vars
  PROVE  session' # session => gen' = gen + 1
<1> USE DEF EndSession, sessionVars, SessionType
<1>a. session \in SessionType
  BY Types
<1>1. ASSUME NEW c \in Callers, SwapSession(c)
      PROVE  session' # session => gen' = gen + 1
  BY <1>1, <1>a DEF SwapSession
<1>2. CASE Lock
  BY <1>2, <1>a DEF Lock
<1>3. CASE ApplySelection
  BY <1>3, <1>a DEF ApplySelection
<1>4. ASSUME NEW g \in Gens, WatchdogLocks(g)
      PROVE  session' # session => gen' = gen + 1
  BY <1>4, <1>a DEF WatchdogLocks
<1>5. CASE UNCHANGED <<session, gen>>
  BY <1>5
<1> QED
  BY <1>1, <1>2, <1>3, <1>4, <1>5
     DEF Next, Call, Finish, Holder, Watchdog, vars, sessionVars, autoLock, derivations,
         Unlock, SetAutoLockMinutes, RevealMnemonic, AddAccount, EnterKDF, LeaveKDF,
         ShowMnemonic, PersistMinutes, RevealOneMore, SelectAccount, ReadMinutes,
         StartAutoLock, StopAutoLock, SessionChanged, PersistSelection, HoldPending,
         Minute, NoteActivity, WatchdogExpires, WatchdogStops

\* The signing key never changes without the generation, which is what every
\* check of the generation in TxService relies on.
THEOREM KeysAreCounted ==
  ASSUME SessionAssumption
  PROVE  Spec => KeyChangeBumpsGen
<1>1. Inv /\ [Next]_vars => [session' # session => gen' = gen + 1]_vars
  BY KeyStep DEF Inv
<1> QED
  BY <1>1, Invariant, PTL DEF Spec, KeyChangeBumpsGen

-----------------------------------------------------------------------------
(***************************************************************************)
(* AccountStore: its constants and variables, and the instance.            *)
(***************************************************************************)
CONSTANTS
  Indexes, Nothing, MaxSelects, MaxSessions, PicksActive, SelectFails, LoadFails, AnswersOvertake

VARIABLES
  wallet, index, unlocks, locked, activeIndex, selecting, queued, shell, storeCalls, replies,
  loads, trailing, screen, selects, wanted

Signer == INSTANCE AccountStore WITH calls <- storeCalls, shown <- screen

\* Nothing is neither an account nor a selection.
SignerAssumption ==
  /\ Signer!IndexesAssumption /\ Signer!BoundsAssumption /\ Signer!FlagsAssumption
  /\ Nothing \notin [index : Indexes, ours : BOOLEAN]

-----------------------------------------------------------------------------
(* The inductive invariant.                                                *)

Calls == [op : {"unlock", "accounts", "lock", "select"}, index : Indexes]
Replies == [op : {"unlocked", "accounts", "locked", "lockDone", "selected", "selectFailed"}, index : Indexes]

\* What a queue of messages holds, and in which order.
In(s, m) == \E k \in DOMAIN s : s[k] = m
Has(s, ops) == \E k \in DOMAIN s : s[k].op \in ops
AtMostOne(s, ops) == \A j, k \in DOMAIN s : s[j].op \in ops /\ s[k].op \in ops => j = k
Before(s, ops, op) == \A j, k \in DOMAIN s : s[j].op \in ops /\ s[k].op = op => j < k

Locks == {"locked", "lockDone"}
Choices == {"selected", "selectFailed"}

\* Once the answers under way have arrived the store is locked like the backend.
LockInv ==
  /\ Has(replies, {"unlocked"}) => (wallet # 0 <=> Before(replies, Locks, "unlocked"))
  /\ ~Has(replies, {"unlocked"}) => (wallet # 0 <=> ~locked /\ ~Has(replies, Locks))

\* One unlock is under way at a time, and the shell opens when it is over.
OpeningInv ==
  /\ AtMostOne(storeCalls, {"unlock", "accounts"}) /\ AtMostOne(replies, {"unlocked", "accounts"})
  /\ ~(Has(storeCalls, {"unlock", "accounts"}) /\ Has(replies, {"unlocked", "accounts"}))
  /\ Has(storeCalls, {"unlock", "accounts"}) \/ Has(replies, {"unlocked", "accounts"}) => shell = 0
  /\ Has(storeCalls, {"unlock"}) \/ Has(replies, {"unlocked"}) => locked
  /\ Has(storeCalls, {"accounts"}) \/ Has(replies, {"unlocked", "accounts"}) => index = 0
  /\ locked => shell = 0

\* One selection is under way at a time, none from before an unlock comes after it.
ChoiceInv ==
  /\ AtMostOne(storeCalls, {"select"}) /\ AtMostOne(replies, Choices)
  /\ ~(Has(storeCalls, {"select"}) /\ Has(replies, Choices))
  /\ Has(storeCalls, {"select"}) \/ Has(replies, Choices) =>
       selecting # Nothing /\ (~locked => selecting.ours)
  /\ selecting # Nothing => selecting \in [index : Indexes, ours : BOOLEAN] /\ (selecting.ours => shell # 0)
  /\ Has(storeCalls, {"select"}) => Before(storeCalls, {"select"}, "unlock") /\ ~Has(replies, {"unlocked"})
  /\ Before(replies, Choices, "unlocked")
  /\ Has(storeCalls, {"accounts"}) \/ Has(replies, {"accounts"}) =>
       ~Has(storeCalls, {"select"}) /\ ~Has(replies, Choices)

\* What the shell shows is what signs, or the answer that says so is under way.
ShownInv ==
  shell # 0 /\ wallet # 0 =>
    /\ ~Has(replies, {"selected"}) => activeIndex = index
    /\ \A i \in Indexes : In(replies, [op |-> "selected", index |-> i]) => i = index

SignerTypes ==
  /\ storeCalls \in Seq(Calls) /\ replies \in Seq(Replies)
  /\ queued \in Indexes \cup {Nothing} /\ locked \in BOOLEAN /\ unlocks \in Nat

SignerInv == SignerTypes /\ LockInv /\ OpeningInv /\ ChoiceInv /\ ShownInv
-----------------------------------------------------------------------------
(* The queues.                                                             *)

\* Adding a message at the end of a queue: its kind joins those that are there, and is
\* behind them (Call and Reply).
LEMMA Appended ==
  ASSUME NEW S, NEW s \in Seq(S), NEW e \in S, NEW ops, NEW op
  PROVE  /\ Append(s, e) \in Seq(S)
         /\ Has(Append(s, e), ops) <=> Has(s, ops) \/ e.op \in ops
         /\ AtMostOne(Append(s, e), ops) <=> AtMostOne(s, ops) /\ (e.op \in ops => ~Has(s, ops))
         /\ op \notin ops => (Before(Append(s, e), ops, op) <=>
                              Before(s, ops, op) /\ (e.op \in ops => ~Has(s, {op})))
         /\ \A m : In(Append(s, e), m) <=> In(s, m) \/ m = e
<1> DEFINE t == Append(s, e)
           n == Len(s) + 1
<1>1. /\ t \in Seq(S) /\ DOMAIN s = 1..Len(s) /\ DOMAIN t = 1..n /\ n \in Nat /\ Len(s) \in Nat
      /\ \A k \in 1..Len(s) : t[k] = s[k]
      /\ t[n] = e
  OBVIOUS
<1>2. /\ \A k \in DOMAIN s : k \in DOMAIN t /\ t[k] = s[k] /\ k < n /\ k \in Nat
      /\ \A k \in DOMAIN t : k = n \/ k \in DOMAIN s
      /\ n \in DOMAIN t /\ n \notin DOMAIN s /\ ~(n < n)
  BY <1>1
<1> HIDE DEF t, n
<1>3. Has(t, ops) <=> Has(s, ops) \/ e.op \in ops
  BY <1>1, <1>2 DEF Has
<1>4. AtMostOne(t, ops) <=> AtMostOne(s, ops) /\ (e.op \in ops => ~Has(s, ops))
  BY <1>1, <1>2 DEF Has, AtMostOne
<1>5. ASSUME op \notin ops
      PROVE  Before(t, ops, op) <=> Before(s, ops, op) /\ (e.op \in ops => ~Has(s, {op}))
  <2>1. ASSUME Before(t, ops, op) PROVE Before(s, ops, op) /\ (e.op \in ops => ~Has(s, {op}))
    <3>1. Before(s, ops, op)
      BY <1>2, <2>1 DEF Before
    <3>2. ASSUME e.op \in ops, NEW k \in DOMAIN s, s[k].op = op PROVE FALSE
      <4>1. n < k
        BY <1>1, <1>2, <2>1, <3>2 DEF Before
      <4>2. n \in Nat /\ k \in Nat /\ k < n
        BY <1>1, <1>2
      <4> QED
        BY <4>1, <4>2
    <3> QED
      BY <3>1, <3>2 DEF Has
  <2>2. ASSUME Before(s, ops, op), e.op \in ops => ~Has(s, {op}) PROVE Before(t, ops, op)
    BY <1>1, <1>2, <1>5, <2>2 DEF Has, Before
  <2> QED
    BY <2>1, <2>2
<1>6. \A m : In(t, m) <=> In(s, m) \/ m = e
  BY <1>1, <1>2 DEF In
<1> QED
  BY <1>1, <1>3, <1>4, <1>5, <1>6 DEF t

\* A queue without its k-th message.
Without(s, k) == SubSeq(s, 1, k - 1) \o SubSeq(s, k + 1, Len(s))

\* A queue without its k-th message is as long less one, and those behind it move up.
LEMMA RemovedShape ==
  ASSUME NEW S, NEW s \in Seq(S), NEW k \in DOMAIN s
  PROVE  /\ k \in 1..Len(s) /\ Len(s) \in Nat /\ DOMAIN s = 1..Len(s) /\ s[k] \in S
         /\ Without(s, k) \in Seq(S) /\ Len(Without(s, k)) = Len(s) - 1
         /\ DOMAIN Without(s, k) = 1..(Len(s) - 1)
         /\ \A j \in 1..(Len(s) - 1) : Without(s, k)[j] = IF j < k THEN s[j] ELSE s[j + 1]
<1> DEFINE t == Without(s, k)
<1>1. k \in 1..Len(s) /\ Len(s) \in Nat /\ DOMAIN s = 1..Len(s) /\ s[k] \in S
  OBVIOUS
<1> DEFINE a == SubSeq(s, 1, k - 1)
           b == SubSeq(s, k + 1, Len(s))
<1>2. \A j \in 1..Len(s) : s[j] \in S
  OBVIOUS
<1>3. a \in Seq(S) /\ Len(a) = k - 1 /\ \A j \in 1..(k - 1) : a[j] = s[j]
  <2>1. \A j \in 1..(k - 1) : s[j] \in S
    BY <1>1, <1>2
  <2>2. 1 \in Int /\ k - 1 \in Int
    BY <1>1
  <2> QED
    BY <1>1, <2>1, <2>2, SubSeqProperties
<1>4. b \in Seq(S) /\ Len(b) = Len(s) - k /\ \A j \in 1..(Len(s) - k) : b[j] = s[k + j]
  <2>1. \A j \in (k + 1)..Len(s) : s[j] \in S
    BY <1>1, <1>2
  <2>2. k + 1 \in Int /\ Len(s) \in Int
    BY <1>1
  <2>3. /\ b \in Seq(S)
        /\ Len(b) = IF k + 1 <= Len(s) THEN Len(s) - (k + 1) + 1 ELSE 0
        /\ \A j \in 1..(Len(s) - (k + 1) + 1) : b[j] = s[(k + 1) + j - 1]
    BY <2>1, <2>2, SubSeqProperties
  <2>4. \A j \in 1..(Len(s) - k) : (k + 1) + j - 1 = k + j
    BY <1>1
  <2>5. Len(s) - (k + 1) + 1 = Len(s) - k
    BY <1>1
  <2> QED
    BY <1>1, <2>3, <2>4, <2>5
<1>5. t = a \o b
  BY DEF Without, a, b
<1> HIDE DEF a, b, t
<1>6. /\ t \in Seq(S) /\ Len(t) = Len(a) + Len(b)
      /\ \A j \in 1..(Len(a) + Len(b)) : t[j] = IF j <= Len(a) THEN a[j] ELSE b[j - Len(a)]
  BY <1>3, <1>4, <1>5, ConcatProperties
<1>7. Len(t) = Len(s) - 1 /\ DOMAIN t = 1..(Len(s) - 1)
  BY <1>1, <1>3, <1>4, <1>6
<1>8. ASSUME NEW j \in 1..(Len(s) - 1) PROVE t[j] = IF j < k THEN s[j] ELSE s[j + 1]
  <2>1. CASE j < k
    BY <1>1, <1>3, <1>4, <1>6, <2>1
  <2>2. CASE ~(j < k)
    <3>1. t[j] = b[j - (k - 1)] /\ j - (k - 1) \in 1..(Len(s) - k)
      BY <1>1, <1>3, <1>4, <1>6, <2>2
    <3>2. k + (j - (k - 1)) = j + 1
      BY <1>1
    <3> QED
      BY <1>4, <2>2, <3>1, <3>2
  <2> QED
    BY <2>1, <2>2
<1> QED
  BY <1>1, <1>6, <1>7, <1>8 DEF t

\* Taking a message out of a queue (Arrives, Runs): the others stay, in their order;
\* behind the first of its kind, taken from the head, there was nothing that comes before it.
LEMMA Removed ==
  ASSUME NEW S, NEW s \in Seq(S), NEW k \in DOMAIN s, NEW ops, NEW op
  PROVE  LET t == Without(s, k) IN
         /\ t \in Seq(S) /\ s[k] \in S
         /\ Has(s, ops) <=> s[k].op \in ops \/ Has(t, ops)
         /\ AtMostOne(s, ops) => AtMostOne(t, ops) /\ (s[k].op \in ops => ~Has(t, ops))
         /\ Before(s, ops, op) => Before(t, ops, op)
         /\ (\A j \in 1..k : s[j].op # op) /\ Before(t, ops, op) => Before(s, ops, op)
         /\ op \notin ops /\ k = 1 /\ s[k].op = op /\ Before(s, ops, op) => ~Has(t, ops)
         /\ op \notin ops /\ k = 1 /\ s[k].op = op /\ AtMostOne(s, {op}) /\ ~Has(t, ops) => Before(s, ops, op)
         /\ \A m : In(s, m) <=> m = s[k] \/ In(t, m)
<1> DEFINE t == Without(s, k)
<1>1. /\ k \in 1..Len(s) /\ Len(s) \in Nat /\ DOMAIN s = 1..Len(s) /\ s[k] \in S
      /\ t \in Seq(S) /\ Len(t) = Len(s) - 1 /\ DOMAIN t = 1..(Len(s) - 1)
      /\ \A j \in 1..(Len(s) - 1) : t[j] = IF j < k THEN s[j] ELSE s[j + 1]
  BY RemovedShape
<1> HIDE DEF t
<1> DEFINE to == [j \in DOMAIN t |-> IF j < k THEN j ELSE j + 1]
           from == [j \in DOMAIN s |-> IF j < k THEN j ELSE j - 1]
<1>2. \A j \in DOMAIN t : /\ to[j] \in DOMAIN s /\ to[j] # k /\ t[j] = s[to[j]]
                          /\ \A i \in DOMAIN t : (i < j <=> to[i] < to[j]) /\ (to[i] = to[j] => i = j)
  BY <1>1
<1>3. \A j \in DOMAIN s : j # k => from[j] \in DOMAIN t /\ s[j] = t[from[j]] /\ to[from[j]] = j
  BY <1>1
<1> HIDE DEF to, from
<1>4. /\ Has(s, ops) <=> s[k].op \in ops \/ Has(t, ops)
      /\ \A m : In(s, m) <=> m = s[k] \/ In(t, m)
  BY <1>2, <1>3 DEF Has, In
<1>5. AtMostOne(s, ops) => AtMostOne(t, ops) /\ (s[k].op \in ops => ~Has(t, ops))
  BY <1>2, <1>3 DEF Has, AtMostOne
<1>6. Before(s, ops, op) => Before(t, ops, op)
  BY <1>2 DEF Before
<1>7. ASSUME \A j \in 1..k : s[j].op # op, Before(t, ops, op) PROVE Before(s, ops, op)
  <2> SUFFICES ASSUME NEW i \in DOMAIN s, NEW j \in DOMAIN s, s[i].op \in ops, s[j].op = op PROVE i < j
    BY DEF Before
  <2>1. j > k
    BY <1>1, <1>7
  <2>2. CASE i = k
    BY <2>1, <2>2
  <2>3. CASE i # k
    <3>1. from[i] \in DOMAIN t /\ from[j] \in DOMAIN t /\ t[from[i]].op \in ops /\ t[from[j]].op = op
      BY <1>1, <1>3, <2>1, <2>3
    <3>2. from[i] < from[j]
      BY <1>7, <3>1 DEF Before
    <3>3. to[from[i]] = i /\ to[from[j]] = j
      BY <1>1, <1>3, <2>1, <2>3
    <3> QED
      BY <1>2, <3>1, <3>2, <3>3
  <2> QED
    BY <2>2, <2>3
<1>8. ASSUME op \notin ops, k = 1, s[k].op = op, Before(s, ops, op) PROVE ~Has(t, ops)
  <2> SUFFICES ASSUME NEW j \in DOMAIN t, t[j].op \in ops PROVE FALSE
    BY DEF Has
  <2>1. to[j] \in DOMAIN s /\ s[to[j]].op \in ops
    BY <1>2
  <2>2. to[j] < k
    BY <1>8, <2>1 DEF Before
  <2> QED
    BY <1>1, <1>8, <2>1, <2>2
<1>9. ASSUME op \notin ops, k = 1, s[k].op = op, AtMostOne(s, {op}), ~Has(t, ops) PROVE Before(s, ops, op)
  BY <1>3, <1>9 DEF Before, Has
<1> QED
  BY <1>1, <1>4, <1>5, <1>6, <1>7, <1>8, <1>9 DEF t

\* What adding a message at the end of a queue, taking one out of it, and
\* taking its first one do.
Gains(s, t, op) ==
  /\ \A ops : Has(t, ops) <=> Has(s, ops) \/ op \in ops
  /\ \A ops : AtMostOne(t, ops) <=> AtMostOne(s, ops) /\ (op \in ops => ~Has(s, ops))
  /\ \A ops, o : o \notin ops => (Before(t, ops, o) <=> Before(s, ops, o) /\ (op \in ops => ~Has(s, {o})))

Loses(s, t, op) ==
  /\ \A ops : Has(s, ops) <=> op \in ops \/ Has(t, ops)
  /\ \A ops : AtMostOne(s, ops) => AtMostOne(t, ops) /\ (op \in ops => ~Has(t, ops))
  /\ \A ops, o : Before(s, ops, o) => Before(t, ops, o)

LosesFirst(s, t, op) ==
  /\ Loses(s, t, op)
  /\ \A ops : op \notin ops /\ Before(s, ops, op) => ~Has(t, ops)

\* The end of a queue gains the kind of the message that is added.
LEMMA AddGains ==
  ASSUME NEW S, NEW s \in Seq(S), NEW e \in S
  PROVE  Gains(s, Append(s, e), e.op) /\ \A m : In(Append(s, e), m) <=> In(s, m) \/ m = e
BY Appended DEF Gains

\* A queue loses the kind of the message that is taken, from its head for good.
LEMMA TakeLoses ==
  ASSUME NEW S, NEW s \in Seq(S), NEW k \in DOMAIN s
  PROVE  /\ Loses(s, Without(s, k), s[k].op)
         /\ k = 1 => LosesFirst(s, Without(s, k), s[k].op)
<1>1. Loses(s, Without(s, k), s[k].op)
  BY Removed DEF Loses
<1>2. \A ops, op : op \notin ops /\ k = 1 /\ s[k].op = op /\ Before(s, ops, op) => ~Has(Without(s, k), ops)
  BY Removed
<1> QED
  BY <1>1, <1>2 DEF LosesFirst

\* A queue has one of two kinds if it has the one or the other.
LEMMA Kinds ==
  ASSUME NEW s, NEW a, NEW b
  PROVE  /\ Has(s, {a, b}) <=> Has(s, {a}) \/ Has(s, {b})
         /\ AtMostOne(s, {a, b}) => AtMostOne(s, {a}) /\ AtMostOne(s, {b})
BY DEF Has, AtMostOne

\* A call goes behind those that are made.
LEMMA Made ==
  ASSUME SignerTypes, NEW op \in {"unlock", "accounts", "lock", "select"}, NEW i \in Indexes, Signer!Call(op, i)
  PROVE  /\ storeCalls' \in Seq(Calls) /\ Gains(storeCalls, storeCalls', op)
         /\ \A m : In(storeCalls', m) <=> In(storeCalls, m) \/ m = [op |-> op, index |-> i]
<1> DEFINE e == [op |-> op, index |-> i]
<1>1. e.op = op /\ e \in Calls /\ storeCalls \in Seq(Calls) /\ storeCalls' = Append(storeCalls, e)
  BY DEF Calls, SignerTypes, Signer!Call
<1>2. e = [op |-> op, index |-> i]
  OBVIOUS
<1> HIDE DEF e
<1>3. storeCalls' \in Seq(Calls)
  BY <1>1
<1>4. /\ Gains(storeCalls, Append(storeCalls, e), op)
      /\ \A m : In(Append(storeCalls, e), m) <=> In(storeCalls, m) \/ m = e
  BY <1>1, AddGains
<1> QED
  BY <1>1, <1>2, <1>3, <1>4

\* A call that runs is the first of the calls.
LEMMA Ran ==
  ASSUME SignerTypes, NEW op, Signer!Runs(op)
  PROVE  /\ storeCalls' \in Seq(Calls) /\ Head(storeCalls) \in Calls /\ Head(storeCalls).op = op
         /\ LosesFirst(storeCalls, storeCalls', op)
         /\ \A m : In(storeCalls, m) <=> m = Head(storeCalls) \/ In(storeCalls', m)
<1>1. /\ storeCalls \in Seq(Calls) /\ storeCalls # <<>> /\ Head(storeCalls).op = op /\ storeCalls' = Tail(storeCalls)
  BY DEF Signer!Runs, SignerTypes, Calls
<1>2. storeCalls' = Without(storeCalls, 1)
  <2>1. Tail(storeCalls) = SubSeq(storeCalls, 2, Len(storeCalls)) /\ Tail(storeCalls) \in Seq(Calls)
    BY <1>1, TailIsSubSeq, HeadTailProperties
  <2>2. SubSeq(storeCalls, 1, 0) = <<>>
    BY SubSeqEmpty
  <2>3. <<>> \o Tail(storeCalls) = Tail(storeCalls)
    BY <2>1, ConcatEmptySeq
  <2> QED
    BY <1>1, <2>1, <2>2, <2>3 DEF Without
<1>3. /\ 1 \in DOMAIN storeCalls /\ storeCalls[1].op = op /\ Head(storeCalls) \in Calls
      /\ storeCalls' \in Seq(Calls) /\ Head(storeCalls) = storeCalls[1]
  BY <1>1
<1>4. \A m : In(storeCalls, m) <=> m = storeCalls[1] \/ In(Without(storeCalls, 1), m)
  BY <1>1, <1>3, Removed
<1> QED
  BY <1>1, <1>2, <1>3, <1>4, TakeLoses

\* An answer goes behind those under way.
LEMMA Sent ==
  ASSUME NEW s \in Seq(Replies), NEW i \in Indexes,
         NEW op \in {"unlocked", "accounts", "locked", "lockDone", "selected", "selectFailed"}
  PROVE  LET t == Append(s, [op |-> op, index |-> i]) IN
         /\ t \in Seq(Replies) /\ Gains(s, t, op)
         /\ \A m : In(t, m) <=> In(s, m) \/ m = [op |-> op, index |-> i]
<1> DEFINE e == [op |-> op, index |-> i]
<1>1. e.op = op /\ e \in Replies
  BY DEF Replies
<1>2. e = [op |-> op, index |-> i]
  OBVIOUS
<1> HIDE DEF e
<1>3. /\ Append(s, e) \in Seq(Replies) /\ Gains(s, Append(s, e), op)
      /\ \A m : In(Append(s, e), m) <=> In(s, m) \/ m = e
  BY <1>1, AddGains
<1> QED
  BY <1>2, <1>3

\* A reply goes behind the answers under way.
LEMMA Replied ==
  ASSUME SignerTypes, NEW i \in Indexes,
         NEW op \in {"unlocked", "accounts", "locked", "lockDone", "selected", "selectFailed"},
         Signer!Reply(op, i)
  PROVE  /\ replies' \in Seq(Replies) /\ Gains(replies, replies', op)
         /\ \A m : In(replies', m) <=> In(replies, m) \/ m = [op |-> op, index |-> i]
<1> DEFINE e == [op |-> op, index |-> i]
<1>1. e.op = op /\ e \in Replies /\ replies \in Seq(Replies) /\ replies' = Append(replies, e)
  BY DEF Replies, SignerTypes, Signer!Reply
<1>2. e = [op |-> op, index |-> i]
  OBVIOUS
<1> HIDE DEF e
<1>3. /\ Append(replies, e) \in Seq(Replies) /\ Gains(replies, Append(replies, e), op)
      /\ \A m : In(Append(replies, e), m) <=> In(replies, m) \/ m = e
  BY <1>1, AddGains
<1> QED
  BY <1>1, <1>2, <1>3

\* An answer arrives from any place before the next unlock's, that one from the head
\* (Arrives).
LEMMA Arrived ==
  ASSUME SignerTypes, NEW r, Signer!Arrives(r)
  PROVE  /\ replies' \in Seq(Replies) /\ r \in Replies /\ Loses(replies, replies', r.op)
         /\ r.op # "unlocked" => \A ops : Before(replies', ops, "unlocked") => Before(replies, ops, "unlocked")
         /\ r.op = "unlocked" =>
              /\ LosesFirst(replies, replies', r.op)
              /\ \A ops : "unlocked" \notin ops /\ AtMostOne(replies, {"unlocked"}) /\ ~Has(replies', ops)
                            => Before(replies, ops, "unlocked")
         /\ \A m : In(replies, m) <=> m = r \/ In(replies', m)
<1>1. PICK k \in DOMAIN replies :
        /\ replies[k] = r
        /\ k = 1 \/ (AnswersOvertake /\ \A m \in 1..k : replies[m].op # "unlocked")
        /\ replies' = Without(replies, k)
  BY DEF Signer!Arrives, Without
<1>2. replies \in Seq(Replies)
  BY DEF SignerTypes, Replies
<1>3. r.op # "unlocked" => \A m \in 1..k : replies[m].op # "unlocked"
  <2>1. CASE k = 1
    BY <1>1, <2>1
  <2> QED
    BY <1>1, <2>1
<1>4. r.op = "unlocked" => k = 1
  <2>1. k \in 1..k
    BY <1>2, RemovedShape
  <2> QED
    BY <1>1, <2>1
<1>5. /\ Without(replies, k) \in Seq(Replies) /\ replies[k] \in Replies
      /\ \A m : In(replies, m) <=> m = replies[k] \/ In(Without(replies, k), m)
      /\ \A ops : (\A j \in 1..k : replies[j].op # "unlocked") /\ Before(Without(replies, k), ops, "unlocked")
                    => Before(replies, ops, "unlocked")
      /\ \A ops : "unlocked" \notin ops /\ k = 1 /\ replies[k].op = "unlocked" /\ AtMostOne(replies, {"unlocked"})
                    /\ ~Has(Without(replies, k), ops) => Before(replies, ops, "unlocked")
  BY <1>2, Removed
<1>6. /\ Loses(replies, Without(replies, k), replies[k].op)
      /\ k = 1 => LosesFirst(replies, Without(replies, k), replies[k].op)
  BY <1>2, TakeLoses
<1> QED
  BY <1>1, <1>3, <1>4, <1>5, <1>6

\* The kinds that the invariant names together and apart.
LEMMA Facts ==
  ASSUME NEW s
  PROVE  /\ Has(s, {"unlock", "accounts"}) <=> Has(s, {"unlock"}) \/ Has(s, {"accounts"})
         /\ Has(s, {"unlocked", "accounts"}) <=> Has(s, {"unlocked"}) \/ Has(s, {"accounts"})
         /\ Has(s, Choices) <=> Has(s, {"selected"}) \/ Has(s, {"selectFailed"})
         /\ AtMostOne(s, {"unlocked", "accounts"}) => AtMostOne(s, {"unlocked"})
         /\ \A ops, op : ~Has(s, {op}) => Before(s, ops, op)
         /\ \A i : In(s, [op |-> "selected", index |-> i]) => Has(s, {"selected"})
<1>1. \A ops, op : ~Has(s, {op}) => Before(s, ops, op)
  BY DEF Has, Before
<1>2. ASSUME NEW i, In(s, [op |-> "selected", index |-> i]) PROVE Has(s, {"selected"})
  BY <1>2 DEF Has, In
<1> QED
  BY <1>1, <1>2, Kinds DEF Choices

\* The news of a lock comes behind the answer of the unlock before it.
LEMMA LockTold ==
  ASSUME NEW s, NEW t, NEW op \in Locks, Gains(s, t, op)
  PROVE  /\ Has(t, {"unlocked"}) <=> Has(s, {"unlocked"})
         /\ Has(t, Locks) /\ (Has(s, {"unlocked"}) => ~Before(t, Locks, "unlocked"))
<1>1. op \notin {"unlocked"} /\ "unlocked" \notin Locks
  BY DEF Locks
<1> QED
  BY <1>1 DEF Gains

\* The accounts of the unlock before are not among what is under way.
LEMMA UnlockKeeps ==
  ASSUME SignerAssumption, SignerInv, Signer!Unlock PROVE SignerInv'
<1>1. SignerTypes /\ 0 \in Indexes
  BY DEF SignerInv, SignerAssumption, Signer!IndexesAssumption
<1>2. storeCalls' \in Seq(Calls) /\ Head(storeCalls) \in Calls /\ LosesFirst(storeCalls, storeCalls', "unlock")
  BY <1>1, Ran DEF Signer!Unlock
<1>3. /\ replies' \in Seq(Replies) /\ Gains(replies, replies', "unlocked")
      /\ \A m : In(replies', m) <=> In(replies, m) \/ m = [op |-> "unlocked", index |-> 0]
  BY <1>1, Replied DEF Signer!Unlock
<1>4. /\ wallet' = unlocks + 1 /\ index' = 0 /\ unlocks' = unlocks + 1
      /\ UNCHANGED <<locked, activeIndex, selecting, queued, shell>>
  BY DEF Signer!Unlock, Signer!store
<1>5. wallet' # 0 /\ unlocks' \in Nat
  BY <1>1, <1>4 DEF SignerTypes
<1>6. /\ locked /\ shell = 0 /\ ~Has(replies, {"unlocked", "accounts"}) /\ ~Has(storeCalls', {"unlock", "accounts"})
      /\ ~Has(storeCalls', {"select"})
  BY <1>2 DEF SignerInv, OpeningInv, ChoiceInv, Loses, LosesFirst
<1>7. SignerTypes'
  BY <1>2, <1>3, <1>4 DEF SignerInv, SignerTypes
<1>8. LockInv'
  BY <1>3, <1>5, <1>6, Facts DEF LockInv, Locks, Gains
<1>9. OpeningInv'
  BY <1>2, <1>3, <1>4 DEF SignerInv, OpeningInv, Gains, Loses, LosesFirst
<1>10. ChoiceInv'
  BY <1>2, <1>3, <1>4 DEF SignerInv, ChoiceInv, Choices, Gains, Loses, LosesFirst
<1>11. ShownInv'
  BY <1>4, <1>6 DEF ShownInv
<1> QED
  BY <1>7, <1>8, <1>9, <1>10, <1>11 DEF SignerInv

\* CurrentAccounts takes the opening's place among the answers.
LEMMA CurrentAccountsKeeps ==
  ASSUME SignerAssumption, SignerInv, Signer!CurrentAccounts PROVE SignerInv'
<1>1. SignerTypes /\ 0 \in Indexes
  BY DEF SignerInv, SignerAssumption, Signer!IndexesAssumption
<1>2. storeCalls' \in Seq(Calls) /\ Head(storeCalls) \in Calls /\ LosesFirst(storeCalls, storeCalls', "accounts")
  BY <1>1, Ran DEF Signer!CurrentAccounts
<1>3. /\ replies' \in Seq(Replies) /\ Gains(replies, replies', "accounts")
      /\ \A m : In(replies', m) <=> In(replies, m) \/ m = [op |-> "accounts", index |-> 0]
  BY <1>1, Replied DEF Signer!CurrentAccounts
<1>4. UNCHANGED <<wallet, index, unlocks, locked, activeIndex, selecting, queued, shell>>
  BY DEF Signer!CurrentAccounts, Signer!store, Signer!backend
<1>5. SignerTypes'
  BY <1>2, <1>3, <1>4 DEF SignerInv, SignerTypes
<1>6. LockInv'
  BY <1>3, <1>4 DEF SignerInv, LockInv, Locks, Gains
<1>7. OpeningInv'
  BY <1>2, <1>3, <1>4 DEF SignerInv, OpeningInv, Gains, Loses, LosesFirst
<1>8. ChoiceInv'
  BY <1>2, <1>3, <1>4 DEF SignerInv, ChoiceInv, Choices, Gains, Loses, LosesFirst
<1>9. ShownInv'
  BY <1>3, <1>4 DEF SignerInv, ShownInv, Gains
<1> QED
  BY <1>5, <1>6, <1>7, <1>8, <1>9 DEF SignerInv

\* A lock is told twice, after everything that was answered before it.
LEMMA LockKeeps ==
  ASSUME SignerAssumption, SignerInv, Signer!Lock PROVE SignerInv'
<1>1. SignerTypes /\ 0 \in Indexes
  BY DEF SignerInv, SignerAssumption, Signer!IndexesAssumption
<1>2. storeCalls' \in Seq(Calls) /\ Head(storeCalls) \in Calls /\ LosesFirst(storeCalls, storeCalls', "lock")
  BY <1>1, Ran DEF Signer!Lock
<1> DEFINE told == Append(replies, [op |-> "locked", index |-> 0])
<1>3. /\ told \in Seq(Replies)
      /\ Gains(replies, told, "locked")
  <2>1. replies \in Seq(Replies)
    BY <1>1 DEF SignerTypes
  <2> QED
    BY <1>1, <2>1, Sent
<1>4. replies' = Append(told, [op |-> "lockDone", index |-> 0])
  BY <1>1 DEF Signer!Lock, SignerTypes
<1> HIDE DEF told
<1> DEFINE done == Append(told, [op |-> "lockDone", index |-> 0])
<1>5. /\ done \in Seq(Replies)
      /\ Gains(told, done, "lockDone")
  BY <1>1, <1>3, Sent
<1>6. replies' = done
  BY <1>4
<1> HIDE DEF done
<1>7. wallet' = 0 /\ UNCHANGED <<index, unlocks, locked, activeIndex, selecting, queued, shell>>
  BY DEF Signer!Lock, Signer!store
<1>8. /\ Has(replies', {"unlocked"}) <=> Has(replies, {"unlocked"})
      /\ Has(replies', Locks) /\ (Has(replies, {"unlocked"}) => ~Before(replies', Locks, "unlocked"))
  BY <1>3, <1>5, <1>6, LockTold DEF Locks
<1>9. SignerTypes'
  BY <1>2, <1>5, <1>6, <1>7 DEF SignerInv, SignerTypes
<1>10. LockInv'
  BY <1>7, <1>8 DEF LockInv
<1>11. OpeningInv'
  BY <1>2, <1>3, <1>5, <1>6, <1>7 DEF SignerInv, OpeningInv, Gains, Loses, LosesFirst
<1>12. ChoiceInv'
  BY <1>2, <1>3, <1>5, <1>6, <1>7 DEF SignerInv, ChoiceInv, Choices, Gains, Loses, LosesFirst
<1>13. ShownInv'
  BY <1>7 DEF ShownInv
<1> QED
  BY <1>9, <1>10, <1>11, <1>12, <1>13 DEF SignerInv

\* AutoLock tells it once.
LEMMA AutoLockKeeps ==
  ASSUME SignerAssumption, SignerInv, Signer!AutoLock PROVE SignerInv'
<1>1. SignerTypes /\ 0 \in Indexes
  BY DEF SignerInv, SignerAssumption, Signer!IndexesAssumption
<1>2. /\ replies' \in Seq(Replies) /\ Gains(replies, replies', "locked")
      /\ \A m : In(replies', m) <=> In(replies, m) \/ m = [op |-> "locked", index |-> 0]
  BY <1>1, Replied DEF Signer!AutoLock
<1>3. wallet' = 0 /\ UNCHANGED <<index, unlocks, locked, activeIndex, selecting, queued, shell, storeCalls>>
  BY DEF Signer!AutoLock, Signer!store
<1>4. /\ Has(replies', {"unlocked"}) <=> Has(replies, {"unlocked"})
      /\ Has(replies', Locks) /\ (Has(replies, {"unlocked"}) => ~Before(replies', Locks, "unlocked"))
  BY <1>2, LockTold DEF Locks
<1>5. SignerTypes'
  BY <1>2, <1>3 DEF SignerInv, SignerTypes
<1>6. LockInv'
  BY <1>3, <1>4 DEF LockInv
<1>7. OpeningInv'
  BY <1>2, <1>3 DEF SignerInv, OpeningInv, Gains
<1>8. ChoiceInv'
  BY <1>2, <1>3 DEF SignerInv, ChoiceInv, Choices, Gains
<1>9. ShownInv'
  BY <1>3 DEF ShownInv
<1> QED
  BY <1>5, <1>6, <1>7, <1>8, <1>9 DEF SignerInv

\* The answer of a selection carries the account that now signs.
LEMMA SelectAccountKeeps ==
  ASSUME SignerAssumption, SignerInv, Signer!SelectAccount PROVE SignerInv'
<1>1. SignerTypes /\ 0 \in Indexes
  BY DEF SignerInv, SignerAssumption, Signer!IndexesAssumption
<1>2. storeCalls' \in Seq(Calls) /\ Head(storeCalls) \in Calls /\ LosesFirst(storeCalls, storeCalls', "select")
  BY <1>1, Ran DEF Signer!SelectAccount
<1>3. /\ ~Has(replies, Choices) /\ ~Has(replies, {"unlocked"}) /\ ~Has(storeCalls', {"select"})
      /\ ~Has(storeCalls, {"accounts"}) /\ ~Has(replies, {"accounts"})
      /\ selecting # Nothing /\ (~locked => selecting.ours)
  BY <1>2 DEF SignerInv, ChoiceInv, Loses, LosesFirst
<1>4. UNCHANGED <<wallet, unlocks, locked, activeIndex, selecting, queued, shell>>
  BY DEF Signer!SelectAccount, Signer!store
<1>5. CASE index' = Head(storeCalls).index /\ Signer!Reply("selected", index')
  <2>1. index' \in Indexes
    BY <1>2, <1>5 DEF Calls
  <2>2. /\ replies' \in Seq(Replies) /\ Gains(replies, replies', "selected")
        /\ \A m : In(replies', m) <=> In(replies, m) \/ m = [op |-> "selected", index |-> index']
    BY <1>1, <1>5, <2>1, Replied
  <2>3. \A j \in Indexes : In(replies', [op |-> "selected", index |-> j]) => j = index'
    BY <1>3, <2>2, Facts
  <2>4. SignerTypes'
    BY <1>2, <1>4, <2>2 DEF SignerInv, SignerTypes
  <2>5. LockInv'
    BY <1>4, <2>2 DEF SignerInv, LockInv, Locks, Gains
  <2>6. OpeningInv'
    BY <1>2, <1>3, <1>4, <2>2, Facts DEF SignerInv, OpeningInv, Gains, Loses, LosesFirst
  <2>7. ChoiceInv'
    BY <1>2, <1>4, <2>2 DEF SignerInv, ChoiceInv, Choices, Gains, Loses, LosesFirst
  <2>8. ShownInv'
    BY <2>2, <2>3 DEF ShownInv, Gains
  <2> QED
    BY <2>4, <2>5, <2>6, <2>7, <2>8 DEF SignerInv
<1>6. CASE UNCHANGED index /\ Signer!Reply("selectFailed", 0)
  <2>1. /\ replies' \in Seq(Replies) /\ Gains(replies, replies', "selectFailed")
        /\ \A m : In(replies', m) <=> In(replies, m) \/ m = [op |-> "selectFailed", index |-> 0]
    BY <1>1, <1>6, Replied
  <2>2. SignerTypes'
    BY <1>2, <1>4, <2>1 DEF SignerInv, SignerTypes
  <2>3. LockInv'
    BY <1>4, <2>1 DEF SignerInv, LockInv, Locks, Gains
  <2>4. OpeningInv'
    BY <1>2, <1>4, <1>6, <2>1 DEF SignerInv, OpeningInv, Gains, Loses, LosesFirst
  <2>5. ChoiceInv'
    BY <1>2, <1>4, <2>1 DEF SignerInv, ChoiceInv, Choices, Gains, Loses, LosesFirst
  <2>6. ShownInv'
    BY <1>4, <1>6, <2>1 DEF SignerInv, ShownInv, Gains
  <2> QED
    BY <2>2, <2>3, <2>4, <2>5, <2>6 DEF SignerInv
<1> QED
  BY <1>5, <1>6 DEF Signer!SelectAccount

\* An unlock begins when none is under way.
LEMMA UserUnlocksKeeps ==
  ASSUME SignerAssumption, SignerInv, Signer!UserUnlocks PROVE SignerInv'
<1>1. SignerTypes /\ 0 \in Indexes
  BY DEF SignerInv, SignerAssumption, Signer!IndexesAssumption
<1>2. /\ storeCalls' \in Seq(Calls) /\ Gains(storeCalls, storeCalls', "unlock")
  BY <1>1, Made DEF Signer!UserUnlocks
<1>3. /\ locked /\ ~Has(storeCalls, {"unlock", "accounts"}) /\ ~Has(replies, {"unlocked", "accounts"})
      /\ UNCHANGED <<wallet, index, unlocks, locked, activeIndex, selecting, queued, shell, replies>>
  BY DEF Signer!UserUnlocks, Signer!store, Signer!backend, Has
<1>4. SignerTypes'
  BY <1>2, <1>3 DEF SignerInv, SignerTypes
<1>5. LockInv'
  BY <1>3 DEF SignerInv, LockInv
<1>6. OpeningInv'
  BY <1>2, <1>3 DEF SignerInv, OpeningInv, Gains
<1>7. ChoiceInv'
  BY <1>2, <1>3 DEF SignerInv, ChoiceInv, Gains
<1>8. ShownInv'
  BY <1>3 DEF SignerInv, ShownInv
<1> QED
  BY <1>4, <1>5, <1>6, <1>7, <1>8 DEF SignerInv

\* Every answer of the session before has arrived.
LEMMA UnlockedKeeps ==
  ASSUME SignerAssumption, SignerInv, Signer!Unlocked PROVE SignerInv'
<1>1. SignerTypes /\ 0 \in Indexes
  BY DEF SignerInv, SignerAssumption, Signer!IndexesAssumption
<1>2. /\ replies' \in Seq(Replies) /\ LosesFirst(replies, replies', "unlocked")
      /\ \A ops : "unlocked" \notin ops /\ AtMostOne(replies, {"unlocked"}) /\ ~Has(replies', ops)
                    => Before(replies, ops, "unlocked")
      /\ \A m : In(replies, m) <=> m = [op |-> "unlocked", index |-> 0] \/ In(replies', m)
  BY <1>1, Arrived DEF Signer!Unlocked
<1>3. /\ storeCalls' \in Seq(Calls) /\ Gains(storeCalls, storeCalls', "accounts")
  BY <1>1, Made DEF Signer!Unlocked
<1>4. /\ locked' = FALSE /\ queued' = Nothing
      /\ selecting' = IF selecting = Nothing THEN Nothing ELSE [selecting EXCEPT !.ours = FALSE]
      /\ UNCHANGED <<wallet, index, unlocks, activeIndex, shell>>
  BY DEF Signer!Unlocked, Signer!NewSession, Signer!backend
<1>5. /\ locked /\ shell = 0 /\ index = 0 /\ ~Has(storeCalls, {"unlock", "accounts"}) /\ ~Has(replies', {"unlocked", "accounts"})
      /\ ~Has(replies', Choices) /\ ~Has(storeCalls, {"select"}) /\ AtMostOne(replies, {"unlocked"})
  BY <1>2, Facts DEF SignerInv, OpeningInv, ChoiceInv, Loses, LosesFirst
<1>6. selecting' # Nothing => selecting' \in [index : Indexes, ours : BOOLEAN] /\ ~selecting'.ours
  BY <1>4 DEF SignerInv, ChoiceInv
<1>7. SignerTypes'
  BY <1>2, <1>3, <1>4 DEF SignerInv, SignerTypes
<1>8. LockInv'
  BY <1>2, <1>4, <1>5 DEF SignerInv, LockInv, Locks, Loses, LosesFirst
<1>9. OpeningInv'
  BY <1>2, <1>3, <1>4, Facts DEF SignerInv, OpeningInv, Gains, Loses, LosesFirst
<1>10. ChoiceInv'
  BY <1>2, <1>3, <1>6 DEF SignerInv, ChoiceInv, Gains, Loses, LosesFirst
<1>11. ShownInv'
  BY <1>4, <1>5 DEF ShownInv
<1> QED
  BY <1>7, <1>8, <1>9, <1>10, <1>11 DEF SignerInv

\* The shell opens on the first account.
LEMMA AccountsLoadedKeeps ==
  ASSUME SignerAssumption, SignerInv, Signer!AccountsLoaded PROVE SignerInv'
<1>1. SignerTypes /\ 0 \in Indexes
  BY DEF SignerInv, SignerAssumption, Signer!IndexesAssumption
<1>2. /\ replies' \in Seq(Replies) /\ Loses(replies, replies', "accounts")
      /\ \A ops : Before(replies', ops, "unlocked") => Before(replies, ops, "unlocked")
      /\ \A m : In(replies, m) <=> m = [op |-> "accounts", index |-> 0] \/ In(replies', m)
  BY <1>1, Arrived DEF Signer!AccountsLoaded
<1>3. /\ activeIndex' = 0 /\ (locked => shell' = shell)
      /\ UNCHANGED <<wallet, index, unlocks, locked, selecting, queued, storeCalls>>
  BY DEF Signer!AccountsLoaded, Signer!backend
<1>4. /\ index = 0 /\ shell = 0 /\ ~Has(storeCalls, {"select"}) /\ ~Has(replies, Choices)
      /\ ~Has(storeCalls, {"unlock", "accounts"}) /\ ~Has(replies', {"unlocked", "accounts"})
  BY <1>2 DEF SignerInv, OpeningInv, ChoiceInv, Loses
<1>5. SignerTypes'
  BY <1>2, <1>3 DEF SignerInv, SignerTypes
<1>6. LockInv'
  BY <1>2, <1>3 DEF SignerInv, LockInv, Locks, Loses
<1>7. OpeningInv'
  BY <1>2, <1>3 DEF SignerInv, OpeningInv, Loses
<1>8. ChoiceInv'
  BY <1>2, <1>3, <1>4 DEF SignerInv, ChoiceInv, Loses
<1>9. ShownInv'
  BY <1>2, <1>3, <1>4, Facts DEF ShownInv
<1> QED
  BY <1>5, <1>6, <1>7, <1>8, <1>9 DEF SignerInv

\* A lock asks nothing of what is under way.
LEMMA UserLocksKeeps ==
  ASSUME SignerAssumption, SignerInv, Signer!UserLocks PROVE SignerInv'
<1>1. SignerTypes /\ 0 \in Indexes
  BY DEF SignerInv, SignerAssumption, Signer!IndexesAssumption
<1>2. /\ storeCalls' \in Seq(Calls) /\ Gains(storeCalls, storeCalls', "lock")
  BY <1>1, Made DEF Signer!UserLocks
<1>3. UNCHANGED <<wallet, index, unlocks, locked, activeIndex, selecting, queued, shell, replies>>
  BY DEF Signer!UserLocks, Signer!store, Signer!backend
<1>4. SignerTypes'
  BY <1>2, <1>3 DEF SignerInv, SignerTypes
<1>5. LockInv'
  BY <1>3 DEF SignerInv, LockInv
<1>6. OpeningInv'
  BY <1>2, <1>3 DEF SignerInv, OpeningInv, Gains
<1>7. ChoiceInv'
  BY <1>2, <1>3 DEF SignerInv, ChoiceInv, Gains
<1>8. ShownInv'
  BY <1>3 DEF SignerInv, ShownInv
<1> QED
  BY <1>4, <1>5, <1>6, <1>7, <1>8 DEF SignerInv

\* The event of a lock closes the shell, once.
LEMMA LockedEventKeeps ==
  ASSUME SignerAssumption, SignerInv, Signer!LockedEvent PROVE SignerInv'
<1>1. SignerTypes /\ 0 \in Indexes
  BY DEF SignerInv, SignerAssumption, Signer!IndexesAssumption
<1>2. /\ replies' \in Seq(Replies) /\ Loses(replies, replies', "locked")
      /\ \A ops : Before(replies', ops, "unlocked") => Before(replies, ops, "unlocked")
      /\ \A m : In(replies, m) <=> m = [op |-> "locked", index |-> 0] \/ In(replies', m)
  BY <1>1, Arrived DEF Signer!LockedEvent
<1>3. /\ UNCHANGED <<wallet, index, unlocks, storeCalls>>
      /\ \/ /\ locked' = TRUE /\ shell' = 0 /\ queued' = Nothing
            /\ selecting' = IF selecting = Nothing THEN Nothing ELSE [selecting EXCEPT !.ours = FALSE]
         \/ locked /\ UNCHANGED <<locked, shell, queued, selecting>>
  BY DEF Signer!LockedEvent, Signer!ApplyLocked, Signer!NewSession, Signer!backend, Signer!store
<1>4. locked' /\ shell' = 0 /\ queued' \in Indexes \cup {Nothing} /\ (selecting' = Nothing <=> selecting = Nothing)
  BY <1>1, <1>3 DEF SignerInv, ChoiceInv, OpeningInv, SignerAssumption, SignerTypes
<1>5. selecting' # Nothing => selecting' \in [index : Indexes, ours : BOOLEAN] /\ ~selecting'.ours
  BY <1>3 DEF SignerInv, ChoiceInv, OpeningInv
<1>6. SignerTypes'
  BY <1>2, <1>3 DEF SignerInv, SignerTypes
<1>7. LockInv'
  BY <1>2, <1>3 DEF SignerInv, LockInv, Locks, Loses
<1>8. OpeningInv'
  BY <1>2, <1>3 DEF SignerInv, OpeningInv, Loses
<1>9. ChoiceInv'
  BY <1>2, <1>3, <1>4 DEF SignerInv, ChoiceInv, Loses
<1>10. ShownInv'
  BY <1>4 DEF ShownInv
<1> QED
  BY <1>6, <1>7, <1>8, <1>9, <1>10 DEF SignerInv

\* So does the answer.
LEMMA LockDoneKeeps ==
  ASSUME SignerAssumption, SignerInv, Signer!LockDone PROVE SignerInv'
<1>1. SignerTypes /\ 0 \in Indexes
  BY DEF SignerInv, SignerAssumption, Signer!IndexesAssumption
<1>2. /\ replies' \in Seq(Replies) /\ Loses(replies, replies', "lockDone")
      /\ \A ops : Before(replies', ops, "unlocked") => Before(replies, ops, "unlocked")
      /\ \A m : In(replies, m) <=> m = [op |-> "lockDone", index |-> 0] \/ In(replies', m)
  BY <1>1, Arrived DEF Signer!LockDone
<1>3. /\ UNCHANGED <<wallet, index, unlocks, storeCalls>>
      /\ /\ locked' = TRUE /\ shell' = 0 /\ queued' = Nothing
         /\ selecting' = IF selecting = Nothing THEN Nothing ELSE [selecting EXCEPT !.ours = FALSE]
  BY DEF Signer!LockDone, Signer!ApplyLocked, Signer!NewSession, Signer!backend, Signer!store
<1>4. locked' /\ shell' = 0 /\ queued' \in Indexes \cup {Nothing} /\ (selecting' = Nothing <=> selecting = Nothing)
  BY <1>1, <1>3 DEF SignerInv, ChoiceInv, SignerAssumption, SignerTypes
<1>5. selecting' # Nothing => selecting' \in [index : Indexes, ours : BOOLEAN] /\ ~selecting'.ours
  BY <1>3 DEF SignerInv, ChoiceInv
<1>6. SignerTypes'
  BY <1>2, <1>3 DEF SignerInv, SignerTypes
<1>7. LockInv'
  BY <1>2, <1>3 DEF SignerInv, LockInv, Locks, Loses
<1>8. OpeningInv'
  BY <1>2, <1>3 DEF SignerInv, OpeningInv, Loses
<1>9. ChoiceInv'
  BY <1>2, <1>3, <1>4 DEF SignerInv, ChoiceInv, Loses
<1>10. ShownInv'
  BY <1>4 DEF ShownInv
<1> QED
  BY <1>6, <1>7, <1>8, <1>9, <1>10 DEF SignerInv

\* A selection is called when none is under way.
LEMMA SelectKeeps ==
  ASSUME SignerAssumption, SignerInv, NEW i \in Indexes, Signer!Select(i) PROVE SignerInv'
<1>1. SignerTypes /\ 0 \in Indexes
  BY DEF SignerInv, SignerAssumption, Signer!IndexesAssumption
<1>2. /\ shell # 0 /\ UNCHANGED <<wallet, index, unlocks, locked, activeIndex, shell, replies>>
      /\ ~Has(storeCalls, {"unlock", "accounts"}) /\ ~Has(replies, {"unlocked", "accounts"})
  BY DEF Signer!Select, Signer!backend, SignerInv, OpeningInv
<1>3. CASE selecting # Nothing
  <2>1. queued' = i /\ UNCHANGED <<selecting, storeCalls>>
    BY <1>3 DEF Signer!Select
  <2> QED
    BY <1>1, <1>2, <2>1 DEF SignerInv, SignerTypes, LockInv, OpeningInv, ChoiceInv, ShownInv
<1>4. CASE selecting = Nothing
  <2>1. selecting' = [index |-> i, ours |-> TRUE] /\ Signer!Call("select", i) /\ queued' = queued
    BY <1>4 DEF Signer!Select, Signer!SelectCall
  <2>2. selecting' # Nothing /\ selecting' \in [index : Indexes, ours : BOOLEAN] /\ selecting'.ours
    <3>1. selecting' \in [index : Indexes, ours : BOOLEAN] /\ selecting'.ours
      BY <2>1
    <3> QED
      BY <3>1 DEF SignerAssumption
  <2>3. /\ storeCalls' \in Seq(Calls) /\ Gains(storeCalls, storeCalls', "select")
    BY <1>1, <2>1, Made
  <2>4. SignerTypes'
    BY <1>2, <2>1, <2>3 DEF SignerInv, SignerTypes
  <2>5. LockInv'
    BY <1>2 DEF SignerInv, LockInv
  <2>6. OpeningInv'
    BY <1>2, <2>3 DEF SignerInv, OpeningInv, Gains
  <2>7. ChoiceInv'
    BY <1>2, <1>4, <2>2, <2>3, Facts DEF SignerInv, ChoiceInv, Gains
  <2>8. ShownInv'
    BY <1>2 DEF SignerInv, ShownInv
  <2> QED
    BY <2>4, <2>5, <2>6, <2>7, <2>8 DEF SignerInv
<1> QED
  BY <1>3, <1>4

\* Its answer is shown, and the queued one called.
LEMMA SelectedKeeps ==
  ASSUME SignerAssumption, SignerInv, NEW i \in Indexes, Signer!Selected(i) PROVE SignerInv'
<1>1. SignerTypes /\ 0 \in Indexes
  BY DEF SignerInv, SignerAssumption, Signer!IndexesAssumption
<1>2. /\ replies' \in Seq(Replies) /\ Loses(replies, replies', "selected")
      /\ \A ops : Before(replies', ops, "unlocked") => Before(replies, ops, "unlocked")
      /\ \A m : In(replies, m) <=> m = [op |-> "selected", index |-> i] \/ In(replies', m)
  BY <1>1, Arrived DEF Signer!Selected
<1>3. queued' = Nothing /\ UNCHANGED <<wallet, index, unlocks, locked, shell>>
  BY DEF Signer!Selected, Signer!backend
<1>4. /\ ~Has(replies', Choices) /\ ~Has(storeCalls, {"select"}) /\ selecting # Nothing
      /\ ~Has(storeCalls, {"accounts"}) /\ ~Has(replies, {"accounts"})
  BY <1>2 DEF SignerInv, ChoiceInv, Choices, Loses
<1>5. CASE selecting.ours
  <2>1. /\ activeIndex' = i /\ shell # 0
        /\ \/ selecting' = Nothing /\ UNCHANGED storeCalls
           \/ selecting' = [index |-> queued, ours |-> TRUE] /\ Signer!Call("select", queued) /\ queued \in Indexes
    BY <1>1, <1>4, <1>5 DEF Signer!Selected, Signer!ShowSelected, Signer!SelectCall, SignerInv, ChoiceInv, SignerTypes
  <2>2. wallet # 0 => i = index
    BY <1>2, <2>1 DEF SignerInv, ShownInv
  <2>3. ~Has(storeCalls, {"unlock", "accounts"}) /\ ~Has(replies, {"unlocked", "accounts"})
    BY <2>1 DEF SignerInv, OpeningInv
  <2>4. /\ storeCalls' \in Seq(Calls) /\ (selecting' = Nothing => UNCHANGED storeCalls)
        /\ selecting' # Nothing => selecting' \in [index : Indexes, ours : BOOLEAN] /\ selecting'.ours
        /\ \A ops : "select" \notin ops => (Has(storeCalls', ops) <=> Has(storeCalls, ops))
                                           /\ (AtMostOne(storeCalls', ops) <=> AtMostOne(storeCalls, ops))
        /\ AtMostOne(storeCalls', {"select"}) /\ Before(storeCalls', {"select"}, "unlock")
    <3>1. CASE selecting' = Nothing /\ UNCHANGED storeCalls
      BY <1>1, <2>3, <3>1, Facts DEF SignerInv, ChoiceInv, SignerTypes
    <3>2. CASE selecting' = [index |-> queued, ours |-> TRUE] /\ Signer!Call("select", queued) /\ queued \in Indexes
      <4>1. /\ storeCalls' \in Seq(Calls) /\ Gains(storeCalls, storeCalls', "select")
        BY <1>1, <3>2, Made
      <4>2. selecting' # Nothing /\ selecting' \in [index : Indexes, ours : BOOLEAN] /\ selecting'.ours
        <5>1. selecting' \in [index : Indexes, ours : BOOLEAN] /\ selecting'.ours
          BY <3>2
        <5> QED
          BY <5>1 DEF SignerAssumption
      <4> QED
        BY <1>4, <2>3, <4>1, <4>2, Facts DEF SignerInv, ChoiceInv, Gains
    <3> QED
      BY <2>1, <3>1, <3>2
  <2>5. SignerTypes'
    BY <1>2, <1>3, <2>4 DEF SignerInv, SignerTypes
  <2>6. LockInv'
    BY <1>2, <1>3 DEF SignerInv, LockInv, Locks, Loses
  <2>7. OpeningInv'
    BY <1>2, <1>3, <2>4 DEF SignerInv, OpeningInv, Loses
  <2>8. ChoiceInv'
    BY <1>2, <1>3, <2>1, <2>3, <2>4, Facts DEF SignerInv, ChoiceInv, Choices, Loses
  <2>9. ShownInv'
    BY <1>3, <1>4, <2>1, <2>2, Facts DEF ShownInv
  <2> QED
    BY <2>5, <2>6, <2>7, <2>8, <2>9 DEF SignerInv
<1>6. CASE ~selecting.ours
  <2>1. selecting' = Nothing /\ UNCHANGED <<activeIndex, storeCalls>>
    BY <1>6 DEF Signer!Selected
  <2>2. locked /\ shell = 0
    BY <1>2, <1>6 DEF SignerInv, ChoiceInv, OpeningInv, Choices, Loses
  <2>3. SignerTypes'
    BY <1>2, <1>3, <2>1 DEF SignerInv, SignerTypes
  <2>4. LockInv'
    BY <1>2, <1>3 DEF SignerInv, LockInv, Locks, Loses
  <2>5. OpeningInv'
    BY <1>2, <1>3, <2>1 DEF SignerInv, OpeningInv, Loses
  <2>6. ChoiceInv'
    BY <1>2, <2>1 DEF SignerInv, ChoiceInv, Choices, Loses
  <2>7. ShownInv'
    BY <1>3, <2>2 DEF ShownInv
  <2> QED
    BY <2>3, <2>4, <2>5, <2>6, <2>7 DEF SignerInv
<1> QED
  BY <1>5, <1>6

\* A failed one leaves the account that is shown.
LEMMA SelectFailedKeeps ==
  ASSUME SignerAssumption, SignerInv, Signer!SelectFailed PROVE SignerInv'
<1>1. SignerTypes /\ 0 \in Indexes
  BY DEF SignerInv, SignerAssumption, Signer!IndexesAssumption
<1>2. /\ replies' \in Seq(Replies) /\ Loses(replies, replies', "selectFailed")
      /\ \A ops : Before(replies', ops, "unlocked") => Before(replies, ops, "unlocked")
      /\ \A m : In(replies, m) <=> m = [op |-> "selectFailed", index |-> 0] \/ In(replies', m)
  BY <1>1, Arrived DEF Signer!SelectFailed
<1>3. /\ selecting' = Nothing /\ queued' = Nothing
      /\ UNCHANGED <<wallet, index, unlocks, locked, activeIndex, shell, storeCalls>>
  BY DEF Signer!SelectFailed, Signer!backend
<1>4. ~Has(replies', Choices) /\ ~Has(storeCalls, {"select"})
  BY <1>2 DEF SignerInv, ChoiceInv, Choices, Loses
<1>5. SignerTypes'
  BY <1>2, <1>3 DEF SignerInv, SignerTypes
<1>6. LockInv'
  BY <1>2, <1>3 DEF SignerInv, LockInv, Locks, Loses
<1>7. OpeningInv'
  BY <1>2, <1>3 DEF SignerInv, OpeningInv, Loses
<1>8. ChoiceInv'
  BY <1>2, <1>3 DEF SignerInv, ChoiceInv, Choices, Loses
<1>9. ShownInv'
  BY <1>2, <1>3 DEF SignerInv, ShownInv, Loses
<1> QED
  BY <1>5, <1>6, <1>7, <1>8, <1>9 DEF SignerInv

\* Every action keeps it that what is under way will make the store show what signs.
LEMMA SignerStep ==
  ASSUME SignerAssumption, SignerInv, [Signer!Next]_Signer!vars PROVE SignerInv'
<1>1. CASE UNCHANGED <<wallet, index, unlocks, locked, activeIndex, selecting, queued, shell, storeCalls, replies>>
  BY <1>1 DEF SignerInv, SignerTypes, LockInv, OpeningInv, ChoiceInv, ShownInv
<1>2. CASE Signer!Store
  BY <1>2, UnlockedKeeps, AccountsLoadedKeeps, LockedEventKeeps, LockDoneKeeps, SelectFailedKeeps, SelectedKeeps
     DEF Signer!Store
<1>3. CASE Signer!Backend
  BY <1>3, UnlockKeeps, CurrentAccountsKeeps, LockKeeps, SelectAccountKeeps DEF Signer!Backend
<1>4. CASE Signer!AutoLock \/ Signer!UserUnlocks \/ Signer!UserLocks \/ \E i \in Indexes : Signer!Select(i)
  BY <1>4, AutoLockKeeps, UserUnlocksKeeps, UserLocksKeeps, SelectKeeps
<1>5. CASE Signer!Tick \/ Signer!PageLoad \/ \E l \in Signer!Loads : Signer!LoadRuns(l) \/ Signer!Loaded(l)
  BY <1>1, <1>5 DEF Signer!Tick, Signer!PageLoad, Signer!LoadRuns, Signer!Loaded, Signer!backend, Signer!store
<1>6. CASE UNCHANGED Signer!vars
  BY <1>1, <1>6 DEF Signer!vars, Signer!backend, Signer!store
<1> QED
  BY <1>2, <1>3, <1>4, <1>5, <1>6 DEF Signer!Next

\* The invariant of the selections holds in every reachable state.
LEMMA SignerInvariant == ASSUME SignerAssumption PROVE Signer!Spec => []SignerInv
<1>1. Signer!Init => SignerInv
  <2> SUFFICES ASSUME Signer!Init PROVE SignerInv
    OBVIOUS
  <2>1. /\ \A ops : ~Has(storeCalls, ops) /\ ~Has(replies, ops) /\ AtMostOne(storeCalls, ops) /\ AtMostOne(replies, ops)
        /\ \A m : ~In(replies, m)
        /\ storeCalls \in Seq(Calls) /\ replies \in Seq(Replies)
    BY DEF Signer!Init, Has, AtMostOne, In
  <2> QED
    BY <2>1, Facts DEF Signer!Init, SignerInv, SignerTypes, LockInv, OpeningInv, ChoiceInv, ShownInv
<1>2. SignerInv /\ [Signer!Next]_Signer!vars => SignerInv'
  BY SignerStep
<1> QED
  BY <1>1, <1>2, PTL DEF Signer!Spec

\* With every call answered, the store is locked with the backend and shows the account
\* that signs, whatever unlocks, locks and selections overlapped, failed, and were
\* answered out of order (wallet.ts select: "the backend returns the authoritative
\* selection; render that").
THEOREM ShowsWhatSigns == ASSUME SignerAssumption PROVE Signer!Spec => []Signer!ShowsTheSigner
<1>1. SignerInv => Signer!ShowsTheSigner
  <2> SUFFICES ASSUME SignerInv, storeCalls = <<>>, replies = <<>>
               PROVE  (locked <=> wallet = 0) /\ (shell # 0 => activeIndex = index)
    BY DEF Signer!ShowsTheSigner, Signer!Settled
  <2>1. \A ops : ~Has(replies, ops)
    BY DEF Has
  <2>2. locked <=> wallet = 0
    BY <2>1 DEF SignerInv, LockInv, SignerTypes
  <2> QED
    BY <2>1, <2>2 DEF SignerInv, OpeningInv, ShownInv
<1> QED
  BY <1>1, SignerInvariant, PTL

-----------------------------------------------------------------------------
(* The last intent.                                                        *)

\* The account that is shown once what is under way and queued has run.
Intent == IF queued # Nothing THEN queued ELSE IF selecting # Nothing THEN selecting.index ELSE activeIndex

\* The selection under way has its call or its answer, and no other is.
AskedInv ==
  /\ selecting # Nothing => Has(storeCalls, {"select"}) \/ Has(replies, Choices)
  /\ queued # Nothing => selecting # Nothing
  /\ \A i \in Indexes :
       In(storeCalls, [op |-> "select", index |-> i]) \/ In(replies, [op |-> "selected", index |-> i]) =>
         selecting # Nothing /\ i = selecting.index

\* It ends with what the user asked for last, if no selection fails.
WantedInv == shell # 0 /\ wallet # 0 => ~Has(replies, {"selectFailed"}) /\ wanted = Intent

IntentInv == AskedInv /\ WantedInv

\* Two queues with the same selections.
Alike(s, t) ==
  /\ \A ops \in {{"select"}, Choices, {"selectFailed"}} : Has(s, ops) <=> Has(t, ops)
  /\ \A op \in {"select", "selected"}, i \in Indexes :
       In(s, [op |-> op, index |-> i]) <=> In(t, [op |-> op, index |-> i])

\* A message of another kind is added, or taken.
LEMMA OtherKind ==
  ASSUME NEW s, NEW t, NEW r, r.op \notin {"select", "selected", "selectFailed"}
  PROVE  /\ Gains(s, t, r.op) /\ (\A m : In(t, m) <=> In(s, m) \/ m = r) => Alike(s, t)
         /\ Loses(s, t, r.op) /\ (\A m : In(s, m) <=> m = r \/ In(t, m)) => Alike(s, t)
<1>1. \A ops \in {{"select"}, Choices, {"selectFailed"}} : r.op \notin ops
  BY DEF Choices
<1>2. \A op \in {"select", "selected"}, i \in Indexes : [op |-> op, index |-> i] # r
  OBVIOUS
<1> QED
  BY <1>1, <1>2 DEF Alike, Gains, Loses

\* A call of another kind is made, or runs.
LEMMA OtherCall ==
  ASSUME SignerTypes, NEW op \in {"unlock", "accounts", "lock"}
  PROVE  /\ \A i \in Indexes : Signer!Call(op, i) => Alike(storeCalls, storeCalls')
         /\ Signer!Runs(op) => Alike(storeCalls, storeCalls')
<1>1. ASSUME NEW i \in Indexes, Signer!Call(op, i) PROVE Alike(storeCalls, storeCalls')
  <2> DEFINE r == [op |-> op, index |-> i]
  <2>1. r.op = op /\ op \notin {"select", "selected", "selectFailed"}
    OBVIOUS
  <2>2. Gains(storeCalls, storeCalls', op) /\ \A m : In(storeCalls', m) <=> In(storeCalls, m) \/ m = r
    BY <1>1, Made
  <2> HIDE DEF r
  <2> QED
    BY <2>1, <2>2, OtherKind
<1>2. ASSUME Signer!Runs(op) PROVE Alike(storeCalls, storeCalls')
  <2> DEFINE r == Head(storeCalls)
  <2>1. /\ r.op = op /\ op \notin {"select", "selected", "selectFailed"} /\ LosesFirst(storeCalls, storeCalls', op)
        /\ \A m : In(storeCalls, m) <=> m = r \/ In(storeCalls', m)
    BY <1>2, Ran
  <2>2. Loses(storeCalls, storeCalls', r.op)
    BY <2>1 DEF LosesFirst
  <2> HIDE DEF r
  <2> QED
    BY <2>1, <2>2, OtherKind
<1> QED
  BY <1>1, <1>2

\* An answer of another kind is sent.
LEMMA OtherReply ==
  ASSUME NEW s \in Seq(Replies), NEW i \in Indexes,
         NEW op \in {"unlocked", "accounts", "locked", "lockDone"}
  PROVE  LET t == Append(s, [op |-> op, index |-> i]) IN t \in Seq(Replies) /\ Alike(s, t)
<1> DEFINE r == [op |-> op, index |-> i]
<1>1. r.op = op /\ r \in Replies /\ r.op \notin {"select", "selected", "selectFailed"}
  BY DEF Replies
<1>2. r = [op |-> op, index |-> i]
  OBVIOUS
<1> HIDE DEF r
<1>3. /\ Append(s, r) \in Seq(Replies) /\ Gains(s, Append(s, r), r.op)
      /\ \A m : In(Append(s, r), m) <=> In(s, m) \/ m = r
  BY <1>1, AddGains
<1>4. Alike(s, Append(s, r))
  BY <1>1, <1>3, OtherKind
<1> QED
  BY <1>2, <1>3, <1>4

\* The same selections are asked for while they stay in the queues.
LEMMA AskedStays ==
  ASSUME AskedInv, Alike(storeCalls, storeCalls'), Alike(replies, replies'), queued' \in {queued, Nothing},
         selecting' # Nothing <=> selecting # Nothing,
         selecting # Nothing => selecting'.index = selecting.index
  PROVE  AskedInv'
BY DEF AskedInv, Alike

\* Nothing is asked for with nothing in the queues.
LEMMA NothingAsked ==
  ASSUME NEW s, NEW t, ~Has(s, {"select"}), ~Has(t, Choices)
  PROVE  \A i : ~In(s, [op |-> "select", index |-> i]) /\ ~In(t, [op |-> "selected", index |-> i])
BY DEF Has, In, Choices

\* What the user asked for last is under way, queued or shown.
LEMMA IntentStep ==
  ASSUME SignerAssumption, ~SelectFails, SignerInv, SignerInv', IntentInv, [Signer!Next]_Signer!vars
  PROVE  IntentInv'
<1>1. /\ SignerTypes /\ 0 \in Indexes /\ Nothing \notin Indexes /\ LockInv /\ OpeningInv /\ ChoiceInv /\ ShownInv
      /\ AskedInv /\ WantedInv
  BY DEF SignerInv, SignerAssumption, Signer!IndexesAssumption, IntentInv
<1>2. Alike(storeCalls, storeCalls) /\ Alike(replies, replies)
  BY DEF Alike
<1>3. ASSUME UNCHANGED <<wallet, activeIndex, selecting, queued, shell, storeCalls, replies, wanted>> PROVE IntentInv'
  BY <1>3 DEF IntentInv, AskedInv, WantedInv, Intent
<1>4. ASSUME Alike(storeCalls, storeCalls'), Alike(replies, replies'),
             UNCHANGED <<selecting, queued, activeIndex, shell, wanted>>,
             shell # 0 /\ wallet' # 0 => wallet # 0
      PROVE  IntentInv'
  <2>1. AskedInv'
    BY <1>1, <1>4, AskedStays
  <2>2. WantedInv'
    BY <1>1, <1>4 DEF WantedInv, Intent, Alike
  <2> QED
    BY <2>1, <2>2 DEF IntentInv
<1>5. CASE Signer!Unlock
  <2>1. Alike(storeCalls, storeCalls')
    BY <1>1, <1>5, OtherCall DEF Signer!Unlock
  <2>2. Alike(replies, replies')
    BY <1>1, <1>5, OtherReply DEF Signer!Unlock, Signer!Reply, SignerTypes
  <2>3. shell = 0 /\ UNCHANGED <<selecting, queued, activeIndex, shell, wanted>>
    <3>1. Has(storeCalls, {"unlock"})
      BY <1>1, <1>5, Ran DEF Signer!Unlock, LosesFirst, Loses
    <3> QED
      BY <1>1, <1>5, <3>1 DEF Signer!Unlock, Signer!store, OpeningInv
  <2> QED
    BY <1>4, <2>1, <2>2, <2>3
<1>6. CASE Signer!CurrentAccounts
  <2>1. Alike(storeCalls, storeCalls')
    BY <1>1, <1>6, OtherCall DEF Signer!CurrentAccounts
  <2>2. Alike(replies, replies')
    BY <1>1, <1>6, OtherReply DEF Signer!CurrentAccounts, Signer!Reply, SignerTypes
  <2> QED
    BY <1>4, <1>6, <2>1, <2>2 DEF Signer!CurrentAccounts, Signer!store, Signer!backend
<1>7. CASE Signer!Lock
  <2>1. Alike(storeCalls, storeCalls')
    BY <1>1, <1>7, OtherCall DEF Signer!Lock
  <2> DEFINE told == Append(replies, [op |-> "locked", index |-> 0])
             done == Append(told, [op |-> "lockDone", index |-> 0])
  <2>2. replies \in Seq(Replies) /\ replies' = done
    BY <1>1, <1>7 DEF Signer!Lock, SignerTypes
  <2>3. told \in Seq(Replies) /\ Alike(replies, told)
    BY <1>1, <2>2, OtherReply
  <2> HIDE DEF told
  <2>4. Alike(told, done)
    BY <1>1, <2>3, OtherReply
  <2>5. Alike(replies, replies')
    BY <2>2, <2>3, <2>4 DEF Alike
  <2> QED
    BY <1>4, <1>7, <2>1, <2>5 DEF Signer!Lock, Signer!store
<1>8. CASE Signer!AutoLock
  <2>1. Alike(replies, replies')
    BY <1>1, <1>8, OtherReply DEF Signer!AutoLock, Signer!Reply, SignerTypes
  <2> QED
    BY <1>2, <1>4, <1>8, <2>1 DEF Signer!AutoLock, Signer!store
<1>9. CASE Signer!SelectAccount
  <2>1. /\ Has(storeCalls, {"select"}) /\ Head(storeCalls) \in Calls /\ Head(storeCalls).op = "select"
        /\ \A m : In(storeCalls, m) <=> m = Head(storeCalls) \/ In(storeCalls', m)
    BY <1>1, <1>9, Ran DEF Signer!SelectAccount, LosesFirst, Loses
  <2>2. Head(storeCalls) = [op |-> "select", index |-> Head(storeCalls).index] /\ Head(storeCalls).index \in Indexes
    BY <2>1 DEF Calls
  <2>3. selecting # Nothing /\ Head(storeCalls).index = selecting.index
    BY <1>1, <2>1, <2>2 DEF AskedInv
  <2>4. UNCHANGED <<wallet, activeIndex, selecting, queued, shell, wanted>>
    BY <1>9 DEF Signer!SelectAccount, Signer!store
  <2>5. CASE wallet # 0 /\ index' = Head(storeCalls).index /\ Signer!Reply("selected", index')
    <3>1. /\ Gains(replies, replies', "selected")
          /\ \A m : In(replies', m) <=> In(replies, m) \/ m = [op |-> "selected", index |-> index']
      BY <1>1, <2>2, <2>5, Replied
    <3>2. AskedInv'
      BY <1>1, <2>1, <2>3, <2>4, <2>5, <3>1 DEF AskedInv, Choices, Gains
    <3>3. WantedInv'
      BY <1>1, <2>4, <3>1 DEF WantedInv, Intent, Gains
    <3> QED
      BY <3>2, <3>3 DEF IntentInv
  <2>6. CASE wallet = 0 /\ Signer!Reply("selectFailed", 0)
    <3>1. /\ Gains(replies, replies', "selectFailed")
          /\ \A m : In(replies', m) <=> In(replies, m) \/ m = [op |-> "selectFailed", index |-> 0]
      BY <1>1, <2>6, Replied
    <3>2. AskedInv'
      BY <1>1, <2>1, <2>3, <2>4, <3>1 DEF AskedInv, Choices, Gains
    <3>3. WantedInv'
      BY <2>4, <2>6 DEF WantedInv
    <3> QED
      BY <3>2, <3>3 DEF IntentInv
  <2> QED
    BY <1>9, <2>5, <2>6 DEF Signer!SelectAccount
<1>10. CASE Signer!UserUnlocks
  <2>1. Alike(storeCalls, storeCalls')
    BY <1>1, <1>10, OtherCall DEF Signer!UserUnlocks
  <2> QED
    BY <1>2, <1>4, <1>10, <2>1 DEF Signer!UserUnlocks, Signer!store, Signer!backend
<1>11. CASE Signer!UserLocks
  <2>1. Alike(storeCalls, storeCalls')
    BY <1>1, <1>11, OtherCall DEF Signer!UserLocks
  <2> QED
    BY <1>2, <1>4, <1>11, <2>1 DEF Signer!UserLocks, Signer!store, Signer!backend
<1>12. CASE Signer!Unlocked
  <2>1. LosesFirst(replies, replies', "unlocked")
    BY <1>1, <1>12, Arrived DEF Signer!Unlocked
  <2>2. Has(replies, {"unlocked"}) /\ ~Has(replies, Choices) /\ ~Has(replies', Choices)
    BY <1>1, <2>1 DEF LosesFirst, Loses, ChoiceInv, Choices
  <2>3. ~Has(storeCalls, {"select"}) /\ ~Has(storeCalls', {"select"})
    BY <1>1, <1>12, <2>2, Made DEF Signer!Unlocked, ChoiceInv, Gains
  <2>4. selecting' = Nothing /\ queued' = Nothing /\ shell' = 0
    BY <1>1, <1>12, <2>2, <2>3 DEF AskedInv, OpeningInv, Signer!Unlocked, Signer!NewSession
  <2> QED
    BY <2>2, <2>3, <2>4, NothingAsked DEF IntentInv, AskedInv, WantedInv
<1>13. CASE Signer!AccountsLoaded
  <2>1. Loses(replies, replies', "accounts") /\ UNCHANGED <<storeCalls, selecting, queued, wallet, locked>>
    BY <1>1, <1>13, Arrived DEF Signer!AccountsLoaded, Signer!backend
  <2>2. ~Has(storeCalls, {"select"}) /\ ~Has(replies, Choices) /\ ~Has(replies', Choices)
    BY <1>1, <2>1 DEF ChoiceInv, Loses
  <2>3. selecting' = Nothing /\ queued' = Nothing
    BY <1>1, <2>1, <2>2 DEF AskedInv
  <2>4. AskedInv'
    BY <2>1, <2>2, <2>3, NothingAsked DEF AskedInv
  <2>5. WantedInv'
    BY <1>13, <2>2, <2>3, Facts DEF Signer!AccountsLoaded, WantedInv, Intent
  <2> QED
    BY <2>4, <2>5 DEF IntentInv
<1>14. CASE Signer!LockedEvent \/ Signer!LockDone
  <2>1. Alike(replies, replies')
    BY <1>1, <1>14, Arrived, OtherKind DEF Signer!LockedEvent, Signer!LockDone
  <2>2. shell' = 0 /\ queued' \in {queued, Nothing} /\ UNCHANGED storeCalls
        /\ selecting' \in {selecting, IF selecting = Nothing THEN Nothing ELSE [selecting EXCEPT !.ours = FALSE]}
    BY <1>1, <1>14 DEF Signer!LockedEvent, Signer!LockDone, Signer!ApplyLocked, Signer!NewSession, Signer!store, OpeningInv
  <2>3. (selecting' # Nothing <=> selecting # Nothing) /\ (selecting # Nothing => selecting'.index = selecting.index)
    <3>1. CASE selecting = Nothing
      BY <2>2, <3>1
    <3>2. CASE selecting # Nothing
      <4>1. selecting \in [index : Indexes, ours : BOOLEAN]
        BY <1>1, <3>2 DEF ChoiceInv
      <4>2. [selecting EXCEPT !.ours = FALSE] \in [index : Indexes, ours : BOOLEAN]
            /\ [selecting EXCEPT !.ours = FALSE].index = selecting.index
        BY <4>1
      <4> QED
        BY <2>2, <3>2, <4>2 DEF SignerAssumption
    <3> QED
      BY <3>1, <3>2
  <2>4. AskedInv'
    BY <1>1, <1>2, <2>1, <2>2, <2>3, AskedStays
  <2> QED
    BY <2>2, <2>4 DEF IntentInv, WantedInv
<1>15. ASSUME NEW i \in Indexes, Signer!Select(i) PROVE IntentInv'
  <2>1. wanted' = i /\ UNCHANGED <<wallet, shell, activeIndex, replies>> /\ i # Nothing
    BY <1>1, <1>15 DEF Signer!Select, Signer!backend
  <2>2. CASE selecting # Nothing
    <3>1. queued' = i /\ UNCHANGED <<selecting, storeCalls>>
      BY <1>15, <2>2 DEF Signer!Select
    <3>2. AskedInv' /\ WantedInv'
      BY <1>1, <2>1, <2>2, <3>1 DEF AskedInv, WantedInv, Intent
    <3> QED
      BY <3>2 DEF IntentInv
  <2>3. CASE selecting = Nothing
    <3>1. selecting' = [index |-> i, ours |-> TRUE] /\ Signer!Call("select", i) /\ queued' = queued /\ queued = Nothing
      BY <1>1, <1>15, <2>3 DEF Signer!Select, Signer!SelectCall, AskedInv
    <3>2. selecting' # Nothing /\ selecting'.index = i
      <4>1. selecting' \in [index : Indexes, ours : BOOLEAN] /\ selecting'.index = i
        BY <3>1
      <4> QED
        BY <4>1 DEF SignerAssumption
    <3>3. /\ Gains(storeCalls, storeCalls', "select")
          /\ \A m : In(storeCalls', m) <=> In(storeCalls, m) \/ m = [op |-> "select", index |-> i]
      BY <1>1, <3>1, Made
    <3>4. AskedInv'
      BY <1>1, <2>1, <2>3, <3>1, <3>2, <3>3 DEF AskedInv, Gains
    <3>5. WantedInv'
      BY <1>1, <2>1, <3>1, <3>2 DEF WantedInv, Intent
    <3> QED
      BY <3>4, <3>5 DEF IntentInv
  <2> QED
    BY <2>2, <2>3
<1>16. ASSUME NEW i \in Indexes, Signer!Selected(i) PROVE IntentInv'
  <2>1. /\ Loses(replies, replies', "selected")
        /\ \A m : In(replies, m) <=> m = [op |-> "selected", index |-> i] \/ In(replies', m)
    BY <1>1, <1>16, Arrived DEF Signer!Selected
  <2>2. /\ Has(replies, Choices) /\ ~Has(replies', Choices) /\ ~Has(storeCalls, {"select"})
    BY <1>1, <2>1 DEF ChoiceInv, Choices, Loses
  <2>3. selecting # Nothing /\ i = selecting.index /\ i # Nothing
    BY <1>1, <2>1 DEF AskedInv
  <2>4. queued' = Nothing /\ UNCHANGED <<wallet, shell, wanted>>
    BY <1>16 DEF Signer!Selected, Signer!backend
  <2>5. CASE ~selecting.ours
    <3>1. selecting' = Nothing /\ UNCHANGED <<storeCalls, activeIndex>> /\ shell = 0
      BY <1>1, <1>16, <2>2, <2>5 DEF Signer!Selected, ChoiceInv, OpeningInv
    <3> QED
      BY <2>2, <2>4, <3>1, NothingAsked DEF IntentInv, AskedInv, WantedInv
  <2>6. CASE selecting.ours /\ queued = Nothing
    <3>1. selecting' = Nothing /\ UNCHANGED storeCalls /\ activeIndex' = i
      BY <1>16, <2>6 DEF Signer!Selected, Signer!ShowSelected
    <3>2. AskedInv'
      BY <2>2, <2>4, <3>1, NothingAsked DEF AskedInv
    <3>3. WantedInv'
      BY <1>1, <2>2, <2>3, <2>4, <2>6, <3>1, Facts DEF WantedInv, Intent
    <3> QED
      BY <3>2, <3>3 DEF IntentInv
  <2>7. CASE selecting.ours /\ queued # Nothing
    <3>1. selecting' = [index |-> queued, ours |-> TRUE] /\ Signer!Call("select", queued) /\ queued \in Indexes
      BY <1>1, <1>16, <2>7 DEF Signer!Selected, Signer!SelectCall, SignerTypes
    <3>2. selecting' # Nothing /\ selecting'.index = queued
      <4>1. selecting' \in [index : Indexes, ours : BOOLEAN] /\ selecting'.index = queued
        BY <3>1
      <4> QED
        BY <4>1 DEF SignerAssumption
    <3>3. /\ Gains(storeCalls, storeCalls', "select")
          /\ \A m : In(storeCalls', m) <=> In(storeCalls, m) \/ m = [op |-> "select", index |-> queued]
      BY <1>1, <3>1, Made
    <3>4. AskedInv'
      BY <2>2, <2>4, <3>2, <3>3, NothingAsked DEF AskedInv
    <3>5. WantedInv'
      BY <1>1, <2>2, <2>4, <2>7, <3>2, Facts DEF WantedInv, Intent
    <3> QED
      BY <3>4, <3>5 DEF IntentInv
  <2> QED
    BY <2>5, <2>6, <2>7
<1>17. CASE Signer!SelectFailed
  <2>1. Loses(replies, replies', "selectFailed")
    BY <1>1, <1>17, Arrived DEF Signer!SelectFailed
  <2>2. /\ Has(replies, {"selectFailed"}) /\ ~Has(replies', Choices) /\ ~Has(storeCalls, {"select"})
    BY <1>1, <2>1 DEF ChoiceInv, Choices, Loses
  <2>3. selecting' = Nothing /\ queued' = Nothing /\ UNCHANGED <<wallet, shell, storeCalls>>
    BY <1>17 DEF Signer!SelectFailed, Signer!backend
  <2>4. ~(shell # 0 /\ wallet # 0)
    BY <1>1, <2>2 DEF WantedInv
  <2> QED
    BY <2>2, <2>3, <2>4, NothingAsked DEF IntentInv, AskedInv, WantedInv
<1>18. CASE Signer!Tick \/ Signer!PageLoad \/ \E l \in Signer!Loads : Signer!LoadRuns(l) \/ Signer!Loaded(l)
  BY <1>3, <1>18 DEF Signer!Tick, Signer!PageLoad, Signer!LoadRuns, Signer!Loaded, Signer!backend, Signer!store
<1>19. CASE UNCHANGED Signer!vars
  BY <1>3, <1>19 DEF Signer!vars, Signer!backend, Signer!store
<1> QED
  BY <1>5, <1>6, <1>7, <1>8, <1>9, <1>10, <1>11, <1>12, <1>13, <1>14, <1>15, <1>16, <1>17, <1>18, <1>19
  DEF Signer!Next, Signer!Store, Signer!Backend

\* With every call answered, the account on show is the last one the user asked
\* for, if no selection fails (wallet.ts select: last intent wins).
THEOREM LastIntentShown ==
  ASSUME SignerAssumption, ~SelectFails PROVE Signer!Spec => []Signer!LastIntentWins
<1>1. Signer!Init => IntentInv
  <2> SUFFICES ASSUME Signer!Init PROVE IntentInv
    OBVIOUS
  <2>1. /\ selecting = Nothing /\ queued = Nothing /\ shell = 0
        /\ ~Has(storeCalls, {"select"}) /\ ~Has(replies, Choices)
    BY DEF Signer!Init, Has
  <2> QED
    BY <2>1, NothingAsked DEF IntentInv, AskedInv, WantedInv
<1>2. SignerInv /\ SignerInv' /\ IntentInv /\ [Signer!Next]_Signer!vars => IntentInv'
  BY IntentStep
<1>3. SignerInv /\ IntentInv => Signer!LastIntentWins
  <2> SUFFICES ASSUME SignerInv, IntentInv, storeCalls = <<>>, replies = <<>>, shell # 0
               PROVE  activeIndex = wanted
    BY DEF Signer!LastIntentWins, Signer!Settled
  <2>1. \A ops : ~Has(replies, ops) /\ ~Has(storeCalls, ops)
    BY DEF Has
  <2>2. wallet # 0
    BY <2>1 DEF SignerInv, LockInv, OpeningInv
  <2> QED
    BY <2>1, <2>2 DEF IntentInv, AskedInv, WantedInv, Intent
<1> QED
  BY <1>1, <1>2, <1>3, SignerInvariant, PTL DEF Signer!Spec

-----------------------------------------------------------------------------
(* What the loads bring.                                                   *)

LoadTypes == [pc : {"idle", "called", "ran"}, current : BOOLEAN, of : {Signer!Blank} \cup (Nat \X Indexes)]

\* A load whose answer will be shown read the account that signs, or the one
\* that is shown; behind a locked store, nothing.
LoadsInv ==
  \A l \in Signer!Loads : loads[l].pc = "ran" /\ loads[l].current =>
    /\ loads[l].of \in {Signer!Blank, <<unlocks, index>>, <<unlocks, activeIndex>>}
    /\ locked /\ ~Has(replies, {"unlocked"}) => loads[l].of = Signer!Blank

DataInv ==
  /\ loads \in [Signer!Loads -> LoadTypes] /\ index \in Indexes /\ wallet \in {0, unlocks}
  /\ shell = 0 => activeIndex = 0
  /\ LoadsInv

\* A load that begins or ends is none that has run.
LEMMA LoadsBegin ==
  ASSUME NEW now \in [Signer!Loads -> LoadTypes], NEW c \in {Signer!Called, Signer!Off}, NEW s
  PROVE  LET then == [now EXCEPT ![s] = c] IN
         /\ then \in [Signer!Loads -> LoadTypes]
         /\ \A l \in Signer!Loads : then[l].pc = "ran" /\ then[l].current => then[l] = now[l]
<1>1. c \in LoadTypes /\ c.pc # "ran"
  <2>1. Signer!Called \in LoadTypes /\ Signer!Called.pc # "ran"
    BY DEF Signer!Called, LoadTypes
  <2>2. Signer!Off \in LoadTypes /\ Signer!Off.pc # "ran"
    BY DEF Signer!Off, LoadTypes
  <2> QED
    BY <2>1, <2>2
<1>2. [now EXCEPT ![s] = c] \in [Signer!Loads -> LoadTypes]
  BY <1>1
<1>3. \A l \in Signer!Loads : [now EXCEPT ![s] = c][l] \in {now[l], c}
  OBVIOUS
<1> QED
  BY <1>1, <1>2, <1>3

\* A new epoch leaves none whose answer will be shown.
LEMMA LoadsBumped ==
  ASSUME loads \in [Signer!Loads -> LoadTypes]
  PROVE  /\ Signer!Bump \in [Signer!Loads -> LoadTypes]
         /\ \A l \in Signer!Loads : ~Signer!Bump[l].current
<1>1. \A l \in Signer!Loads : /\ [loads[l] EXCEPT !.current = FALSE] \in LoadTypes
                              /\ ~[loads[l] EXCEPT !.current = FALSE].current
  BY DEF LoadTypes
<1> QED
  BY <1>1 DEF Signer!Bump

\* A refresh begins a load, or asks the one that runs to run again.
LEMMA LoadsRefreshed ==
  ASSUME NEW now \in [Signer!Loads -> LoadTypes], NEW s, Signer!Refresh(s, now)
  PROVE  /\ loads' \in [Signer!Loads -> LoadTypes]
         /\ \A l \in Signer!Loads : loads'[l].pc = "ran" /\ loads'[l].current => loads'[l] = now[l]
<1>1. CASE loads' = now
  BY <1>1
<1>2. CASE loads' = [now EXCEPT ![s] = Signer!Called]
  BY <1>2, LoadsBegin
<1> QED
  BY <1>1, <1>2 DEF Signer!Refresh

\* Every account a load read, of which the answer will be shown, is one the
\* store shows or the backend signs with.
LEMMA DataStep ==
  ASSUME SignerAssumption, SignerInv, DataInv, [Signer!Next]_Signer!vars PROVE DataInv'
<1>1. /\ SignerTypes /\ 0 \in Indexes /\ LockInv /\ OpeningInv /\ ChoiceInv /\ ShownInv
      /\ loads \in [Signer!Loads -> LoadTypes] /\ index \in Indexes /\ wallet \in {0, unlocks}
      /\ (shell = 0 => activeIndex = 0) /\ LoadsInv /\ unlocks \in Nat
  BY DEF SignerInv, SignerAssumption, Signer!IndexesAssumption, DataInv, SignerTypes
<1>2. ASSUME UNCHANGED <<loads, index, unlocks, activeIndex, shell>>, wallet' \in {0, wallet},
             locked' /\ ~Has(replies', {"unlocked"}) => locked /\ ~Has(replies, {"unlocked"})
      PROVE  DataInv'
  BY <1>1, <1>2 DEF DataInv, LoadsInv
<1>3. ASSUME UNCHANGED <<index, unlocks, wallet>>, loads' \in [Signer!Loads -> LoadTypes],
             \A l \in Signer!Loads : ~(loads'[l].pc = "ran" /\ loads'[l].current),
             shell' = 0 => activeIndex' = 0
      PROVE  DataInv'
  BY <1>1, <1>3 DEF DataInv, LoadsInv
<1>4. ASSUME UNCHANGED <<index, unlocks, wallet, locked, replies, shell, activeIndex>>,
             loads' \in [Signer!Loads -> LoadTypes],
             \A l \in Signer!Loads : loads'[l].pc = "ran" /\ loads'[l].current => loads'[l] = loads[l]
      PROVE  DataInv'
  BY <1>1, <1>4 DEF DataInv, LoadsInv
<1>5. CASE Signer!Unlock
  <2>1. Has(storeCalls, {"unlock"})
    BY <1>1, <1>5, Ran DEF Signer!Unlock, LosesFirst, Loses
  <2>2. locked /\ ~Has(replies, {"unlocked"})
    BY <1>1, <2>1, Facts DEF OpeningInv
  <2>3. /\ wallet' = unlocks' /\ index' = 0 /\ unlocks' = unlocks + 1
        /\ UNCHANGED <<loads, shell, activeIndex, locked>>
    BY <1>5 DEF Signer!Unlock, Signer!store, Signer!data
  <2> QED
    BY <1>1, <2>2, <2>3 DEF DataInv, LoadsInv
<1>6. CASE Signer!CurrentAccounts
  <2>1. Gains(replies, replies', "accounts")
    BY <1>1, <1>6, Replied DEF Signer!CurrentAccounts
  <2> QED
    BY <1>2, <1>6, <2>1 DEF Signer!CurrentAccounts, Signer!store, Signer!backend, Signer!data, Gains
<1>7. CASE Signer!Lock
  <2> DEFINE told == Append(replies, [op |-> "locked", index |-> 0])
  <2>1. replies \in Seq(Replies) /\ replies' = Append(told, [op |-> "lockDone", index |-> 0])
    BY <1>1, <1>7 DEF Signer!Lock, SignerTypes
  <2>2. told \in Seq(Replies) /\ Gains(replies, told, "locked")
    BY <1>1, <2>1, Sent
  <2> HIDE DEF told
  <2>3. Gains(told, replies', "lockDone")
    BY <1>1, <2>1, <2>2, Sent
  <2> QED
    BY <1>2, <1>7, <2>2, <2>3 DEF Signer!Lock, Signer!store, Signer!data, Gains
<1>8. CASE Signer!AutoLock
  <2>1. Gains(replies, replies', "locked")
    BY <1>1, <1>8, Replied DEF Signer!AutoLock
  <2> QED
    BY <1>2, <1>8, <2>1 DEF Signer!AutoLock, Signer!store, Signer!data, Gains
<1>9. CASE Signer!SelectAccount
  <2>1. Has(storeCalls, {"select"}) /\ Head(storeCalls) \in Calls
    BY <1>1, <1>9, Ran DEF Signer!SelectAccount, LosesFirst, Loses
  <2>2. UNCHANGED <<wallet, unlocks, loads, locked, activeIndex, shell>>
    BY <1>9 DEF Signer!SelectAccount, Signer!store, Signer!data
  <2>3. CASE wallet # 0 /\ index' = Head(storeCalls).index /\ Signer!Reply("selected", index')
    <3>1. ~Has(replies, Choices) /\ ~Has(replies, {"unlocked"})
      BY <1>1, <2>1 DEF ChoiceInv
    <3>2. ~locked /\ shell # 0
      BY <1>1, <2>1, <2>3, <3>1 DEF LockInv, ChoiceInv
    <3>3. activeIndex = index
      BY <1>1, <2>3, <3>1, <3>2, Facts DEF ShownInv
    <3>4. index' \in Indexes
      BY <2>1, <2>3 DEF Calls
    <3> QED
      BY <1>1, <2>2, <3>2, <3>3, <3>4 DEF DataInv, LoadsInv
  <2>4. CASE UNCHANGED index /\ Signer!Reply("selectFailed", 0)
    <3>1. Gains(replies, replies', "selectFailed")
      BY <1>1, <2>4, Replied
    <3> QED
      BY <1>2, <2>2, <2>4, <3>1 DEF Gains
  <2> QED
    BY <1>9, <2>3, <2>4 DEF Signer!SelectAccount
<1>10. CASE Signer!UserUnlocks \/ Signer!UserLocks \/ \E i \in Indexes : Signer!Select(i)
  BY <1>2, <1>10 DEF Signer!UserUnlocks, Signer!UserLocks, Signer!Select, Signer!store, Signer!backend, Signer!data
<1>11. CASE Signer!Unlocked
  <2>1. loads' = Signer!Bump /\ UNCHANGED <<index, unlocks, wallet, shell, activeIndex>>
    BY <1>11 DEF Signer!Unlocked, Signer!NewSession, Signer!backend
  <2> QED
    BY <1>1, <1>3, <2>1, LoadsBumped
<1>12. CASE Signer!AccountsLoaded
  <2>1. Loses(replies, replies', "accounts") /\ Has(replies, {"accounts"})
    BY <1>1, <1>12, Arrived DEF Signer!AccountsLoaded, Loses
  <2>2. index = 0 /\ activeIndex = 0 /\ activeIndex' = 0 /\ UNCHANGED <<index, unlocks, wallet, locked>>
    BY <1>1, <1>12, <2>1, Facts DEF OpeningInv, Signer!AccountsLoaded, Signer!backend
  <2>3. CASE locked
    BY <1>2, <1>12, <2>1, <2>2, <2>3 DEF Signer!AccountsLoaded, Loses
  <2>4. CASE ~locked
    <3>1. /\ loads' \in [Signer!Loads -> LoadTypes]
          /\ \A l \in Signer!Loads : loads'[l].pc = "ran" /\ loads'[l].current => loads'[l] = loads[l]
      BY <1>1, <1>12, <2>4, LoadsRefreshed DEF Signer!AccountsLoaded
    <3> QED
      BY <1>1, <2>2, <2>4, <3>1 DEF DataInv, LoadsInv
  <2> QED
    BY <1>1, <2>3, <2>4 DEF SignerTypes
<1>13. CASE Signer!LockedEvent \/ Signer!LockDone
  <2>1. Has(replies', {"unlocked"}) <=> Has(replies, {"unlocked"})
    BY <1>1, <1>13, Arrived DEF Signer!LockedEvent, Signer!LockDone, Loses
  <2>2. UNCHANGED <<wallet, index, unlocks>>
    BY <1>13 DEF Signer!LockedEvent, Signer!LockDone, Signer!backend
  <2>3. CASE locked /\ UNCHANGED <<locked, loads, shell, activeIndex>>
    BY <1>2, <2>1, <2>2, <2>3
  <2>4. CASE Signer!ApplyLocked
    BY <1>1, <1>3, <2>2, <2>4, LoadsBumped DEF Signer!ApplyLocked, Signer!NewSession
  <2> QED
    BY <1>13, <2>3, <2>4 DEF Signer!LockedEvent, Signer!LockDone, Signer!store, Signer!data
<1>14. ASSUME NEW i \in Indexes, Signer!Selected(i) PROVE DataInv'
  <2>1. Loses(replies, replies', "selected") /\ UNCHANGED <<wallet, index, unlocks, locked, shell>>
    BY <1>1, <1>14, Arrived DEF Signer!Selected, Signer!backend
  <2>2. Has(replies, Choices)
    BY <2>1 DEF Loses, Choices
  <2>3. CASE selecting.ours /\ Signer!ShowSelected(i)
    <3>1. shell # 0
      BY <1>1, <2>2, <2>3 DEF ChoiceInv
    <3>2. Signer!Refresh(shell, Signer!Bump) \/ loads' = Signer!Bump
      BY <2>3 DEF Signer!ShowSelected
    <3>3. /\ loads' \in [Signer!Loads -> LoadTypes]
          /\ \A l \in Signer!Loads : ~(loads'[l].pc = "ran" /\ loads'[l].current)
      BY <1>1, <3>2, LoadsBumped, LoadsRefreshed
    <3> QED
      BY <1>3, <2>1, <3>1, <3>3
  <2>4. CASE UNCHANGED <<activeIndex, loads>>
    BY <1>2, <2>1, <2>4 DEF Loses
  <2> QED
    BY <1>14, <2>3, <2>4 DEF Signer!Selected
<1>15. CASE Signer!SelectFailed
  <2>1. Loses(replies, replies', "selectFailed")
    BY <1>1, <1>15, Arrived DEF Signer!SelectFailed
  <2> QED
    BY <1>2, <1>15, <2>1 DEF Signer!SelectFailed, Signer!backend, Signer!data, Loses
<1>16. CASE Signer!Tick \/ Signer!PageLoad
  <2>1. Signer!Refresh(shell, loads) \/ loads' = [loads EXCEPT ![0] = Signer!Called]
    BY <1>16 DEF Signer!Tick, Signer!PageLoad
  <2>2. /\ loads' \in [Signer!Loads -> LoadTypes]
        /\ \A l \in Signer!Loads : loads'[l].pc = "ran" /\ loads'[l].current => loads'[l] = loads[l]
    BY <1>1, <2>1, LoadsRefreshed, LoadsBegin
  <2> QED
    BY <1>4, <1>16, <2>2 DEF Signer!Tick, Signer!PageLoad, Signer!backend, Signer!store
<1>17. ASSUME NEW l \in Signer!Loads, Signer!LoadRuns(l) PROVE DataInv'
  <2>1. PICK of \in (IF wallet = 0 THEN {} ELSE {<<wallet, index>>})
                    \cup (IF wallet = 0 \/ LoadFails THEN {Signer!Blank} ELSE {}) :
          loads' = [loads EXCEPT ![l].pc = "ran", ![l].of = of]
    BY <1>17 DEF Signer!LoadRuns
  <2>2. of \in {Signer!Blank, <<unlocks, index>>} /\ (wallet = 0 => of = Signer!Blank)
    BY <1>1, <2>1
  <2>3. of \in {Signer!Blank} \cup (Nat \X Indexes)
    BY <1>1, <2>2
  <2>4. /\ loads' \in [Signer!Loads -> LoadTypes] /\ loads'[l].of = of
        /\ \A m \in Signer!Loads : m # l => loads'[m] = loads[m]
    BY <1>1, <2>1, <2>3 DEF LoadTypes
  <2>5. UNCHANGED <<wallet, index, unlocks, locked, activeIndex, shell, replies>>
    BY <1>17 DEF Signer!LoadRuns, Signer!backend, Signer!store
  <2>6. locked /\ ~Has(replies, {"unlocked"}) => of = Signer!Blank
    BY <1>1, <2>2 DEF LockInv
  <2> QED
    BY <1>1, <2>2, <2>4, <2>5, <2>6 DEF DataInv, LoadsInv
<1>18. ASSUME NEW l \in Signer!Loads, Signer!Loaded(l) PROVE DataInv'
  <2>1. \/ loads' = [loads EXCEPT ![l] = Signer!Called]
        \/ loads' = [loads EXCEPT ![l] = Signer!Ended(loads[l])]
    BY <1>18 DEF Signer!Loaded, Signer!EndLoad
  <2>2. /\ loads' \in [Signer!Loads -> LoadTypes]
        /\ \A m \in Signer!Loads : loads'[m].pc = "ran" /\ loads'[m].current => loads'[m] = loads[m]
    <3>1. CASE loads' = [loads EXCEPT ![l] = Signer!Called]
      BY <1>1, <3>1, LoadsBegin
    <3>2. CASE loads' = [loads EXCEPT ![l] = Signer!Ended(loads[l])]
      <4>1. loads \in [Signer!Loads -> LoadTypes] /\ Signer!Blank \in {Signer!Blank} \cup (Nat \X Indexes)
        BY <1>1
      <4>2. Signer!Ended(loads[l]) \in LoadTypes /\ Signer!Ended(loads[l]).pc # "ran"
        BY <4>1 DEF Signer!Ended, LoadTypes
      <4> QED
        BY <3>2, <4>1, <4>2
    <3> QED
      BY <2>1, <3>1, <3>2
  <2> QED
    BY <1>4, <1>18, <2>2 DEF Signer!Loaded, Signer!backend, Signer!store
<1>19. CASE UNCHANGED Signer!vars
  BY <1>2, <1>19 DEF Signer!vars, Signer!backend, Signer!store, Signer!data
<1> QED
  BY <1>5, <1>6, <1>7, <1>8, <1>9, <1>10, <1>11, <1>12, <1>13, <1>14, <1>15, <1>16, <1>17, <1>18, <1>19
  DEF Signer!Next, Signer!Store, Signer!Backend

\* Only the answer of a load changes what is on the screen.
LEMMA ScreenStep ==
  ASSUME DataInv, [Signer!Next]_Signer!vars PROVE [Signer!NoOldDataStep]_Signer!vars
<1>1. CASE UNCHANGED screen
  BY <1>1 DEF Signer!NoOldDataStep
<1>2. CASE Signer!Store
  BY <1>1, <1>2
  DEF Signer!Store, Signer!Unlocked, Signer!AccountsLoaded, Signer!LockedEvent, Signer!LockDone, Signer!SelectFailed,
      Signer!Selected, Signer!ApplyLocked, Signer!data
<1>3. CASE Signer!Backend \/ Signer!AutoLock
  BY <1>1, <1>3
  DEF Signer!Backend, Signer!Unlock, Signer!CurrentAccounts, Signer!Lock, Signer!SelectAccount, Signer!AutoLock, Signer!data
<1>4. CASE Signer!UserUnlocks \/ Signer!UserLocks \/ \E i \in Indexes : Signer!Select(i)
  BY <1>1, <1>4 DEF Signer!UserUnlocks, Signer!UserLocks, Signer!Select, Signer!data
<1>5. CASE Signer!Tick \/ Signer!PageLoad \/ \E l \in Signer!Loads : Signer!LoadRuns(l)
  BY <1>1, <1>5 DEF Signer!Tick, Signer!PageLoad, Signer!LoadRuns
<1>6. ASSUME NEW l \in Signer!Loads, Signer!Loaded(l) PROVE Signer!NoOldDataStep
  BY <1>6 DEF Signer!Loaded, Signer!NoOldDataStep, DataInv, LoadsInv
<1>7. CASE UNCHANGED Signer!vars
  BY <1>1, <1>7 DEF Signer!vars, Signer!data
<1> QED
  BY <1>2, <1>3, <1>4, <1>5, <1>6, <1>7 DEF Signer!Next

\* No answer puts the data of another account or of an earlier wallet on the
\* screen, however the loads, the selections and the sessions overlap
\* (requestEpoch.ts).
THEOREM NoDataOfAnother == ASSUME SignerAssumption PROVE Signer!Spec => Signer!NoOldData
<1>1. Signer!Init => DataInv
  <2> SUFFICES ASSUME Signer!Init PROVE DataInv
    OBVIOUS
  <2>1. Signer!Off \in LoadTypes /\ Signer!Off.pc = "idle"
    BY DEF Signer!Off, LoadTypes
  <2> QED
    BY <2>1 DEF Signer!Init, DataInv, LoadsInv, SignerAssumption, Signer!IndexesAssumption
<1>2. SignerInv /\ DataInv /\ [Signer!Next]_Signer!vars => DataInv' /\ [Signer!NoOldDataStep]_Signer!vars
  BY DataStep, ScreenStep
<1> QED
  BY <1>1, <1>2, SignerInvariant, PTL DEF Signer!Spec, Signer!NoOldData
=============================================================================
