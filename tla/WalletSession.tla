---------------------------- MODULE WalletSession ----------------------------
(***************************************************************************)
(* WalletService's unlocked session (app/wallet_service.go): unlock, lock, *)
(* account selection, the inactivity watchdog, revealing the mnemonic, and *)
(* the settings they write, called concurrently.                           *)
(*                                                                         *)
(* selMu is a record: the one operation that holds it and how far it is.   *)
(* A call waiting for selMu has changed nothing yet and is not a state,    *)
(* unless it waits with something in hand: a decrypted keystore, or a      *)
(* watchdog's decision to lock.  Each watchdog is named by the generation  *)
(* its unlock installed; its stop channel is open iff autoLockStop is it.  *)
(***************************************************************************)
EXTENDS Integers, FiniteSets

CONSTANTS
  Wallets, NoWallet,
  Callers,                      \* concurrent calls that wait outside selMu
  AccountRange, MaxAccounts,    \* accounts revealed at first, and at most
  Presets,                      \* auto-lock minutes the user chooses, 0: never
  DefaultMinutes,
  KdfMaxConcurrent,
  DiskMayFail,                  \* whether settings.json may be unreadable or unwritable
  MaxCalls,                     \* bound on the calls
  MaxIdle                       \* bound on the clock of inactivity

SessionAssumption ==
  /\ NoWallet \notin Wallets /\ IsFiniteSet(Callers)
  /\ {AccountRange, MaxAccounts, KdfMaxConcurrent} \subseteq Nat \ {0}
  /\ AccountRange <= MaxAccounts
  /\ Presets \subseteq Nat /\ DefaultMinutes \in Presets
  /\ DiskMayFail \in BOOLEAN
  /\ {MaxCalls, MaxIdle} \subseteq Nat

VARIABLES
  session,        \* the unlocked wallet (keystore, activeWallet) and account index
  gen,
  selMu,          \* the holder's next step and its local, or NotHeld
  settings,       \* active account, account counts, auto-lock minutes, on disk
  autoLockMins, autoLockStop,
  idle,           \* minutes since lastActivity
  watchdog,       \* progress of the watchdog each generation started
  kdf,            \* callers in a derivation slot
  call,           \* progress of each call outside selMu
  calls,          \* calls so far
  hold,           \* the generation TxService's held block was prepared under, 0: none
  revealed        \* the wallet of the last mnemonic shown, and the one it was asked for

sessionVars == <<session, gen>>
autoLock == <<autoLockMins, autoLockStop, idle, watchdog>>
derivations == <<kdf, call>>
vars == <<sessionVars, selMu, settings, autoLock, derivations, calls, hold, revealed>>

MaxGen == 2 * MaxCalls
Gens == 1..MaxGen

Locked == [wallet |-> NoWallet, active |-> 0]
Unlocked == session.wallet # NoWallet
NotHeld == [at |-> "free", arg |-> 0]
Idle == [pc |-> "idle", wallet |-> NoWallet, gen |-> 0, arg |-> 0]
NoReveal == [asked |-> NoWallet, shown |-> NoWallet]

Init ==
  /\ session = Locked /\ gen = 0
  /\ selMu = NotHeld
  /\ settings = [active |-> 0, counts |-> [w \in Wallets |-> AccountRange],
                 minutes |-> DefaultMinutes]
  /\ autoLockMins = 0 /\ autoLockStop = 0 /\ idle = 0
  /\ watchdog = [g \in Gens |-> "none"]
  /\ kdf = {} /\ call = [c \in Callers |-> Idle]
  /\ calls = 0 /\ hold = 0 /\ revealed = NoReveal

-----------------------------------------------------------------------------
Called == calls < MaxCalls /\ calls' = calls + 1

Begin(c, pc, w, arg) ==
  /\ call[c] = Idle /\ Called
  /\ call' = [call EXCEPT ![c] = [pc |-> pc, wallet |-> w, gen |-> gen, arg |-> arg]]

Return(c) == call' = [call EXCEPT ![c] = Idle]
Goto(c, pc) == call' = [call EXCEPT ![c].pc = pc]

TakeSelMu(at, arg) == selMu = NotHeld /\ selMu' = [at |-> at, arg |-> arg]
Step(from, to) == selMu.at = from /\ selMu' = [selMu EXCEPT !.at = to]
Release(from) == selMu.at = from /\ selMu' = NotHeld

\* updateSettings: the new settings, or an error and the old ones.
WriteSettings(new) ==
  \/ settings' = new
  \/ DiskMayFail /\ UNCHANGED settings

-----------------------------------------------------------------------------
(* Key derivations run outside every lock, in one of a few slots.          *)

Unlock(c, w) ==
  /\ Begin(c, "unlock", w, 0)
  /\ UNCHANGED <<sessionVars, selMu, settings, autoLock, kdf, hold, revealed>>

RevealMnemonic(c) ==
  /\ Unlocked
  /\ Begin(c, "reveal", session.wallet, 0)
  /\ UNCHANGED <<sessionVars, selMu, settings, autoLock, kdf, hold, revealed>>

EnterKDF(c) ==
  /\ call[c].pc \in {"unlock", "reveal"} /\ c \notin kdf
  /\ Cardinality(kdf) < KdfMaxConcurrent
  /\ kdf' = kdf \cup {c}
  /\ UNCHANGED <<sessionVars, selMu, settings, autoLock, call, calls, hold, revealed>>

\* A wrong password returns without releasing the slot.
LeaveKDFKeepsSlot(c) ==
  /\ c \in kdf /\ call[c].pc \in {"unlock", "reveal"}
  /\ \/ Return(c) /\ UNCHANGED kdf
     \/ /\ Goto(c, IF call[c].pc = "unlock" THEN "swap" ELSE "recheck")
        /\ kdf' = kdf \ {c}
  /\ UNCHANGED <<sessionVars, selMu, settings, autoLock, calls, hold, revealed>>

\* The password is wrong, or the keystore is decrypted.
LeaveKDF(c) ==
  /\ c \in kdf
  /\ kdf' = kdf \ {c}
  /\ \/ Return(c)
     \/ Goto(c, IF call[c].pc = "unlock" THEN "swap" ELSE "recheck")
  /\ UNCHANGED <<sessionVars, selMu, settings, autoLock, calls, hold, revealed>>

\* Only the lock is checked again after the derivation.
ShowIfUnlocked(c) ==
  /\ call[c].pc = "recheck"
  /\ revealed' = IF Unlocked THEN [asked |-> call[c].wallet, shown |-> session.wallet]
                 ELSE revealed
  /\ Return(c)
  /\ UNCHANGED <<sessionVars, selMu, settings, autoLock, kdf, calls, hold>>

\* Nothing is shown if the session changed during the derivation; what is
\* shown is the current keystore's mnemonic.
ShowMnemonic(c) ==
  /\ call[c].pc = "recheck"
  /\ revealed' = IF Unlocked /\ gen = call[c].gen
                 THEN [asked |-> call[c].wallet, shown |-> session.wallet]
                 ELSE revealed
  /\ Return(c)
  /\ UNCHANGED <<sessionVars, selMu, settings, autoLock, kdf, calls, hold>>

-----------------------------------------------------------------------------
(* Unlock's swap, under selMu, over whatever was unlocked.                 *)

SwapSession(c) ==
  /\ call[c].pc = "swap"
  /\ TakeSelMu("minutes", 0)
  /\ session' = [wallet |-> call[c].wallet, active |-> 0]
  /\ gen' = gen + 1
  /\ Return(c)
  /\ UNCHANGED <<settings, autoLock, kdf, calls, hold, revealed>>

ReadMinutes ==
  /\ selMu.at = "minutes"
  /\ \E m \in {settings.minutes} \cup (IF DiskMayFail THEN {DefaultMinutes} ELSE {}) :
       selMu' = [at |-> "watch", arg |-> m]
  /\ UNCHANGED <<sessionVars, settings, autoLock, derivations, calls, hold, revealed>>

\* A watchdog that runs is kept for the new session.
StartUnlessRunning ==
  /\ Release("watch")
  /\ autoLockMins' = selMu.arg /\ idle' = 0
  /\ IF autoLockStop # 0 THEN UNCHANGED <<autoLockStop, watchdog>>
     ELSE autoLockStop' = gen /\ watchdog' = [watchdog EXCEPT ![gen] = "watch"]
  /\ UNCHANGED <<sessionVars, settings, derivations, calls, hold, revealed>>

StartAutoLock ==
  /\ Release("watch")
  /\ autoLockStop' = gen /\ autoLockMins' = selMu.arg /\ idle' = 0
  /\ watchdog' = [watchdog EXCEPT ![gen] = "watch"]
  /\ UNCHANGED <<sessionVars, settings, derivations, calls, hold, revealed>>

-----------------------------------------------------------------------------
(* Lock, by the user or by a watchdog.                                     *)

EndSession ==
  /\ TakeSelMu("unwatch", 0)
  /\ session' = Locked /\ gen' = gen + 1

Lock ==
  /\ Called /\ EndSession
  /\ UNCHANGED <<settings, autoLock, derivations, hold, revealed>>

StopAutoLock ==
  /\ Step("unwatch", "callback")
  /\ autoLockStop' = 0
  /\ UNCHANGED <<sessionVars, settings, autoLockMins, idle, watchdog, derivations, calls, hold,
                 revealed>>

\* onSessionChange is TxService.clearPending.
SessionChanged ==
  /\ Release("callback")
  /\ hold' = 0
  /\ UNCHANGED <<sessionVars, settings, autoLock, derivations, calls, revealed>>

-----------------------------------------------------------------------------
(* The watchdog.                                                           *)

Minute ==
  /\ idle < MaxIdle /\ idle' = idle + 1
  /\ UNCHANGED <<sessionVars, selMu, settings, autoLockMins, autoLockStop, watchdog, derivations,
                 calls, hold, revealed>>

NoteActivity ==
  /\ Unlocked /\ idle' = 0
  /\ UNCHANGED <<sessionVars, selMu, settings, autoLockMins, autoLockStop, watchdog, derivations,
                 calls, hold, revealed>>

Expired == autoLockMins > 0 /\ idle > autoLockMins

WatchdogExpires(g) ==
  /\ watchdog[g] = "watch" /\ Expired
  /\ watchdog' = [watchdog EXCEPT ![g] = "expired"]
  /\ UNCHANGED <<sessionVars, selMu, settings, autoLockMins, autoLockStop, idle, derivations,
                 calls, hold, revealed>>

WatchdogStops(g) ==
  /\ watchdog[g] = "watch" /\ autoLockStop # g
  /\ watchdog' = [watchdog EXCEPT ![g] = "none"]
  /\ UNCHANGED <<sessionVars, selMu, settings, autoLockMins, autoLockStop, idle, derivations,
                 calls, hold, revealed>>

\* The watchdog leaves a lock that is busy to the next tick, which never comes.
WatchdogGivesUp(g) ==
  /\ watchdog[g] = "expired"
  /\ IF selMu = NotHeld THEN EndSession ELSE UNCHANGED <<selMu, sessionVars>>
  /\ watchdog' = [watchdog EXCEPT ![g] = "none"]
  /\ UNCHANGED <<settings, autoLockMins, autoLockStop, idle, derivations, calls, hold, revealed>>

WatchdogLocks(g) ==
  /\ watchdog[g] = "expired"
  /\ EndSession
  /\ watchdog' = [watchdog EXCEPT ![g] = "none"]
  /\ UNCHANGED <<settings, autoLockMins, autoLockStop, idle, derivations, calls, hold, revealed>>

SetAutoLockMinutes(c, m) ==
  /\ Begin(c, "minutes", NoWallet, m)
  /\ autoLockMins' = m
  /\ UNCHANGED <<sessionVars, selMu, settings, autoLockStop, idle, watchdog, kdf, hold, revealed>>

\* The live value stands whether or not it could be written.
PersistMinutes(c) ==
  /\ call[c].pc = "minutes"
  /\ WriteSettings([settings EXCEPT !.minutes = call[c].arg])
  /\ Return(c)
  /\ UNCHANGED <<sessionVars, selMu, autoLock, kdf, calls, hold, revealed>>

-----------------------------------------------------------------------------
(* Accounts.                                                               *)

SelectAccount(i) ==
  /\ Called
  /\ Unlocked /\ i < settings.counts[session.wallet]
  /\ TakeSelMu("persist", i)
  /\ UNCHANGED <<sessionVars, settings, autoLock, derivations, hold, revealed>>

\* A failed write does not end the call.
PersistBestEffort ==
  /\ Step("persist", "select")
  /\ WriteSettings([settings EXCEPT !.active = selMu.arg])
  /\ UNCHANGED <<sessionVars, autoLock, derivations, calls, hold, revealed>>

\* The choice is written before it takes effect; a failed write ends the call.
PersistSelection ==
  /\ \/ /\ Step("persist", "select")
        /\ settings' = [settings EXCEPT !.active = selMu.arg]
     \/ DiskMayFail /\ Release("persist") /\ UNCHANGED settings
  /\ UNCHANGED <<sessionVars, autoLock, derivations, calls, hold, revealed>>

\* A switch of account is no change of session.
SelectOnly ==
  /\ session' = [session EXCEPT !.active = selMu.arg]
  /\ Release("select") /\ UNCHANGED gen
  /\ UNCHANGED <<settings, autoLock, derivations, calls, hold, revealed>>

ApplySelection ==
  /\ session' = [session EXCEPT !.active = selMu.arg]
  /\ IF session.active = selMu.arg
     THEN Release("select") /\ UNCHANGED gen
     ELSE Step("select", "callback") /\ gen' = gen + 1
  /\ UNCHANGED <<settings, autoLock, derivations, calls, hold, revealed>>

AddAccount(c) ==
  /\ Unlocked
  /\ Begin(c, "add", session.wallet, 0)
  /\ UNCHANGED <<sessionVars, selMu, settings, autoLock, kdf, hold, revealed>>

\* The limit was checked when the call began.
RevealUnchecked(c) ==
  /\ call[c].pc = "add"
  /\ WriteSettings([settings EXCEPT !.counts[call[c].wallet] = @ + 1])
  /\ Return(c)
  /\ UNCHANGED <<sessionVars, selMu, autoLock, kdf, calls, hold, revealed>>

\* The count of the wallet that was active when the call began.
RevealOneMore(c) ==
  /\ call[c].pc = "add"
  /\ LET n == settings.counts[call[c].wallet] IN
       IF n < MaxAccounts
       THEN WriteSettings([settings EXCEPT !.counts[call[c].wallet] = n + 1])
       ELSE UNCHANGED settings
  /\ Return(c)
  /\ UNCHANGED <<sessionVars, selMu, autoLock, kdf, calls, hold, revealed>>

-----------------------------------------------------------------------------
\* TxService holds a block prepared under the current generation.
HoldPending ==
  /\ Unlocked /\ hold = 0 /\ Called
  /\ hold' = gen
  /\ UNCHANGED <<sessionVars, selMu, settings, autoLock, derivations, revealed>>

Call(c) ==
  \/ \E w \in Wallets : Unlock(c, w)
  \/ \E m \in Presets : SetAutoLockMinutes(c, m)
  \/ RevealMnemonic(c) \/ AddAccount(c)

Finish(c) ==
  \/ EnterKDF(c) \/ LeaveKDF(c) \/ ShowMnemonic(c) \/ SwapSession(c)
  \/ PersistMinutes(c) \/ RevealOneMore(c)

Holder ==
  \/ ReadMinutes \/ StartAutoLock \/ StopAutoLock \/ SessionChanged
  \/ PersistSelection \/ ApplySelection

Watchdog(g) == WatchdogExpires(g) \/ WatchdogStops(g) \/ WatchdogLocks(g)

Next ==
  \/ \E c \in Callers : Call(c) \/ Finish(c)
  \/ Lock \/ \E i \in 0..(MaxAccounts - 1) : SelectAccount(i)
  \/ Holder \/ HoldPending
  \/ Minute \/ NoteActivity \/ \E g \in Gens : Watchdog(g)

Spec == Init /\ [][Next]_vars

(* Every call that began goes on, the holder of selMu releases it, time    *)
(* passes and the tickers fire.  A call that waits for selMu or a slot     *)
(* gets it when it stays free; the user is owed nothing.                   *)
FairSpec ==
  /\ Spec
  /\ WF_vars(Holder) /\ WF_vars(Minute)
  /\ \A c \in Callers : SF_vars(Finish(c))
  /\ SF_vars(\E g \in Gens : Watchdog(g))

-----------------------------------------------------------------------------
(* Properties.                                                             *)

\* Every field keeps its type (WalletService, wallet_service.go:50-110).
TypeOK ==
  /\ session \in [wallet : Wallets \cup {NoWallet}, active : 0..(MaxAccounts - 1)]
  /\ gen \in 0..MaxGen /\ autoLockStop \in 0..MaxGen /\ hold \in 0..MaxGen
  /\ selMu \in [at : {"free", "minutes", "watch", "unwatch", "callback", "persist", "select"},
                arg : Nat]
  /\ settings \in [active : 0..(MaxAccounts - 1),
                   counts : [Wallets -> AccountRange..MaxAccounts], minutes : Presets]
  /\ autoLockMins \in Presets \cup {0} /\ idle \in 0..MaxIdle
  /\ watchdog \in [Gens -> {"none", "watch", "expired"}]
  /\ kdf \subseteq Callers
  /\ call \in [Callers -> [pc : {"idle", "unlock", "reveal", "swap", "recheck", "minutes", "add"},
                           wallet : Wallets \cup {NoWallet}, gen : 0..MaxGen, arg : Nat]]
  /\ revealed \in [asked : Wallets \cup {NoWallet}, shown : Wallets \cup {NoWallet}]

\* An unlocked wallet always has a watchdog that will lock it, a locked one
\* none, whichever unlocks, locks and expiries overlapped (startAutoLock,
\* stopAutoLock).
WatchedIffUnlocked ==
  selMu = NotHeld =>
    IF Unlocked
    THEN autoLockStop # 0 /\ watchdog[autoLockStop] # "none"
    ELSE autoLockStop = 0

\* A mnemonic is shown only of the wallet whose password was checked, although
\* another may be unlocked during the derivation (RevealMnemonic).
RevealsWhatWasAsked == revealed.shown = revealed.asked

\* An account other than the first that signs is the one on disk and is among
\* the revealed ones, whatever write failed (SelectAccount).
SelectionPersisted ==
  selMu = NotHeld /\ Unlocked =>
    /\ session.active \in {0, settings.active}
    /\ session.active < settings.counts[session.wallet]

\* The signing key never changes without the generation (what TxService's
\* checks of the generation rely on).
KeyChangeBumpsGen == [][session' # session => gen' = gen + 1]_vars

\* A wallet nobody uses is locked, unless auto-lock is off.
LocksWhenIdle == []<>(~Unlocked \/ autoLockMins = 0 \/ idle = 0)

\* Every call returns: no wait for a slot or for selMu is for ever.
CallsEnd ==
  /\ \A c \in Callers : []<>(call[c] = Idle)
  /\ []<>(selMu = NotHeld)

\* An ended session leaves no held block behind (wallet_service.go:65-67:
\* onSessionChange is invoked whenever the signing session changes).
NoDeadHold == selMu = NotHeld /\ hold # 0 => hold = gen

\* A watchdog locks only the session it watched
\* (2026-07-19-auto-lock-design.md:60: no second lock later).
LocksOwnSession ==
  [][\A g \in Gens :
       watchdog[g] = "expired" /\ watchdog'[g] = "none" /\ Unlocked => autoLockStop = g]_vars

\* When nothing is in progress, the live timeout of a session is the persisted
\* one (2026-07-19-auto-lock-design.md:23: persists and updates atomically).
TimeoutPersisted ==
  selMu = NotHeld /\ Unlocked /\ (\A c \in Callers : call[c] = Idle) =>
    autoLockMins = settings.minutes
=============================================================================
