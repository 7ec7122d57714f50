------------------------------ MODULE MCWallet ------------------------------
(***************************************************************************)
(* The safety of what the wallet keeps, side by side: the settings and     *)
(* journal files, the session, the keystores and the manifest, the wallet  *)
(* store.  part says which instance runs; the variables of the other       *)
(* components stand still.  AtomicFile's own names are used directly.      *)
(***************************************************************************)
EXTENDS AtomicFile

CONSTANTS
  None, Partial, Corrupt, unset, Nothing       \* comparable with every value

VARIABLES
  part,
  \* WalletSession
  session, gen, selMu, settings, autoLockMins, autoLockStop, idle, watchdog, kdf, call,
  calls, hold, revealed,
  \* WalletFiles
  keystore, temp, manifest, manifestMu, fileCall, fileCalls, mishaps, promised, torn,
  \* SettingsFile
  settingsFile, touched,
  \* AccountStore
  wallet, index, unlocks, locked, activeIndex, selecting, queued, shell, storeCalls,
  replies, loads, trailing, screen, selects, wanted

-----------------------------------------------------------------------------
(* WalletSession: two wallets, two callers, a disk that may fail.          *)

Session == INSTANCE WalletSession WITH
  Wallets <- {"wa", "wb"}, NoWallet <- None, AccountRange <- 1, MaxAccounts <- 2, Presets <- {0, 1},
  DefaultMinutes <- 1, KdfMaxConcurrent <- 1, DiskMayFail <- TRUE, MaxCalls <- 3, MaxIdle <- 2

sessionVars ==
  <<session, gen, selMu, settings, autoLockMins, autoLockStop, idle, watchdog, kdf, call,
    calls, hold, revealed>>

-----------------------------------------------------------------------------
(* WalletFiles: a wallet of an older version, one that is imported.        *)

Files == INSTANCE WalletFiles WITH call <- fileCall, calls <- fileCalls,
  Ids <- {"i1", "i2"}, Legacy <- {"i1"}, Names <- {"n1", "n2"}, Stem <- "stem",
  Passwords <- {"p1", "p2"}, FirstPassword <- "p1",
  Mishaps <- {"write", "crash", "corrupt"}, MaxCalls <- 4, MaxMishaps <- 2

keystoreVars == <<keystore, temp, manifest, manifestMu, fileCall, fileCalls, mishaps, promised, torn>>

-----------------------------------------------------------------------------
(* SettingsFile: every setter and old file, or the address book of two     *)
(* accounts.                                                               *)

Writes == INSTANCE SettingsFile WITH file <- settingsFile,
  Accounts <- {"a1"}, Junk <- {"junk"}, Names <- {"n1"}, Unset <- unset, Urls <- {"u1", "u2"},
  DefaultUrl <- "u1", AutoLocks <- {0, 5}, DefaultLock <- 5, MinCount <- 1, MaxCount <- 2,
  MaxContacts <- 2, Others <- {"allowMainnetSend"}

Book == INSTANCE SettingsFile WITH file <- settingsFile,
  Accounts <- {"a1", "a2"}, Junk <- {"junk"}, Names <- {"n1", "n2"}, Unset <- unset, Urls <- {"u1"},
  DefaultUrl <- "u1", AutoLocks <- {5}, DefaultLock <- 5, MinCount <- 1, MaxCount <- 2,
  MaxContacts <- 3, Others <- {"allowMainnetSend"}

settingsVars == <<settingsFile, touched>>

SettingsInit ==
  CASE part = "writes" -> Writes!Init
    [] part = "book" -> Book!Init
    [] OTHER -> settingsFile = <<>> /\ touched = "none"

-----------------------------------------------------------------------------
(* AccountStore: answers in any order and selections that fail, three      *)
(* accounts picked fast, or data that loads and fails, through three       *)
(* selections or two sessions.                                             *)

Signer == INSTANCE AccountStore WITH calls <- storeCalls, shown <- screen,
  Indexes <- {0, 1}, MaxSelects <- 2, MaxSessions <- 1, PicksActive <- TRUE, SelectFails <- TRUE,
  LoadFails <- FALSE, AnswersOvertake <- TRUE

Intent == INSTANCE AccountStore WITH calls <- storeCalls, shown <- screen,
  Indexes <- {0, 1, 2}, MaxSelects <- 3, MaxSessions <- 1, PicksActive <- TRUE, SelectFails <- FALSE,
  LoadFails <- FALSE, AnswersOvertake <- FALSE

Data == INSTANCE AccountStore WITH calls <- storeCalls, shown <- screen,
  Indexes <- {0, 1}, MaxSelects <- 3, MaxSessions <- 1, PicksActive <- TRUE, SelectFails <- TRUE,
  LoadFails <- TRUE, AnswersOvertake <- TRUE

Reopened == INSTANCE AccountStore WITH calls <- storeCalls, shown <- screen,
  Indexes <- {0, 1}, MaxSelects <- 1, MaxSessions <- 2, PicksActive <- TRUE, SelectFails <- TRUE,
  LoadFails <- TRUE, AnswersOvertake <- TRUE

accountVars ==
  <<wallet, index, unlocks, locked, activeIndex, selecting, queued, shell, storeCalls,
    replies, loads, trailing, screen, selects, wanted>>

-----------------------------------------------------------------------------
ASSUME PartsAssumption ==
  /\ Session!SessionAssumption /\ Files!FilesAssumption
  /\ Writes!DefaultsAssumption /\ Book!UnsetAssumption
  /\ Signer!IndexesAssumption /\ Signer!BoundsAssumption /\ Signer!FlagsAssumption
  /\ Intent!IndexesAssumption /\ Nothing \notin [index : {0, 1, 2}, ours : BOOLEAN]

SideInit ==
  /\ part \in {"file", "session", "files", "writes", "book", "signer", "intent", "data", "reopened"}
  /\ Init /\ (part # "file" => upd = [c \in Callers |-> "u1"])
  /\ Session!Init /\ Files!Init /\ SettingsInit
  /\ CASE part = "data" -> Data!Init [] part = "reopened" -> Reopened!Init [] OTHER -> Signer!Init

SideNext ==
  /\ UNCHANGED part
  /\ \/ /\ part = "file" /\ Next
        /\ UNCHANGED <<sessionVars, keystoreVars, settingsVars, accountVars>>
     \/ /\ part = "session" /\ Session!Next
        /\ UNCHANGED <<vars, keystoreVars, settingsVars, accountVars>>
     \/ /\ part = "files" /\ Files!Next
        /\ UNCHANGED <<vars, sessionVars, settingsVars, accountVars>>
     \/ /\ \/ part = "writes" /\ Writes!Next
           \/ part = "book" /\ Book!Next
        /\ UNCHANGED <<vars, sessionVars, keystoreVars, accountVars>>
     \/ /\ \/ part = "signer" /\ Signer!Next
           \/ part = "intent" /\ Intent!Next
           \/ part = "data" /\ Data!Next
           \/ part = "reopened" /\ Reopened!Next
        /\ UNCHANGED <<vars, sessionVars, keystoreVars, settingsVars>>

sideVars == <<part, vars, sessionVars, keystoreVars, settingsVars, accountVars>>

SideSpec == SideInit /\ [][SideNext]_sideVars

-----------------------------------------------------------------------------
(* The components' properties, each where its instance promises it; those  *)
(* of AtomicFile are its own.                                              *)

\* Every component keeps its types.
TypesOK ==
  /\ TypeOK
  /\ part = "session" => Session!TypeOK
  /\ part = "files" => Files!TypeOK
  /\ part = "writes" => Writes!TypeOK
  /\ part = "book" => Book!TypeOK
  /\ part = "signer" => Signer!TypeOK
  /\ part = "intent" => Intent!TypeOK
  /\ part = "data" => Data!TypeOK
  /\ part = "reopened" => Reopened!TypeOK

\* The session's promises: an unlocked wallet has a watchdog and a locked one
\* none, a mnemonic is shown only of the wallet whose password was checked, the
\* account that signs is the one on disk whatever write failed, and the signing
\* key never changes without the generation.
SessionKept ==
  /\ [](Session!WatchedIffUnlocked /\ Session!RevealsWhatWasAsked /\ Session!SelectionPersisted)
  /\ Session!KeyChangeBumpsGen

\* A reported import or rename is never lost, a list shows every wallet, whatever
\* happened to the manifest, and a keystore can be decrypted, unless one password
\* change failed to write the file another was about to install; what a change
\* installs is the whole file of one that is under way.
WalletsKept ==
  Files!NamesKept /\ Files!ListedAll /\ Files!IntactUnlessTorn /\ Files!InstallsAskedFor

\* A setter changes its own field and the migration no choice; a deleted account
\* leaves no entry in the address book and an added one no second.
SettingsKept ==
  [][/\ part = "writes" => Writes!OwnFieldOnlyStep
     /\ part = "book" => Book!OwnFieldOnlyStep
     /\ part = "book" => Book!OneEntryPerAccountStep]_sideVars

\* With every call answered the store shows the account that signs, and where no
\* selection fails it is the last one the user asked for.
ShowsTheSigner ==
  /\ Signer!ShowsTheSigner
  /\ part = "intent" => Intent!LastIntentWins

\* No answer puts another account's data on the screen, and with nothing under
\* way they are those of the account that is shown, unless the user selected it
\* again while they were loading.
DataIsOwn ==
  /\ [](part = "data" => Data!RefreshedIsOwn)
  /\ [](part = "reopened" => Reopened!RefreshedIsOwn)
  /\ [][(part = "data" \/ part = "reopened") => Reopened!NoOldDataStep]_sideVars
=============================================================================
