----------------------------- MODULE WalletFiles -----------------------------
(***************************************************************************)
(* The wallets directory: keystore files and the manifest that names them  *)
(* (app/wallet_manifest.go and the file operations of                      *)
(* app/wallet_service.go), under concurrent calls and crashes.             *)
(*                                                                         *)
(* A keystore file is its complete content under one password, or Partial. *)
(* Only the manifest is under a mutex: keystore files are created,         *)
(* scanned, replaced and removed outside it, one file operation a step.    *)
(***************************************************************************)
EXTENDS Integers

CONSTANTS
  Callers,                    \* concurrent calls
  Ids,                        \* file names of keystores: new uuids, and ...
  Legacy,                     \* ... the ones found at the first start
  Names, Stem,                \* display names, and the one taken from a file name
  Passwords, FirstPassword,
  Mishaps,                    \* what may go wrong: "write", "crash", "corrupt"
  MaxCalls, MaxMishaps,       \* bounds
  None, Partial, Corrupt      \* no value, and contents that do not parse

Entries == [id : Ids, tmp : BOOLEAN, name : Names \cup {Stem}]

FilesAssumption ==
  /\ Legacy \subseteq Ids /\ None \notin Ids \cup Callers
  /\ Stem \notin Names /\ FirstPassword \in Passwords
  /\ None \notin Names \cup Passwords \cup {Stem, Partial} /\ Partial \notin Passwords
  /\ Mishaps \subseteq {"write", "crash", "corrupt"}
  /\ {MaxCalls, MaxMishaps} \subseteq Nat
  /\ \A m \in SUBSET Entries : m # Corrupt

VARIABLES
  keystore,     \* the file of each id ...
  temp,         \* ... and its fixed temporary name, path + ".tmp"
  manifest,     \* wallets.json: a set of entries [id, tmp, name], or Corrupt
  manifestMu,   \* the call that holds it, or None
  call,         \* progress and locals of each call
  calls, mishaps,
  promised,     \* the name of each wallet whose import or rename was reported
  torn          \* wallets whose temporary file was damaged by a failed change after
                \* another had written it (a record of the model)

files == <<keystore, temp>>
bounds == <<calls, mishaps>>
vars == <<files, manifest, manifestMu, call, bounds, promised, torn>>

NoEntries == {}
Idle == [op |-> "idle", pc |-> "idle", id |-> None, name |-> None, pw |-> None,
         m |-> NoEntries]

Init ==
  /\ keystore = [i \in Ids |-> IF i \in Legacy THEN FirstPassword ELSE None]
  /\ temp = [i \in Ids |-> None]
  /\ manifest = NoEntries /\ manifestMu = None
  /\ call = [c \in Callers |-> Idle]
  /\ calls = 0 /\ mishaps = 0
  /\ promised = [i \in Ids |-> None] /\ torn = {}

-----------------------------------------------------------------------------
Begin(c, op, pc, id, name, pw) ==
  /\ call[c] = Idle /\ calls < MaxCalls /\ calls' = calls + 1
  /\ call' = [call EXCEPT ![c] = [op |-> op, pc |-> pc, id |-> id, name |-> name,
                                  pw |-> pw, m |-> NoEntries]]
  /\ UNCHANGED mishaps

At(c, pc) == call[c].pc = pc
Goto(c, pc) == call' = [call EXCEPT ![c] = [@ EXCEPT !.pc = pc]]
GotoWith(c, pc, m) ==
  LET k == [call[c] EXCEPT !.m = m] IN call' = [call EXCEPT ![c] = [k EXCEPT !.pc = pc]]
Return(c) == call' = [call EXCEPT ![c] = Idle]
GoesWrong(kind) == kind \in Mishaps /\ mishaps < MaxMishaps /\ mishaps' = mishaps + 1

Entry(id, name) == [id |-> id, tmp |-> FALSE, name |-> name]
TempEntry(id) == [id |-> id, tmp |-> TRUE, name |-> Stem]
SameFile(e, f) == e.id = f.id /\ e.tmp = f.tmp

Valid(content) == content \in Passwords
Fresh(i) == keystore[i] = None /\ \A c \in Callers : call[c].id # i

-----------------------------------------------------------------------------
(* Import and create: the keystore file first, then its manifest entry.    *)

ImportKeystore(c, i, n) ==
  /\ Fresh(i)
  /\ Begin(c, "import", "write", i, n, FirstPassword)
  /\ UNCHANGED <<files, manifest, manifestMu, promised, torn>>

ImportMnemonic(c, i, n) ==
  /\ Fresh(i)
  /\ Begin(c, "create", "write", i, n, FirstPassword)
  /\ UNCHANGED <<files, manifest, manifestMu, promised, torn>>

\* A failed import leaves no file, a failed create may leave part of one.
WriteKeystore(c) ==
  /\ At(c, "write")
  /\ \/ /\ keystore' = [keystore EXCEPT ![call[c].id] = call[c].pw]
        /\ Goto(c, "lock") /\ UNCHANGED mishaps
     \/ /\ GoesWrong("write") /\ Return(c)
        /\ \/ UNCHANGED keystore
           \/ /\ call[c].op = "create"
              /\ keystore' = [keystore EXCEPT ![call[c].id] = Partial]
  /\ UNCHANGED <<temp, manifest, manifestMu, calls, promised, torn>>

\* An import whose entry could not be saved takes its file away again.
RemoveImported(c) ==
  /\ At(c, "remove")
  /\ keystore' = [keystore EXCEPT ![call[c].id] = None]
  /\ promised' = [promised EXCEPT ![call[c].id] = None]
  /\ Return(c)
  /\ UNCHANGED <<temp, manifest, manifestMu, bounds, torn>>

-----------------------------------------------------------------------------
(* Every manifest writer loads, changes and saves it under manifestMu.     *)

RenameWallet(c, i, n) ==
  /\ Begin(c, "rename", "lock", i, n, None)
  /\ UNCHANGED <<files, manifest, manifestMu, promised, torn>>

ListWallets(c) ==
  /\ Begin(c, "list", "lock", None, None, None)
  /\ UNCHANGED <<files, manifest, manifestMu, promised, torn>>

\* The manifest is read before the mutex is taken.
LoadUnlocked(c) ==
  /\ At(c, "lock")
  /\ manifestMu' = c
  /\ manifest' = IF manifest = Corrupt THEN NoEntries ELSE manifest
  /\ GotoWith(c, "change", manifest')
  /\ UNCHANGED <<files, bounds, promised, torn>>

\* A manifest that is not valid JSON is moved aside and counts as empty.
LoadManifest(c) ==
  /\ At(c, "lock")
  /\ manifestMu = None /\ manifestMu' = c
  /\ manifest' = IF manifest = Corrupt THEN NoEntries ELSE manifest
  /\ GotoWith(c, "change", manifest')
  /\ UNCHANGED <<files, bounds, promised, torn>>

AddToManifest(c) ==
  /\ At(c, "change") /\ call[c].op \in {"import", "create"}
  /\ GotoWith(c, "save", call[c].m \cup {Entry(call[c].id, call[c].name)})
  /\ UNCHANGED <<files, manifest, manifestMu, bounds, promised, torn>>

\* The first entry of the id, whichever that is; an unknown id ends the call.
ChangeName(c) ==
  /\ At(c, "change") /\ call[c].op = "rename"
  /\ LET new == Entry(call[c].id, call[c].name)
         found == {e \in call[c].m : SameFile(e, new)} IN
       IF found = {}
       THEN Return(c) /\ manifestMu' = None
       ELSE /\ \E e \in found : GotoWith(c, "save", (call[c].m \ {e}) \cup {new})
            /\ UNCHANGED manifestMu
  /\ UNCHANGED <<files, manifest, bounds, promised, torn>>

OnDisk == {Entry(i, Stem) : i \in {j \in Ids : Valid(keystore[j])}}
          \cup {TempEntry(i) : i \in {j \in Ids : Valid(temp[j])}}
\* Entries without a file go, files without an entry come.
Reconcile(c) ==
  /\ At(c, "change") /\ call[c].op = "list"
  /\ LET kept == {e \in call[c].m : \E f \in OnDisk : SameFile(e, f)}
         new == {f \in OnDisk : \A e \in kept : ~SameFile(e, f)} IN
       GotoWith(c, IF kept \cup new = call[c].m THEN "listed" ELSE "save", kept \cup new)
  /\ UNCHANGED <<files, manifest, manifestMu, bounds, promised, torn>>

Reported(c) == call[c].op \in {"import", "create", "rename"}

\* A wallet listed while its import may still fail can be renamed, but is not
\* one the user was promised.
Stays(c) ==
  /\ Valid(keystore[call[c].id])
  /\ \A d \in Callers \ {c} : call[d].id = call[c].id => call[d].op # "import"

\* A unique temporary file, synced and renamed: replaced whole, or an error.
SaveManifest(c) ==
  /\ At(c, "save")
  /\ \/ /\ manifest' = call[c].m
        /\ IF Reported(c)
           THEN /\ Return(c) /\ manifestMu' = None
                /\ promised' = [promised EXCEPT ![call[c].id] = IF Stays(c)
                                                                THEN call[c].name ELSE @]
           ELSE Goto(c, "listed") /\ UNCHANGED <<manifestMu, promised>>
        /\ UNCHANGED mishaps
     \/ /\ GoesWrong("write") /\ manifestMu' = None
        /\ IF call[c].op = "import" THEN Goto(c, "remove") ELSE Return(c)
        /\ UNCHANGED <<manifest, promised>>
  /\ UNCHANGED <<files, calls, torn>>

\* The entries go to the caller.
Listed(c) ==
  /\ At(c, "listed")
  /\ Return(c) /\ manifestMu' = None
  /\ UNCHANGED <<files, manifest, bounds, promised, torn>>

-----------------------------------------------------------------------------
(* ChangePassword: decrypt, encrypt, write path.tmp, rename it.            *)

ChangePassword(c, i, old, new) ==
  /\ keystore[i] = old
  /\ Begin(c, "password", "temp", i, None, new)
  /\ UNCHANGED <<files, manifest, manifestMu, promised, torn>>

\* A failed write may leave part of the temporary file behind, also in the place
\* of the one another change has written.
WriteTemp(c) ==
  /\ At(c, "temp")
  /\ \/ /\ temp' = [temp EXCEPT ![call[c].id] = call[c].pw]
        /\ Goto(c, "replace") /\ UNCHANGED <<mishaps, torn>>
     \/ /\ GoesWrong("write") /\ Return(c)
        /\ temp' = [temp EXCEPT ![call[c].id] = Partial]
        /\ torn' = torn \cup {i \in {call[c].id} : \E d \in Callers : At(d, "replace") /\ call[d].id = i}
  /\ UNCHANGED <<keystore, manifest, manifestMu, calls, promised>>

\* Whatever has the temporary name now; nothing there is an error.
ReplaceKeystore(c) ==
  /\ At(c, "replace")
  /\ LET i == call[c].id IN
       IF temp[i] = None THEN UNCHANGED files
       ELSE /\ keystore' = [keystore EXCEPT ![i] = temp[i]]
            /\ temp' = [temp EXCEPT ![i] = None]
  /\ Return(c)
  /\ UNCHANGED <<manifest, manifestMu, bounds, promised, torn>>

-----------------------------------------------------------------------------
\* The process ends; the directory stays.
Crash ==
  /\ GoesWrong("crash")
  /\ call' = [c \in Callers |-> Idle] /\ manifestMu' = None
  /\ UNCHANGED <<files, manifest, calls, promised, torn>>

\* The manifest is damaged from outside, and the names in it are gone.
CorruptManifest ==
  /\ GoesWrong("corrupt") /\ manifestMu = None
  /\ manifest' = Corrupt
  /\ promised' = [i \in Ids |-> IF promised[i] = None THEN None ELSE Stem]
  /\ UNCHANGED <<files, manifestMu, call, calls, torn>>

Call(c) ==
  \/ \E i \in Ids, n \in Names :
       ImportKeystore(c, i, n) \/ ImportMnemonic(c, i, n) \/ RenameWallet(c, i, n)
  \/ ListWallets(c)
  \/ \E i \in Ids, old, new \in Passwords : ChangePassword(c, i, old, new)

Continue(c) ==
  \/ WriteKeystore(c) \/ RemoveImported(c) \/ LoadManifest(c)
  \/ AddToManifest(c) \/ ChangeName(c) \/ Reconcile(c) \/ SaveManifest(c)
  \/ Listed(c)
  \/ WriteTemp(c) \/ ReplaceKeystore(c)

Next == (\E c \in Callers : Call(c) \/ Continue(c)) \/ Crash \/ CorruptManifest

Spec == Init /\ [][Next]_vars

-----------------------------------------------------------------------------
(* Properties.                                                             *)

Contents == Passwords \cup {None, Partial}
Known(i) == i \in Legacy \/ promised[i] # None

\* Every file and every call keeps its type, and at most one call is between
\* the load and the save of the manifest (manifestMu).
TypeOK ==
  /\ keystore \in [Ids -> Contents] /\ temp \in [Ids -> Contents]
  /\ manifest = Corrupt \/ manifest \subseteq Entries
  /\ promised \in [Ids -> Names \cup {None, Stem}] /\ torn \subseteq Ids
  /\ \A c \in Callers :
       /\ call[c].op \in {"idle", "import", "create", "rename", "list", "password"}
       /\ call[c].pc \in {"idle", "write", "remove", "lock", "change", "save", "listed",
                          "temp", "replace"}
       /\ call[c].m \subseteq Entries
       /\ call[c].pc \in {"change", "save", "listed"} <=> manifestMu = c

\* A reported import or rename is never lost to another writer or to a crash
\* (saveManifest's callers, wallet_manifest.go:59-65, audit GS-05), unless two
\* password changes tore the keystore: a list drops what it cannot read.
NamesKept ==
  \A i \in Ids \ torn : promised[i] \in Names =>
    manifest # Corrupt /\ Entry(i, promised[i]) \in manifest

\* A list shows every wallet the user has whose keystore is not torn, whatever
\* happened to the manifest (loadManifest: a corrupt manifest must never hide
\* on-disk wallets).
ListedAll ==
  \A c \in Callers : At(c, "listed") =>
    \A i \in Ids \ torn : Known(i) =>
      \E e \in call[c].m : e.id = i /\ ~e.tmp

\* What ChangePassword says of itself: a keystore the user relies on can always
\* be decrypted, whichever write failed or was interrupted (a failure never
\* corrupts the original).  Two changes of one wallet break it.
KeystoreIntact == \A i \in Ids : Known(i) => Valid(keystore[i])

\* It is there always, and can be decrypted unless a change failed to write the
\* temporary file that another change was about to install: overlapping changes
\* alone, crashes, and other failed writes do no harm.
IntactUnlessTorn ==
  \A i \in Ids : Known(i) => keystore[i] # None /\ (i \in torn \/ Valid(keystore[i]))

\* A password change installs nothing but the complete file of a change of that
\* wallet which is still under way, its own or an overlapping one's: never what a
\* failed or interrupted change left behind, unless it is torn.
InstallsAskedFor ==
  \A c \in Callers : At(c, "replace") =>
    LET i == call[c].id
    IN  \/ i \in torn \/ temp[i] = None
        \/ \E d \in Callers : At(d, "replace") /\ call[d].id = i /\ temp[i] = call[d].pw

\* A wallet has one entry: its id is what unlock and rename go by
\* (2026-06-26-wallet-naming-design.md:22).
OneEntry ==
  manifest # Corrupt =>
    \A e, f \in manifest : SameFile(e, f) => e = f

\* When no call is in progress, entries name new or pre-existing wallets, not a
\* password change's temporary file (2026-06-26-wallet-naming-design.md:22).
EntriesAreWallets ==
  manifest # Corrupt /\ (\A c \in Callers : call[c] = Idle) =>
    \A e \in manifest : ~e.tmp
=============================================================================
