-------------------------- MODULE WalletFilesProofs --------------------------
(***************************************************************************)
(* Theorems about the wallets directory: for any number of wallets, calls, *)
(* failed writes, crashes and damaged manifests, what was reported stays,  *)
(* a list shows every wallet and every keystore can be decrypted, also    *)
(* when password changes overlap, unless one of them fails to write the    *)
(* file another is about to install.                                       *)
(***************************************************************************)
EXTENDS WalletFiles, TLAPS

-----------------------------------------------------------------------------
(* The inductive invariant.                                                *)

CallRecords ==
  [op : {"idle", "import", "create", "rename", "list", "password"},
   pc : {"idle", "write", "remove", "lock", "change", "save", "listed", "temp", "replace"},
   id : Ids \cup {None}, name : Names \cup {None}, pw : Passwords \cup {None},
   m : SUBSET Entries]

\* What a call carries, and the steps it may be at.
CallShape(k) ==
  /\ k.op = "idle" => k = Idle
  /\ k.op \in {"import", "create"} =>
       /\ k.pc \in {"write", "lock", "change", "save"} \/ (k.op = "import" /\ k.pc = "remove")
       /\ k.id \in Ids \ Legacy /\ k.name \in Names /\ k.pw = FirstPassword
  /\ k.op = "rename" => k.pc \in {"lock", "change", "save"} /\ k.id \in Ids /\ k.name \in Names
  /\ k.op = "list" => k.pc \in {"lock", "change", "save", "listed"}
  /\ k.op = "password" => k.pc \in {"temp", "replace"} /\ k.id \in Ids /\ k.pw \in Passwords

TypeInv ==
  /\ keystore \in [Ids -> Contents] /\ temp \in [Ids -> Contents]
  /\ manifest = Corrupt \/ manifest \subseteq Entries
  /\ promised \in [Ids -> Names \cup {None, Stem}] /\ torn \subseteq Ids
  /\ call \in [Callers -> CallRecords]
  /\ \A c \in Callers : CallShape(call[c])

\* One call between the load and the save, and what it loaded is the manifest.
MutexInv ==
  /\ manifestMu \in Callers \cup {None}
  /\ \A c \in Callers : call[c].pc \in {"change", "save", "listed"} <=> manifestMu = c
  /\ \A c \in Callers : At(c, "change") => call[c].m = manifest

New(c) == call[c].op \in {"import", "create"}
Changes(c) == call[c].op = "password"

\* Whose the keystore files are: one call makes a wallet's.
OwnerInv ==
  /\ \A c, d \in Callers : New(c) /\ New(d) /\ call[c].id = call[d].id => c = d
  /\ \A c \in Callers : At(c, "write") =>
       /\ keystore[call[c].id] = None
       /\ \A d \in Callers : Changes(d) => call[d].id # call[c].id
  /\ \A c \in Callers : call[c].op = "import" => promised[call[c].id] = None

\* What is about to be saved or shown has what was promised.
SavedInv ==
  \A c \in Callers :
    /\ At(c, "save") => \A i \in Ids \ torn : promised[i] \in Names =>
         Entry(i, promised[i]) \in call[c].m \/ (call[c].op = "rename" /\ call[c].id = i)
    /\ At(c, "save") /\ Reported(c) => Entry(call[c].id, call[c].name) \in call[c].m
    /\ call[c].op = "list" /\ call[c].pc \in {"save", "listed"} =>
         \A i \in Ids \ torn : Known(i) => \E e \in call[c].m : e.id = i /\ ~e.tmp

FilesInv ==
  TypeInv /\ MutexInv /\ OwnerInv /\ SavedInv /\ NamesKept /\ IntactUnlessTorn /\ InstallsAskedFor
-----------------------------------------------------------------------------
(* Facts about the data.                                                   *)

LEMMA Types ==
  ASSUME FilesAssumption
  PROVE  /\ NoEntries \subseteq Entries /\ Idle \in CallRecords /\ CallShape(Idle)
         /\ \A i \in Ids, n \in Names \cup {Stem} :
              /\ Entry(i, n) \in Entries /\ TempEntry(i) \in Entries
              /\ Entry(i, n).id = i /\ ~Entry(i, n).tmp /\ Entry(i, n).name = n
              /\ TempEntry(i).id = i /\ TempEntry(i).tmp
         /\ Corrupt # NoEntries /\ \A m \in SUBSET Entries : m # Corrupt
         /\ None \notin Ids /\ None \notin Callers /\ None \notin Names /\ None \notin Passwords
         /\ FirstPassword \in Passwords /\ Stem \notin Names /\ ~Valid(None) /\ ~Valid(Partial)
  BY DEF FilesAssumption, NoEntries, Entries, Entry, TempEntry, Idle, CallRecords, CallShape, Valid

\* A step of one call: the others are where they were.
LEMMA OneMoves ==
  ASSUME call \in [Callers -> CallRecords], \A d \in Callers : CallShape(call[d]),
         NEW c \in Callers, NEW k \in CallRecords, CallShape(k), call' = [call EXCEPT ![c] = k]
  PROVE  /\ call' \in [Callers -> CallRecords] /\ \A d \in Callers : CallShape(call[d])'
         /\ call'[c] = k /\ \A d \in Callers \ {c} : call'[d] = call[d]
  BY DEF CallShape

\* The call k at its next step, with what it read.
Moved(k, pc, m) ==
  [op |-> k.op, pc |-> pc, id |-> k.id, name |-> k.name, pw |-> k.pw, m |-> m]

LEMMA MovedCall ==
  ASSUME NEW k \in CallRecords, NEW pc, NEW m
  PROVE  /\ [k EXCEPT !.pc = pc] = Moved(k, pc, k.m)
         /\ [k EXCEPT !.m = m] = Moved(k, k.pc, m)
         /\ [Moved(k, k.pc, m) EXCEPT !.pc = pc] = Moved(k, pc, m)
  BY DEF CallRecords, Moved

\* The forms in which a call goes on.
LEMMA MoveForms ==
  ASSUME call \in [Callers -> CallRecords], NEW c \in Callers, NEW pc, NEW m
  PROVE  /\ Goto(c, pc) => call' = [call EXCEPT ![c] = Moved(call[c], pc, call[c].m)]
         /\ GotoWith(c, pc, m) => call' = [call EXCEPT ![c] = Moved(call[c], pc, m)]
  <1>1. Goto(c, pc) => call' = [call EXCEPT ![c] = Moved(call[c], pc, call[c].m)]
    BY MovedCall DEF Goto
  <1>2. ASSUME GotoWith(c, pc, m) PROVE call' = [call EXCEPT ![c] = Moved(call[c], pc, m)]
    <2> DEFINE k == [call[c] EXCEPT !.m = m]
               w == [k EXCEPT !.pc = pc]
    <2>1. call' = [call EXCEPT ![c] = w]
      BY <1>2 DEF GotoWith
    <2>2. k = Moved(call[c], call[c].pc, m)
      BY MovedCall
    <2>3. [Moved(call[c], call[c].pc, m) EXCEPT !.pc = pc] = Moved(call[c], pc, m)
      BY DEF Moved
    <2> HIDE DEF k
    <2>4. w = Moved(call[c], pc, m)
      BY <2>2, <2>3
    <2> HIDE DEF w
    <2> QED BY <2>1, <2>4
  <1> QED BY <1>1, <1>2

\* Which call is at a step.
LEMMA AtSteps ==
  ASSUME TypeInv, NEW c \in Callers
  PROVE  LET k == call[c] IN
         /\ k \in CallRecords /\ CallShape(k)
         /\ k.pc \in {"write", "remove"} => New(c)
         /\ k.pc \in {"temp", "replace"} => Changes(c)
         /\ k.pc = "remove" => k.op = "import"
         /\ k.pc = "listed" => k.op = "list"
         /\ k.pc \in {"lock", "change", "save"} => Reported(c) \/ k.op = "list"
         /\ New(c) => k.id \in Ids \ Legacy /\ k.name \in Names /\ k.pw = FirstPassword
         /\ Changes(c) => k.id \in Ids /\ k.pw \in Passwords
         /\ Reported(c) => k.id \in Ids /\ k.name \in Names
  <1>1. call[c] \in CallRecords /\ CallShape(call[c])
    BY DEF TypeInv
  <1> QED BY <1>1 DEF CallShape, CallRecords, Idle, New, Changes, Reported

-----------------------------------------------------------------------------
(* Every step preserves the invariant.                                     *)

LEMMA InitInv == ASSUME FilesAssumption, Init PROVE FilesInv
  <1> USE DEF Init
  <1>a. torn \subseteq Ids /\ keystore \in [Ids -> Contents] /\ temp \in [Ids -> Contents]
    BY Types DEF Contents, FilesAssumption
  <1>1. TypeInv
    BY <1>a, Types DEF TypeInv, FilesAssumption
  <1>2. \A c \in Callers : call[c] = Idle /\ call[c].op = "idle" /\ call[c].pc = "idle"
    BY DEF Idle
  <1>3. MutexInv /\ OwnerInv /\ SavedInv
    BY <1>2, Types DEF MutexInv, OwnerInv, SavedInv, At, New, Changes, Reported
  <1>4. NamesKept /\ IntactUnlessTorn /\ InstallsAskedFor
    BY <1>2, Types DEF NamesKept, IntactUnlessTorn, InstallsAskedFor, Known, Valid, At
  <1> QED BY <1>1, <1>3, <1>4 DEF FilesInv

\* A new import or create: an id that no file and no call has.
LEMMA NewStep ==
  ASSUME FilesAssumption, FilesInv, NEW c \in Callers, NEW i \in Ids, NEW n \in Names,
         NEW op \in {"import", "create"}, Fresh(i), Begin(c, op, "write", i, n, FirstPassword),
         UNCHANGED <<files, manifest, manifestMu, promised, torn>>
  PROVE  FilesInv'
  <1> DEFINE k == [op |-> op, pc |-> "write", id |-> i, name |-> n, pw |-> FirstPassword,
                   m |-> NoEntries]
  <1> USE DEF files
  <1>0. TypeInv /\ MutexInv /\ OwnerInv /\ SavedInv /\ NamesKept /\ IntactUnlessTorn
        /\ InstallsAskedFor
    BY DEF FilesInv
  <1>1. promised[i] = None /\ i \notin Legacy /\ keystore[i] = None
        /\ \A d \in Callers : call[d].id # i
    BY <1>0, Types DEF IntactUnlessTorn, Known, Fresh
  <1>2. k \in CallRecords /\ CallShape(k)
    BY <1>1, Types DEF CallRecords, CallShape
  <1>3. /\ call' \in [Callers -> CallRecords] /\ \A d \in Callers : CallShape(call[d])'
        /\ call'[c] = k /\ \A d \in Callers \ {c} : call'[d] = call[d]
    BY <1>0, <1>2, OneMoves DEF Begin, TypeInv
  <1>4. call[c] = Idle /\ call[c].pc = "idle" /\ call[c].op = "idle"
    BY DEF Begin, Idle
  <1>5. TypeInv'
    BY <1>0, <1>3 DEF TypeInv
  <1>6. MutexInv'
    BY <1>0, <1>3, <1>4 DEF MutexInv, At
  <1>7. OwnerInv'
    BY <1>0, <1>1, <1>3, <1>4 DEF OwnerInv, At, New, Changes
  <1>8. SavedInv'
    BY <1>0, <1>3, <1>4 DEF SavedInv, At, Reported, Known
  <1>9. NamesKept' /\ IntactUnlessTorn' /\ InstallsAskedFor'
    BY <1>0, <1>3, <1>4 DEF NamesKept, IntactUnlessTorn, InstallsAskedFor, Known, At
  <1> QED BY <1>5, <1>6, <1>7, <1>8, <1>9 DEF FilesInv
\* A rename, a list or a password change that begins.
LEMMA BeginStep ==
  ASSUME FilesAssumption, FilesInv, NEW c \in Callers, NEW op \in {"rename", "list", "password"},
         NEW pc, NEW i \in Ids \cup {None}, NEW n \in Names \cup {None},
         NEW pw \in Passwords \cup {None}, Begin(c, op, pc, i, n, pw),
         op = "rename" => pc = "lock" /\ i \in Ids /\ n \in Names, op = "list" => pc = "lock",
         op = "password" => pc = "temp" /\ i \in Ids /\ pw \in Passwords /\ keystore[i] \in Passwords,
         UNCHANGED <<files, manifest, manifestMu, promised, torn>>
  PROVE  FilesInv'
  <1> DEFINE k == [op |-> op, pc |-> pc, id |-> i, name |-> n, pw |-> pw, m |-> NoEntries]
  <1> USE DEF files
  <1>0. TypeInv /\ MutexInv /\ OwnerInv /\ SavedInv /\ NamesKept /\ IntactUnlessTorn
        /\ InstallsAskedFor
    BY DEF FilesInv
  <1>2. k \in CallRecords /\ CallShape(k)
    BY Types DEF CallRecords, CallShape
  <1>3. /\ call' \in [Callers -> CallRecords] /\ \A d \in Callers : CallShape(call[d])'
        /\ call'[c] = k /\ \A d \in Callers \ {c} : call'[d] = call[d]
    BY <1>0, <1>2, OneMoves DEF TypeInv, Begin
  <1>4. call[c] = Idle /\ call[c].pc = "idle" /\ call[c].op = "idle"
    BY DEF Begin, Idle
  <1>5. TypeInv'
    BY <1>0, <1>3, <1>4, Types DEF TypeInv
  <1>6. MutexInv'
    BY <1>0, <1>3, <1>4, Types DEF MutexInv, At
  <1>7. OwnerInv'
    BY <1>0, <1>3, <1>4, Types DEF OwnerInv, At, New, Changes
  <1>8. SavedInv'
    BY <1>0, <1>3, <1>4, Types DEF SavedInv, At, Reported, Known
  <1>9. NamesKept' /\ IntactUnlessTorn' /\ InstallsAskedFor'
    BY <1>0, <1>3, <1>4, Types DEF NamesKept, IntactUnlessTorn, InstallsAskedFor, Known, At
  <1> QED BY <1>5, <1>6, <1>7, <1>8, <1>9 DEF FilesInv

\* A call that ends with nothing promised and no file changed; the mutex is
\* free if it had it.
LEMMA ReturnStep ==
  ASSUME FilesAssumption, FilesInv, NEW c \in Callers, Return(c),
         manifestMu' = IF manifestMu = c THEN None ELSE manifestMu,
         call[c].pc = "replace" => temp[call[c].id] = None,
         UNCHANGED <<files, manifest, promised, torn>>
  PROVE  FilesInv'
  <1> USE DEF files
  <1>0. TypeInv /\ MutexInv /\ OwnerInv /\ SavedInv /\ NamesKept /\ IntactUnlessTorn
        /\ InstallsAskedFor
    BY DEF FilesInv
  <1>2. Idle \in CallRecords /\ CallShape(Idle) /\ Idle.pc = "idle" /\ Idle.op = "idle"
    BY Types DEF Idle
  <1>3. /\ call' \in [Callers -> CallRecords] /\ \A d \in Callers : CallShape(call[d])'
        /\ call'[c] = Idle /\ \A d \in Callers \ {c} : call'[d] = call[d]
    BY <1>0, <1>2, OneMoves DEF TypeInv, Return
  <1>5. TypeInv'
    BY <1>0, <1>2, <1>3, Types DEF TypeInv
  <1>6. MutexInv'
    BY <1>0, <1>2, <1>3, Types DEF MutexInv, At
  <1>7. OwnerInv'
    BY <1>0, <1>2, <1>3, Types DEF OwnerInv, At, New, Changes
  <1>8. SavedInv'
    BY <1>0, <1>2, <1>3, Types DEF SavedInv, At, Reported, Known
  <1>9. NamesKept' /\ IntactUnlessTorn'
    BY <1>0 DEF NamesKept, IntactUnlessTorn, Known
  <1>10. InstallsAskedFor'
    BY <1>0, <1>2, <1>3 DEF InstallsAskedFor, At
  <1> QED BY <1>5, <1>6, <1>7, <1>8, <1>9, <1>10 DEF FilesInv

\* The keystore of a new id: whole, none or part of one.
LEMMA WriteKeystoreStep ==
  ASSUME FilesAssumption, FilesInv, NEW c \in Callers, WriteKeystore(c)
  PROVE  FilesInv'
  <1>0. TypeInv /\ MutexInv /\ OwnerInv /\ SavedInv /\ NamesKept /\ IntactUnlessTorn
        /\ InstallsAskedFor
    BY DEF FilesInv
  <1>1. \A d \in Callers : /\ call[d].pc = "write" \/ call[d].op = "import" => New(d)
                           /\ New(d) => call[d].id \in Ids
    BY <1>0, AtSteps DEF New
  <1>a. /\ call[c].pc = "write" /\ New(c) /\ call[c].id \in Ids \ Legacy /\ call[c].pw = FirstPassword
        /\ keystore[call[c].id] = None /\ promised[call[c].id] = None
    <2>1. call[c].pc = "write"
      BY DEF WriteKeystore, At
    <2>2. New(c) /\ call[c].id \in Ids \ Legacy /\ call[c].pw = FirstPassword
      BY <1>0, <2>1, AtSteps
    <2>3. keystore[call[c].id] = None
      BY <1>0, <2>1 DEF OwnerInv, At
    <2> QED BY <1>0, <2>1, <2>2, <2>3, Types DEF IntactUnlessTorn, Known
  <1>b. UNCHANGED <<temp, manifest, manifestMu, promised, torn>>
    BY DEF WriteKeystore
  <1> DEFINE w == Moved(call[c], "lock", call[c].m)
  <1>d. CASE keystore' = [keystore EXCEPT ![call[c].id] = call[c].pw] /\ Goto(c, "lock")
    <2>1. call' = [call EXCEPT ![c] = w]
      BY <1>0, <1>d, MoveForms DEF TypeInv
    <2>2. w \in CallRecords /\ CallShape(w)
      BY <1>0, <1>a, AtSteps DEF Moved, CallRecords, CallShape, New
    <2>3. /\ call' \in [Callers -> CallRecords] /\ \A d \in Callers : CallShape(call[d])'
          /\ call'[c] = w /\ \A d \in Callers \ {c} : call'[d] = call[d]
      BY <1>0, <2>1, <2>2, OneMoves DEF TypeInv
    <2>4. w.op = call[c].op /\ w.id = call[c].id /\ w.pc = "lock" /\ w.pw = call[c].pw
      BY DEF Moved
    <2> HIDE DEF w
    <2>5. /\ keystore' \in [Ids -> Contents]
          /\ \A i \in Ids \ {call[c].id} : keystore'[i] = keystore[i]
          /\ Valid(keystore'[call[c].id])
      BY <1>0, <1>a, <1>d, Types DEF TypeInv, Contents, Valid
    <2>6. TypeInv' /\ MutexInv'
      BY <1>0, <1>a, <1>b, <2>3, <2>4, <2>5 DEF TypeInv, MutexInv, At
    <2>7. OwnerInv'
      BY <1>0, <1>1, <1>a, <1>b, <2>3, <2>4, <2>5 DEF OwnerInv, At, New, Changes
    <2>8. SavedInv'
      BY <1>0, <1>a, <1>b, <2>3, <2>4 DEF SavedInv, At, Reported, Known
    <2>9. NamesKept' /\ IntactUnlessTorn' /\ InstallsAskedFor'
      BY <1>0, <1>a, <1>b, <2>3, <2>4, <2>5
      DEF NamesKept, IntactUnlessTorn, InstallsAskedFor, Known, At
    <2> QED BY <2>6, <2>7, <2>8, <2>9 DEF FilesInv
  <1>e. CASE Return(c) /\ keystore' \in {keystore, [keystore EXCEPT ![call[c].id] = Partial]}
    <2>2. Idle \in CallRecords /\ CallShape(Idle) /\ Idle.pc = "idle" /\ Idle.op = "idle"
      BY Types DEF Idle
    <2>3. /\ call' \in [Callers -> CallRecords] /\ \A d \in Callers : CallShape(call[d])'
          /\ call'[c] = Idle /\ \A d \in Callers \ {c} : call'[d] = call[d]
      BY <1>0, <1>e, <2>2, OneMoves DEF TypeInv, Return
    <2>5. /\ keystore' \in [Ids -> Contents]
          /\ \A i \in Ids \ {call[c].id} : keystore'[i] = keystore[i]
      BY <1>0, <1>a, <1>e DEF TypeInv, Contents
    <2>6. TypeInv' /\ MutexInv'
      BY <1>0, <1>a, <1>b, <2>2, <2>3, <2>5 DEF TypeInv, MutexInv, At
    <2>7. OwnerInv'
      BY <1>0, <1>1, <1>a, <1>b, <2>2, <2>3, <2>5 DEF OwnerInv, At, New, Changes
    <2>8. SavedInv'
      BY <1>0, <1>a, <1>b, <2>2, <2>3 DEF SavedInv, At, Reported, Known
    <2>9. NamesKept' /\ IntactUnlessTorn' /\ InstallsAskedFor'
      BY <1>0, <1>a, <1>b, <2>2, <2>3, <2>5
      DEF NamesKept, IntactUnlessTorn, InstallsAskedFor, Known, At, Valid
    <2> QED BY <2>6, <2>7, <2>8, <2>9 DEF FilesInv
  <1> QED BY <1>d, <1>e DEF WriteKeystore

\* An import that failed takes its own file away, which nobody relies on.
LEMMA RemoveStep ==
  ASSUME FilesAssumption, FilesInv, NEW c \in Callers, RemoveImported(c)
  PROVE  FilesInv'
  <1>0. TypeInv /\ MutexInv /\ OwnerInv /\ SavedInv /\ NamesKept /\ IntactUnlessTorn
        /\ InstallsAskedFor
    BY DEF FilesInv
  <1>1. \A d \in Callers : /\ call[d].pc = "write" \/ call[d].op = "import" => New(d)
                           /\ New(d) => call[d].id \in Ids
    BY <1>0, AtSteps DEF New
  <1>a. /\ call[c].pc = "remove" /\ New(c) /\ call[c].id \in Ids \ Legacy
        /\ promised[call[c].id] = None /\ promised' = [promised EXCEPT ![call[c].id] = None]
        /\ UNCHANGED <<temp, manifest, manifestMu, torn>>
        /\ keystore' = [keystore EXCEPT ![call[c].id] = None] /\ Return(c)
    BY <1>0, AtSteps DEF RemoveImported, At, OwnerInv
  <1>b. promised' = promised
    BY <1>0, <1>a DEF TypeInv
  <1>2. Idle \in CallRecords /\ CallShape(Idle) /\ Idle.pc = "idle" /\ Idle.op = "idle"
    BY Types DEF Idle
  <1>3. /\ call' \in [Callers -> CallRecords] /\ \A d \in Callers : CallShape(call[d])'
        /\ call'[c] = Idle /\ \A d \in Callers \ {c} : call'[d] = call[d]
    BY <1>0, <1>a, <1>2, OneMoves DEF TypeInv, Return
  <1>4. /\ keystore' \in [Ids -> Contents]
        /\ \A i \in Ids \ {call[c].id} : keystore'[i] = keystore[i]
    BY <1>0, <1>a DEF TypeInv, Contents
  <1>5. TypeInv'
    BY <1>0, <1>a, <1>b, <1>3, <1>4 DEF TypeInv
  <1>6. MutexInv'
    BY <1>0, <1>a, <1>b, <1>2, <1>3 DEF MutexInv, At
  <1>7. OwnerInv'
    BY <1>0, <1>1, <1>a, <1>b, <1>2, <1>3, <1>4 DEF OwnerInv, At, New, Changes
  <1>8. SavedInv'
    BY <1>0, <1>a, <1>b, <1>2, <1>3 DEF SavedInv, At, Reported, Known
  <1>9. NamesKept' /\ IntactUnlessTorn' /\ InstallsAskedFor'
    BY <1>0, <1>a, <1>b, <1>2, <1>3, <1>4
    DEF NamesKept, IntactUnlessTorn, InstallsAskedFor, Known, At
  <1> QED BY <1>5, <1>6, <1>7, <1>8, <1>9 DEF FilesInv

\* Every step of a call that goes on with w, its operation, id and name kept.
LEMMA GoesOn ==
  ASSUME TypeInv, NEW c \in Callers, NEW pc, NEW m,
         call' = [call EXCEPT ![c] = Moved(call[c], pc, m)],
         Moved(call[c], pc, m) \in CallRecords, CallShape(Moved(call[c], pc, m))
  PROVE  /\ call' \in [Callers -> CallRecords] /\ \A d \in Callers : CallShape(call[d])'
         /\ \A d \in Callers \ {c} : call'[d] = call[d]
         /\ call'[c].op = call[c].op /\ call'[c].id = call[c].id /\ call'[c].name = call[c].name
         /\ call'[c].pw = call[c].pw /\ call'[c].pc = pc /\ call'[c].m = m
  <1>1. /\ call' \in [Callers -> CallRecords] /\ \A d \in Callers : CallShape(call[d])'
        /\ call'[c] = Moved(call[c], pc, m) /\ \A d \in Callers \ {c} : call'[d] = call[d]
    BY OneMoves DEF TypeInv
  <1> QED BY <1>1 DEF Moved

\* The mutex is taken and the manifest loaded; one that does not parse counts as
\* empty, and then no name was promised.
LEMMA LoadStep ==
  ASSUME FilesAssumption, FilesInv, NEW c \in Callers, LoadManifest(c)
  PROVE  FilesInv'
  <1>0. TypeInv /\ MutexInv /\ OwnerInv /\ SavedInv /\ NamesKept /\ IntactUnlessTorn
        /\ InstallsAskedFor
    BY DEF FilesInv
  <1> DEFINE m == IF manifest = Corrupt THEN NoEntries ELSE manifest
             w == Moved(call[c], "change", m)
  <1>1. m \subseteq Entries /\ m # Corrupt
    BY <1>0, Types DEF TypeInv
  <1>2. /\ manifest' = m /\ manifestMu = None /\ manifestMu' = c
        /\ UNCHANGED <<keystore, temp, promised, torn>> /\ call[c].pc = "lock"
    BY DEF LoadManifest, files, At
  <1>a. call' = [call EXCEPT ![c] = w]
    BY <1>0, MoveForms DEF TypeInv, LoadManifest
  <1>b. w \in CallRecords /\ CallShape(w)
    BY <1>0, <1>1, <1>2, AtSteps DEF Moved, CallRecords, CallShape, New, Reported
  <1>3. /\ call' \in [Callers -> CallRecords] /\ \A d \in Callers : CallShape(call[d])'
        /\ \A d \in Callers \ {c} : call'[d] = call[d]
        /\ call'[c].op = call[c].op /\ call'[c].id = call[c].id
        /\ call'[c].pw = call[c].pw /\ call'[c].pc = "change" /\ call'[c].m = manifest'
    BY <1>0, <1>2, <1>a, <1>b, GoesOn
  <1> HIDE DEF w, m
  <1>4. \A d \in Callers : call[d].pc \notin {"change", "save", "listed"}
    BY <1>0, <1>2, Types DEF MutexInv
  <1>5. TypeInv'
    BY <1>0, <1>1, <1>2, <1>3 DEF TypeInv
  <1>6. MutexInv'
    BY <1>2, <1>3, <1>4 DEF MutexInv, At
  <1>7. OwnerInv'
    BY <1>0, <1>2, <1>3 DEF OwnerInv, At, New, Changes
  <1>8. SavedInv'
    BY <1>3, <1>4 DEF SavedInv, At
  <1>9. NamesKept' /\ IntactUnlessTorn' /\ InstallsAskedFor'
    BY <1>0, <1>1, <1>2, <1>3 DEF NamesKept, IntactUnlessTorn, InstallsAskedFor, Known, At, m
  <1> QED BY <1>5, <1>6, <1>7, <1>8, <1>9 DEF FilesInv

\* A change made under the mutex that is still to be saved or shown.
LEMMA ChangeStep ==
  ASSUME FilesAssumption, FilesInv, NEW c \in Callers, At(c, "change"),
         NEW pc \in {"save", "listed"}, NEW m \in SUBSET Entries, GotoWith(c, pc, m),
         UNCHANGED <<files, manifest, manifestMu, promised, torn>>,
         pc = "listed" => call[c].op = "list",
         \A i \in Ids \ torn : promised[i] \in Names =>
           Entry(i, promised[i]) \in m \/ (call[c].op = "rename" /\ call[c].id = i),
         Reported(c) => Entry(call[c].id, call[c].name) \in m,
         call[c].op = "list" => \A i \in Ids \ torn : Known(i) => \E e \in m : e.id = i /\ ~e.tmp
  PROVE  FilesInv'
  <1>0. TypeInv /\ MutexInv /\ OwnerInv /\ SavedInv /\ NamesKept /\ IntactUnlessTorn
        /\ InstallsAskedFor
    BY DEF FilesInv
  <1> DEFINE w == Moved(call[c], pc, m)
  <1>2. UNCHANGED <<keystore, temp, promised, torn, manifest, manifestMu>> /\ call[c].pc = "change"
    BY DEF files, At
  <1>a. call' = [call EXCEPT ![c] = w]
    BY <1>0, MoveForms DEF TypeInv
  <1>b. w \in CallRecords /\ CallShape(w)
    BY <1>0, <1>2, AtSteps DEF Moved, CallRecords, CallShape, New, Reported
  <1>3. /\ call' \in [Callers -> CallRecords] /\ \A d \in Callers : CallShape(call[d])'
        /\ \A d \in Callers \ {c} : call'[d] = call[d]
        /\ call'[c].op = call[c].op /\ call'[c].id = call[c].id /\ call'[c].name = call[c].name
        /\ call'[c].pw = call[c].pw /\ call'[c].pc = pc /\ call'[c].m = m
    BY <1>0, <1>a, <1>b, GoesOn
  <1> HIDE DEF w
  <1>5. TypeInv'
    BY <1>0, <1>2, <1>3 DEF TypeInv
  <1>6. MutexInv'
    BY <1>0, <1>2, <1>3 DEF MutexInv, At
  <1>7. OwnerInv'
    BY <1>0, <1>2, <1>3 DEF OwnerInv, At, New, Changes
  <1>8. SavedInv'
    BY <1>0, <1>2, <1>3 DEF SavedInv, At, Reported, Known
  <1>9. NamesKept' /\ IntactUnlessTorn' /\ InstallsAskedFor'
    BY <1>0, <1>2, <1>3 DEF NamesKept, IntactUnlessTorn, InstallsAskedFor, Known, At
  <1> QED BY <1>5, <1>6, <1>7, <1>8, <1>9 DEF FilesInv

\* What was promised and is on disk is in the manifest that a change starts from.
LEMMA ChangeFacts ==
  ASSUME FilesAssumption, FilesInv, NEW c \in Callers, At(c, "change")
  PROVE  /\ call[c].m = manifest /\ manifest \subseteq Entries /\ manifestMu = c
         /\ \A i \in Ids \ torn : promised[i] \in Names => Entry(i, promised[i]) \in call[c].m
  <1>1. TypeInv /\ MutexInv /\ NamesKept
    BY DEF FilesInv
  <1>2. call[c] \in CallRecords /\ call[c].m = manifest /\ manifestMu = c
    BY <1>1 DEF MutexInv, At, TypeInv
  <1> QED BY <1>1, <1>2 DEF CallRecords, NamesKept

LEMMA AddStep ==
  ASSUME FilesAssumption, FilesInv, NEW c \in Callers, AddToManifest(c)
  PROVE  FilesInv'
  <1> DEFINE new == Entry(call[c].id, call[c].name)
             m == call[c].m \cup {new}
  <1>1. /\ At(c, "change") /\ call[c].op \in {"import", "create"} /\ GotoWith(c, "save", m)
        /\ UNCHANGED <<files, manifest, manifestMu, promised, torn>>
    BY DEF AddToManifest
  <1>2. new \in Entries
    BY <1>1, AtSteps, Types DEF FilesInv, New
  <1>3. m \in SUBSET Entries /\ new \in m
    BY <1>1, <1>2, ChangeFacts
  <1>4. \A i \in Ids \ torn : promised[i] \in Names => Entry(i, promised[i]) \in m
    BY <1>1, ChangeFacts
  <1> HIDE DEF m
  <1> QED BY <1>1, <1>3, <1>4, ChangeStep DEF Reported

LEMMA RenameStep ==
  ASSUME FilesAssumption, FilesInv, NEW c \in Callers, ChangeName(c)
  PROVE  FilesInv'
  <1> DEFINE new == Entry(call[c].id, call[c].name)
             found == {e \in call[c].m : SameFile(e, new)}
  <1>1. /\ At(c, "change") /\ call[c].op = "rename" /\ UNCHANGED <<files, manifest, promised, torn>>
    BY DEF ChangeName
  <1>2. call[c].id \in Ids /\ call[c].name \in Names /\ new \in Entries /\ new.id = call[c].id
    BY <1>1, AtSteps, Types DEF FilesInv, Reported
  <1>3. CASE found = {}
    <2>1. Return(c) /\ manifestMu' = None
      BY <1>3 DEF ChangeName
    <2> QED BY <1>1, <2>1, ChangeFacts, ReturnStep DEF At
  <1>4. CASE found # {}
    <2>1. PICK e \in found : GotoWith(c, "save", (call[c].m \ {e}) \cup {new})
      BY <1>4 DEF ChangeName
    <2>2. UNCHANGED manifestMu
      BY <1>4 DEF ChangeName
    <2> DEFINE m == (call[c].m \ {e}) \cup {new}
    <2>3. m \in SUBSET Entries /\ new \in m
      BY <1>1, <1>2, ChangeFacts
    <2>4. ASSUME NEW i \in Ids \ torn, promised[i] \in Names, i # call[c].id
          PROVE  Entry(i, promised[i]) \in m
      <3>1. Entry(i, promised[i]) \in call[c].m /\ Entry(i, promised[i]).id = i
        BY <1>1, <2>4, ChangeFacts, Types
      <3>2. e.id = call[c].id
        BY <1>2 DEF SameFile
      <3> QED BY <2>4, <3>1, <3>2
    <2> HIDE DEF m
    <2> QED BY <1>1, <2>1, <2>2, <2>3, <2>4, ChangeStep DEF m, Reported
  <1> QED BY <1>3, <1>4

LEMMA ReconcileStep ==
  ASSUME FilesAssumption, FilesInv, NEW c \in Callers, Reconcile(c)
  PROVE  FilesInv'
  <1> DEFINE kept == {e \in call[c].m : \E f \in OnDisk : SameFile(e, f)}
             new == {f \in OnDisk : \A e \in kept : ~SameFile(e, f)}
             m == kept \cup new
             pc == IF m = call[c].m THEN "listed" ELSE "save"
  <1>1. /\ At(c, "change") /\ call[c].op = "list" /\ GotoWith(c, pc, m)
        /\ UNCHANGED <<files, manifest, manifestMu, promised, torn>>
    BY DEF Reconcile
  <1>2. OnDisk \subseteq Entries
    BY Types DEF OnDisk
  <1>3. m \in SUBSET Entries
    BY <1>1, <1>2, ChangeFacts
  <1>4. ASSUME NEW i \in Ids \ torn, Known(i)
        PROVE  Entry(i, Stem) \in OnDisk
    BY <1>4 DEF FilesInv, IntactUnlessTorn, OnDisk
  <1>5. ASSUME NEW i \in Ids \ torn, promised[i] \in Names
        PROVE  Entry(i, promised[i]) \in m
    <2>1. Entry(i, Stem) \in OnDisk
      BY <1>4, <1>5, Types DEF Known
    <2>2. Entry(i, promised[i]) \in call[c].m
      BY <1>1, <1>5, ChangeFacts
    <2>3. SameFile(Entry(i, promised[i]), Entry(i, Stem))
      BY DEF SameFile, Entry
    <2> QED BY <2>1, <2>2, <2>3
  <1>6. ASSUME NEW i \in Ids \ torn, Known(i)
        PROVE  \E e \in m : e.id = i /\ ~e.tmp
    <2>1. Entry(i, Stem) \in OnDisk /\ Entry(i, Stem).id = i /\ Entry(i, Stem).tmp = FALSE
      BY <1>4, <1>6 DEF Entry
    <2>2. CASE \E e \in kept : SameFile(e, Entry(i, Stem))
      BY <2>1, <2>2 DEF SameFile
    <2>3. CASE Entry(i, Stem) \in new
      BY <2>1, <2>3
    <2> QED BY <2>1, <2>2, <2>3
  <1>7. pc \in {"save", "listed"}
    OBVIOUS
  <1> HIDE DEF m, pc
  <1> QED BY <1>1, <1>3, <1>5, <1>6, <1>7, ChangeStep DEF Reported

\* A manifest is installed by the call that holds the mutex.
LEMMA InstallFacts ==
  ASSUME FilesAssumption, FilesInv, NEW c \in Callers, At(c, "save")
  PROVE  /\ manifestMu = c /\ call[c].m \subseteq Entries /\ call[c].m # Corrupt
         /\ \A d \in Callers \ {c} : call[d].pc \notin {"change", "save", "listed"}
  <1>1. TypeInv /\ MutexInv /\ call[c] \in CallRecords
    BY AtSteps DEF FilesInv
  <1> QED BY <1>1, Types DEF MutexInv, At, CallRecords

\* The save of an import, a create or a rename, which then returns.
LEMMA ReportStep ==
  ASSUME FilesAssumption, FilesInv, NEW c \in Callers, At(c, "save"), Reported(c), Return(c),
         manifest' = call[c].m, manifestMu' = None,
         promised' = [promised EXCEPT ![call[c].id] = IF Stays(c) THEN call[c].name ELSE @],
         UNCHANGED <<files, torn>>
  PROVE  FilesInv'
  <1>0. TypeInv /\ MutexInv /\ OwnerInv /\ SavedInv /\ NamesKept /\ IntactUnlessTorn
        /\ InstallsAskedFor
    BY DEF FilesInv
  <1> DEFINE i == call[c].id
  <1>1. i \in Ids /\ call[c].name \in Names
    BY <1>0, AtSteps
  <1>2. Idle \in CallRecords /\ CallShape(Idle) /\ Idle.pc = "idle" /\ Idle.op = "idle"
    BY Types DEF Idle
  <1>3. /\ call' \in [Callers -> CallRecords] /\ \A d \in Callers : CallShape(call[d])'
        /\ call'[c] = Idle /\ \A d \in Callers \ {c} : call'[d] = call[d]
    BY <1>0, <1>2, OneMoves DEF TypeInv, Return
  <1>4. /\ \A j \in Ids \ {i} : promised'[j] = promised[j]
        /\ Stays(c) => promised'[i] = call[c].name
        /\ ~Stays(c) => promised'[i] = promised[i]
        /\ promised' \in [Ids -> Names \cup {None, Stem}]
        /\ UNCHANGED <<keystore, temp, torn>>
    BY <1>0, <1>1 DEF TypeInv, files
  <1>s. /\ Stays(c) => Valid(keystore[i])
        /\ Stays(c) => \A d \in Callers \ {c} : call[d].id = i => call[d].op # "import"
        /\ ~Stays(c) /\ Known(i) /\ i \notin torn => \E d \in Callers \ {c} : call[d].id = i /\ call[d].op = "import"
    BY <1>0, <1>1 DEF Stays, IntactUnlessTorn
  <1>5. TypeInv'
    BY <1>0, <1>3, <1>4, InstallFacts DEF TypeInv
  <1>6. MutexInv'
    BY <1>0, <1>2, <1>3, InstallFacts, Types DEF MutexInv, At
  <1>7. OwnerInv'
    <2>1. \A d \in Callers : call'[d].op = "import" => promised'[call'[d].id] = None
      <3>1. SUFFICES ASSUME NEW d \in Callers, call'[d].op = "import"
                     PROVE  promised'[call'[d].id] = None
        OBVIOUS
      <3>2. d # c /\ call'[d] = call[d] /\ promised[call[d].id] = None /\ New(d)
        BY <1>0, <1>2, <1>3, <3>1 DEF OwnerInv, New
      <3>3. call[d].id \in Ids
        BY <1>0, <3>2, AtSteps
      <3> QED BY <1>4, <1>s, <3>1, <3>2, <3>3
    <2> QED BY <1>0, <1>2, <1>3, <1>4, <2>1 DEF OwnerInv, At, New, Changes
  <1>8. SavedInv'
    BY <1>2, <1>3, InstallFacts DEF SavedInv, At
  <1>9. IntactUnlessTorn' /\ InstallsAskedFor'
    <2>1. IntactUnlessTorn'
      BY <1>0, <1>4, <1>s, Types DEF IntactUnlessTorn, Known, Valid
    <2>2. InstallsAskedFor'
      BY <1>0, <1>2, <1>3, <1>4 DEF InstallsAskedFor, At
    <2> QED BY <2>1, <2>2
  <1>10. NamesKept'
    <2>1. SUFFICES ASSUME NEW j \in Ids \ torn, promised'[j] \in Names
                   PROVE  Entry(j, promised'[j]) \in call[c].m
      BY <1>4, InstallFacts DEF NamesKept
    <2>2. CASE j # i
      BY <1>0, <1>4, <2>1, <2>2 DEF SavedInv
    <2>3. CASE j = i /\ Stays(c)
      BY <1>0, <1>4, <2>3 DEF SavedInv
    <2>4. CASE j = i /\ ~Stays(c)
      <3>1. promised[i] \in Names
        BY <1>4, <2>1, <2>4
      <3>2. PICK d \in Callers \ {c} : call[d].id = i /\ call[d].op = "import"
        BY <1>s, <2>1, <2>4, <3>1, Types DEF Known
      <3>3. promised[i] = None
        BY <1>0, <3>2 DEF OwnerInv
      <3> QED BY <3>1, <3>3, Types
    <2> QED BY <2>2, <2>3, <2>4
  <1> QED BY <1>5, <1>6, <1>7, <1>8, <1>9, <1>10 DEF FilesInv

\* The save of a list, and an import whose save failed.
LEMMA SaveGoesOn ==
  ASSUME FilesAssumption, FilesInv, NEW c \in Callers, At(c, "save"), UNCHANGED <<files, promised, torn>>,
         NEW pc, Goto(c, pc),
         \/ pc = "listed" /\ call[c].op = "list" /\ manifest' = call[c].m /\ manifestMu' = manifestMu
         \/ pc = "remove" /\ call[c].op = "import" /\ manifest' = manifest /\ manifestMu' = None
  PROVE  FilesInv'
  <1>0. TypeInv /\ MutexInv /\ OwnerInv /\ SavedInv /\ NamesKept /\ IntactUnlessTorn
        /\ InstallsAskedFor
    BY DEF FilesInv
  <1> DEFINE w == Moved(call[c], pc, call[c].m)
  <1>2. UNCHANGED <<keystore, temp, promised, torn>> /\ call[c].pc = "save"
    BY DEF files, At
  <1>a. call' = [call EXCEPT ![c] = w]
    BY <1>0, MoveForms DEF TypeInv
  <1>b. w \in CallRecords /\ CallShape(w)
    BY <1>0, AtSteps DEF Moved, CallRecords, CallShape, New
  <1>3. /\ call' \in [Callers -> CallRecords] /\ \A d \in Callers : CallShape(call[d])'
        /\ \A d \in Callers \ {c} : call'[d] = call[d]
        /\ call'[c].op = call[c].op /\ call'[c].id = call[c].id /\ call'[c].name = call[c].name
        /\ call'[c].pw = call[c].pw /\ call'[c].pc = pc /\ call'[c].m = call[c].m
    BY <1>0, <1>a, <1>b, GoesOn
  <1> HIDE DEF w
  <1>5. TypeInv'
    BY <1>0, <1>2, <1>3, InstallFacts DEF TypeInv
  <1>6. MutexInv'
    BY <1>0, <1>2, <1>3, InstallFacts, Types DEF MutexInv, At
  <1>7. OwnerInv'
    BY <1>0, <1>2, <1>3 DEF OwnerInv, At, New, Changes
  <1>8. SavedInv'
    BY <1>0, <1>2, <1>3, InstallFacts DEF SavedInv, At, Known
  <1>9. NamesKept' /\ IntactUnlessTorn' /\ InstallsAskedFor'
    BY <1>0, <1>2, <1>3, InstallFacts, Types
    DEF NamesKept, IntactUnlessTorn, InstallsAskedFor, Known, At, SavedInv
  <1> QED BY <1>5, <1>6, <1>7, <1>8, <1>9 DEF FilesInv

LEMMA SaveStep ==
  ASSUME FilesAssumption, FilesInv, NEW c \in Callers, SaveManifest(c)
  PROVE  FilesInv'
  <1>1. At(c, "save") /\ UNCHANGED <<files, torn>>
    BY DEF SaveManifest
  <1>2. CASE manifest' = call[c].m /\ Reported(c) /\ Return(c) /\ manifestMu' = None
             /\ promised' = [promised EXCEPT ![call[c].id] = IF Stays(c) THEN call[c].name ELSE @]
    BY <1>1, <1>2, ReportStep
  <1>3. CASE manifest' = call[c].m /\ ~Reported(c) /\ Goto(c, "listed")
             /\ UNCHANGED <<manifestMu, promised>>
    <2>1. call[c].op = "list"
      BY <1>1, <1>3, AtSteps DEF FilesInv, At
    <2> QED BY <1>1, <1>3, <2>1, SaveGoesOn
  <1>4. CASE manifestMu' = None /\ call[c].op = "import" /\ Goto(c, "remove")
             /\ UNCHANGED <<manifest, promised>>
    BY <1>1, <1>4, SaveGoesOn
  <1>5. CASE manifestMu' = None /\ Return(c) /\ UNCHANGED <<manifest, promised>>
    BY <1>1, <1>5, InstallFacts, ReturnStep DEF At
  <1> QED BY <1>2, <1>3, <1>4, <1>5 DEF SaveManifest

LEMMA ListedStep ==
  ASSUME FilesAssumption, FilesInv, NEW c \in Callers, Listed(c)
  PROVE  FilesInv'
  <1>1. manifestMu = c
    BY DEF Listed, FilesInv, MutexInv, At
  <1> QED BY <1>1, ReturnStep DEF Listed, At

\* A password change writes the temporary file, or fails to and may tear another's.
LEMMA WriteTempStep ==
  ASSUME FilesAssumption, FilesInv, NEW c \in Callers, WriteTemp(c)
  PROVE  FilesInv'
  <1>0. TypeInv /\ MutexInv /\ OwnerInv /\ SavedInv /\ NamesKept /\ IntactUnlessTorn
        /\ InstallsAskedFor
    BY DEF FilesInv
  <1>1. /\ call[c].pc = "temp" /\ Changes(c) /\ call[c].id \in Ids /\ call[c].pw \in Passwords
        /\ UNCHANGED <<keystore, manifest, manifestMu, promised>>
    BY <1>0, AtSteps DEF WriteTemp, At
  <1>2. \A d \in Callers : call[d].pc = "replace" => call[d].id \in Ids /\ call[d].pw \in Passwords
    BY <1>0, AtSteps
  <1>3. CASE temp' = [temp EXCEPT ![call[c].id] = call[c].pw] /\ Goto(c, "replace") /\ torn' = torn
    <2> DEFINE w == Moved(call[c], "replace", call[c].m)
    <2>1. call' = [call EXCEPT ![c] = w]
      BY <1>0, <1>3, MoveForms DEF TypeInv
    <2>2. w \in CallRecords /\ CallShape(w)
      BY <1>0, <1>1, AtSteps DEF Moved, CallRecords, CallShape, Changes
    <2>3. /\ call' \in [Callers -> CallRecords] /\ \A d \in Callers : CallShape(call[d])'
          /\ \A d \in Callers \ {c} : call'[d] = call[d]
          /\ call'[c].op = call[c].op /\ call'[c].id = call[c].id
          /\ call'[c].pw = call[c].pw /\ call'[c].pc = "replace"
      BY <1>0, <2>1, <2>2, GoesOn
    <2> HIDE DEF w
    <2>4. /\ temp' \in [Ids -> Contents] /\ temp'[call[c].id] = call[c].pw
          /\ \A j \in Ids \ {call[c].id} : temp'[j] = temp[j]
      BY <1>0, <1>1, <1>3 DEF TypeInv, Contents
    <2>5. TypeInv' /\ MutexInv'
      BY <1>0, <1>1, <1>3, <2>3, <2>4 DEF TypeInv, MutexInv, At
    <2>6. OwnerInv' /\ SavedInv'
      BY <1>0, <1>1, <1>3, <2>3 DEF OwnerInv, SavedInv, At, New, Changes, Reported, Known
    <2>7. NamesKept' /\ IntactUnlessTorn' /\ InstallsAskedFor'
      BY <1>0, <1>1, <1>2, <1>3, <2>3, <2>4
      DEF NamesKept, IntactUnlessTorn, InstallsAskedFor, Known, At
    <2> QED BY <2>5, <2>6, <2>7 DEF FilesInv
  <1>4. CASE temp' = [temp EXCEPT ![call[c].id] = Partial] /\ Return(c)
             /\ torn' = torn \cup {i \in {call[c].id} : \E d \in Callers : At(d, "replace") /\ call[d].id = i}
    <2>2. Idle \in CallRecords /\ CallShape(Idle) /\ Idle.pc = "idle" /\ Idle.op = "idle"
      BY Types DEF Idle
    <2>3. /\ call' \in [Callers -> CallRecords] /\ \A d \in Callers : CallShape(call[d])'
          /\ call'[c] = Idle /\ \A d \in Callers \ {c} : call'[d] = call[d]
      BY <1>0, <1>4, <2>2, OneMoves DEF TypeInv, Return
    <2>4. /\ temp' \in [Ids -> Contents] /\ \A j \in Ids \ {call[c].id} : temp'[j] = temp[j]
          /\ torn \subseteq torn' /\ torn' \subseteq Ids
          /\ \A d \in Callers : call[d].pc = "replace" /\ call[d].id = call[c].id => call[c].id \in torn'
      BY <1>0, <1>1, <1>4 DEF TypeInv, Contents, At
    <2>5. TypeInv' /\ MutexInv'
      BY <1>0, <1>1, <2>2, <2>3, <2>4 DEF TypeInv, MutexInv, At
    <2>6. OwnerInv' /\ SavedInv'
      BY <1>0, <1>1, <2>2, <2>3, <2>4 DEF OwnerInv, SavedInv, At, New, Changes, Reported, Known
    <2>7. NamesKept' /\ IntactUnlessTorn' /\ InstallsAskedFor'
      BY <1>0, <1>1, <1>2, <2>2, <2>3, <2>4
      DEF NamesKept, IntactUnlessTorn, InstallsAskedFor, Known, At
    <2> QED BY <2>5, <2>6, <2>7 DEF FilesInv
  <1> QED BY <1>3, <1>4 DEF WriteTemp

\* What replaces the keystore is what a change under way wrote, or it is torn.
LEMMA ReplaceStep ==
  ASSUME FilesAssumption, FilesInv, NEW c \in Callers, ReplaceKeystore(c)
  PROVE  FilesInv'
  <1>0. TypeInv /\ MutexInv /\ OwnerInv /\ SavedInv /\ NamesKept /\ IntactUnlessTorn
        /\ InstallsAskedFor
    BY DEF FilesInv
  <1> DEFINE i == call[c].id
  <1>1. /\ call[c].pc = "replace" /\ Changes(c) /\ i \in Ids
        /\ UNCHANGED <<manifest, manifestMu, promised, torn>> /\ Return(c)
    BY <1>0, AtSteps DEF ReplaceKeystore, At
  <1>2. CASE temp[i] = None
    <2>1. UNCHANGED files
      BY <1>2 DEF ReplaceKeystore
    <2>2. manifestMu # c
      BY <1>0, <1>1 DEF MutexInv
    <2>3. UNCHANGED <<files, manifest, promised, torn>> /\ manifestMu' = manifestMu
      BY <1>1, <2>1
    <2>4. manifestMu' = IF manifestMu = c THEN None ELSE manifestMu
      BY <2>2, <2>3
    <2> QED BY <1>1, <1>2, <2>3, <2>4, ReturnStep
  <1>3. CASE temp[i] # None
    <2>1. i \in torn \/ Valid(temp[i])
      <3>1. \A d \in Callers : At(d, "replace") => call[d].pw \in Passwords
        BY <1>0, AtSteps DEF At
      <3> QED BY <1>0, <1>1, <1>3, <3>1 DEF InstallsAskedFor, At, Valid
    <2>2. /\ keystore' \in [Ids -> Contents] /\ temp' \in [Ids -> Contents]
          /\ keystore'[i] = temp[i] /\ temp'[i] = None
          /\ \A j \in Ids \ {i} : keystore'[j] = keystore[j] /\ temp'[j] = temp[j]
      BY <1>0, <1>1, <1>3 DEF ReplaceKeystore, TypeInv, Contents
    <2>3. Idle \in CallRecords /\ CallShape(Idle) /\ Idle.pc = "idle" /\ Idle.op = "idle"
      BY Types DEF Idle
    <2>4. /\ call' \in [Callers -> CallRecords] /\ \A d \in Callers : CallShape(call[d])'
          /\ call'[c] = Idle /\ \A d \in Callers \ {c} : call'[d] = call[d]
      BY <1>0, <1>1, <2>3, OneMoves DEF TypeInv, Return
    <2>5. \A d \in Callers : call[d].pc = "write" => call[d].id \in Ids \ {i}
      BY <1>0, <1>1, AtSteps DEF OwnerInv, At
    <2>6. \A d \in Callers : call[d].pc = "replace" => call[d].id \in Ids
      BY <1>0, AtSteps
    <2>7. TypeInv' /\ MutexInv'
      BY <1>0, <1>1, <2>2, <2>3, <2>4 DEF TypeInv, MutexInv, At
    <2>8. OwnerInv'
      BY <1>0, <1>1, <2>2, <2>3, <2>4, <2>5 DEF OwnerInv, At, New, Changes
    <2>9. SavedInv'
      BY <1>0, <1>1, <2>3, <2>4 DEF SavedInv, At, Reported, Known
    <2>10. NamesKept' /\ IntactUnlessTorn'
      BY <1>0, <1>1, <1>3, <2>1, <2>2 DEF NamesKept, IntactUnlessTorn, Known, Valid
    <2>11. InstallsAskedFor'
      BY <1>0, <1>1, <2>2, <2>3, <2>4, <2>6 DEF InstallsAskedFor, At
    <2> QED BY <2>7, <2>8, <2>9, <2>10, <2>11 DEF FilesInv
  <1> QED BY <1>2, <1>3

LEMMA CrashStep == ASSUME FilesAssumption, FilesInv, Crash PROVE FilesInv'
  <1>0. TypeInv /\ NamesKept /\ IntactUnlessTorn
    BY DEF FilesInv
  <1>1. UNCHANGED <<keystore, temp, manifest, promised, torn>> /\ manifestMu' = None
    BY DEF Crash, files
  <1>2. Idle.pc = "idle" /\ Idle.op = "idle" /\ call' = [c \in Callers |-> Idle]
    BY DEF Idle, Crash
  <1>3. TypeInv' /\ MutexInv' /\ OwnerInv' /\ SavedInv'
    BY <1>0, <1>1, <1>2, Types
    DEF TypeInv, MutexInv, OwnerInv, SavedInv, At, New, Changes, Reported
  <1>4. NamesKept' /\ IntactUnlessTorn' /\ InstallsAskedFor'
    BY <1>0, <1>1, <1>2 DEF NamesKept, IntactUnlessTorn, InstallsAskedFor, Known, At
  <1> QED BY <1>3, <1>4 DEF FilesInv

\* No call is between the load and the save, and no name is promised any more.
LEMMA CorruptStep == ASSUME FilesAssumption, FilesInv, CorruptManifest PROVE FilesInv'
  <1>0. TypeInv /\ MutexInv /\ OwnerInv /\ SavedInv /\ NamesKept /\ IntactUnlessTorn
        /\ InstallsAskedFor
    BY DEF FilesInv
  <1>1. /\ UNCHANGED <<keystore, temp, torn, manifestMu, call>> /\ manifestMu = None /\ manifest' = Corrupt
        /\ promised' = [i \in Ids |-> IF promised[i] = None THEN None ELSE Stem]
    BY DEF CorruptManifest, files
  <1>2. \A c \in Callers : call[c].pc \notin {"change", "save", "listed"}
    BY <1>0, <1>1, Types DEF MutexInv
  <1>3. \A c \in Callers : call[c].op = "import" => call[c].id \in Ids
    BY <1>0, AtSteps DEF New
  <1>4. \A i \in Ids : promised'[i] \notin Names /\ (promised'[i] = None <=> promised[i] = None)
    BY <1>0, <1>1, Types DEF TypeInv, FilesAssumption
  <1>5. TypeInv' /\ MutexInv' /\ SavedInv'
    BY <1>0, <1>1, <1>2 DEF TypeInv, MutexInv, SavedInv, At
  <1>6. OwnerInv' /\ NamesKept' /\ IntactUnlessTorn' /\ InstallsAskedFor'
    BY <1>0, <1>1, <1>3, <1>4
    DEF OwnerInv, NamesKept, IntactUnlessTorn, InstallsAskedFor, Known, At, New, Changes
  <1> QED BY <1>5, <1>6 DEF FilesInv

LEMMA CallStep ==
  ASSUME FilesAssumption, FilesInv, NEW c \in Callers, Call(c)
  PROVE  FilesInv'
  <1>1. ASSUME NEW i \in Ids, NEW n \in Names, ImportKeystore(c, i, n) \/ ImportMnemonic(c, i, n)
        PROVE  FilesInv'
    BY <1>1, NewStep DEF ImportKeystore, ImportMnemonic
  <1>2. ASSUME NEW i \in Ids, NEW n \in Names, RenameWallet(c, i, n)
        PROVE  FilesInv'
    BY <1>2, BeginStep DEF RenameWallet
  <1>3. CASE ListWallets(c)
    BY <1>3, BeginStep DEF ListWallets
  <1>4. ASSUME NEW i \in Ids, NEW old \in Passwords, NEW new \in Passwords,
               ChangePassword(c, i, old, new)
        PROVE  FilesInv'
    BY <1>4, BeginStep DEF ChangePassword, Changes
  <1> QED BY <1>1, <1>2, <1>3, <1>4 DEF Call

LEMMA NextStep == ASSUME FilesAssumption, FilesInv, [Next]_vars PROVE FilesInv'
  <1>1. ASSUME NEW c \in Callers, Continue(c) PROVE FilesInv'
    BY <1>1, WriteKeystoreStep, RemoveStep, LoadStep, AddStep, RenameStep, ReconcileStep, SaveStep,
       ListedStep, WriteTempStep, ReplaceStep DEF Continue
  <1>2. CASE UNCHANGED vars
    BY <1>2 DEF vars, files, FilesInv, TypeInv, MutexInv, OwnerInv, SavedInv, NamesKept,
       IntactUnlessTorn, InstallsAskedFor, Known, At, New, Changes, Reported
  <1> QED BY <1>1, <1>2, CallStep, CrashStep, CorruptStep DEF Next

-----------------------------------------------------------------------------
(* The theorems.  FilesAssumption is what every instance is checked for.   *)

\* FilesInv holds in every state that wallet_service.go can reach.
THEOREM FilesInvariant ==
  ASSUME FilesAssumption
  PROVE  Spec => []FilesInv
  <1>1. Init => FilesInv
    BY InitInv
  <1>2. FilesInv /\ [Next]_vars => FilesInv'
    BY NextStep
  <1> QED BY <1>1, <1>2, PTL DEF Spec

\* The files, the manifest and every call keep their types, and at most one call
\* is between the load and the save of the manifest (manifestMu).
THEOREM FilesTypes ==
  ASSUME FilesAssumption
  PROVE  Spec => []TypeOK
  <1>1. ASSUME FilesInv PROVE TypeOK
    <2>1. TypeInv /\ MutexInv
      BY <1>1 DEF FilesInv
    <2>2. \A c \in Callers : call[c] \in CallRecords
      BY <2>1 DEF TypeInv
    <2>3. \A c \in Callers : call[c].pc \in {"change", "save", "listed"} <=> manifestMu = c
      BY <2>1 DEF MutexInv
    <2>4. /\ keystore \in [Ids -> Contents] /\ temp \in [Ids -> Contents]
          /\ manifest = Corrupt \/ manifest \subseteq Entries
          /\ promised \in [Ids -> Names \cup {None, Stem}] /\ torn \subseteq Ids
      BY <2>1 DEF TypeInv
    <2> QED BY <2>2, <2>3, <2>4 DEF TypeOK, CallRecords
  <1> QED BY <1>1, FilesInvariant, PTL

\* A keystore the user relies on is there and can be decrypted, whichever changes
\* overlap and whichever write failed or was interrupted, unless a change failed to
\* write the temporary file another was about to install (ChangePassword).
THEOREM KeystoreAlwaysIntact ==
  ASSUME FilesAssumption
  PROVE  Spec => []IntactUnlessTorn
  <1>1. FilesInv => IntactUnlessTorn
    BY DEF FilesInv
  <1> QED BY <1>1, FilesInvariant, PTL

\* A password change installs the complete file of a change that is under way,
\* whatever an earlier one left behind, unless it is torn (ChangePassword).
THEOREM AskedForInstalled ==
  ASSUME FilesAssumption
  PROVE  Spec => []InstallsAskedFor
  <1>1. FilesInv => InstallsAskedFor
    BY DEF FilesInv
  <1> QED BY <1>1, FilesInvariant, PTL

\* A reported import or rename is never lost to another writer or to a crash,
\* unless its keystore is torn (saveManifest's callers).
THEOREM NamesAlwaysKept ==
  ASSUME FilesAssumption
  PROVE  Spec => []NamesKept
  <1>1. FilesInv => NamesKept
    BY DEF FilesInv
  <1> QED BY <1>1, FilesInvariant, PTL

\* A list shows every wallet the user has whose keystore is not torn, whatever
\* happened to the manifest (ListWallets over the files on disk).
THEOREM EveryWalletListed ==
  ASSUME FilesAssumption
  PROVE  Spec => []ListedAll
  <1>1. ASSUME FilesInv PROVE ListedAll
    <2>1. TypeInv /\ SavedInv
      BY <1>1 DEF FilesInv
    <2>2. \A c \in Callers : At(c, "listed") => call[c].op = "list"
      BY <2>1, AtSteps DEF At
    <2> QED BY <2>1, <2>2 DEF ListedAll, SavedInv, At
  <1> QED BY <1>1, FilesInvariant, PTL
=============================================================================
