---------------------------- MODULE SettingsFile -----------------------------
(***************************************************************************)
(* What the settings file says (app/config_service.go, contacts.go): files *)
(* of earlier versions are migrated at every read, and every setter writes *)
(* the whole migrated file back.  How the file is written is AtomicFile's. *)
(*                                                                         *)
(* An address is an account and its spelling; one that does not parse is   *)
(* an account of its own.  touched is a record of the model only.          *)
(***************************************************************************)
EXTENDS Integers, SequencesExt, FiniteSets

CONSTANTS
  Accounts, Junk,          \* accounts, and the strings that are no address
  Names, Unset,            \* names of contacts; Unset is an absent field
  Urls, DefaultUrl,        \* node URLs
  AutoLocks, DefaultLock,  \* minutes, 0 for never
  MinCount, MaxCount,      \* accountRange, maxAccounts
  Others,                  \* the fields of the setters that only assign
  MaxContacts              \* bound

DefaultsAssumption == DefaultUrl \in Urls /\ DefaultLock \in AutoLocks
UnsetAssumption == Unset \notin Urls /\ Unset \notin AutoLocks /\ Accounts \cap Junk = {}
BoundsAssumption == MaxContacts \in Nat /\ MinCount \in Nat /\ MaxCount \in Nat /\ MinCount <= MaxCount

Spellings == {"lower", "upper"}
Addresses == (Accounts \X Spellings) \cup (Junk \X {"raw"})
Modes == {"remote", "embedded"}

VARIABLES
  file,      \* settings.json
  touched    \* the field the last call was about
vars == <<file, touched>>

\* Files of this version and of earlier ones: the removed local mode, the
\* single nodeUrl, no timeout, counts out of range, addresses spelled freely.
Init ==
  /\ touched = "none"
  /\ file \in [nodeMode : Modes \cup {"local", Unset}, remoteNodeUrl : Urls \cup {Unset},
               nodeUrl : Urls \cup {Unset}, autoLock : AutoLocks \cup {Unset},
               counts : {0, MinCount, MaxCount + 1}, others : [Others -> {0, 1}],
               contacts : {<<>>} \cup {<<[name |-> n, address |-> a]>> : n \in Names, a \in Addresses}
                 \cup {<<[name |-> n, address |-> a], [name |-> n, address |-> b]>> :
                        n \in Names, a \in Addresses, b \in Addresses}]
  /\ \A i, j \in DOMAIN file.contacts : i # j => file.contacts[i].address # file.contacts[j].address

-----------------------------------------------------------------------------
(* Reading.                                                                *)

\* Mutant: the old URL is dropped before it is taken over.
MigrateForgetful(s) ==
  [s EXCEPT !.remoteNodeUrl = IF @ # Unset THEN @ ELSE DefaultUrl,
            !.nodeMode = IF @ \in Modes THEN @ ELSE "remote",
            !.autoLock = IF @ # Unset THEN @ ELSE DefaultLock,
            !.nodeUrl = Unset]

\* migrateSettings.
Migrate(s) ==
  [s EXCEPT !.remoteNodeUrl = IF @ # Unset THEN @ ELSE IF s.nodeUrl # Unset THEN s.nodeUrl ELSE DefaultUrl,
            !.nodeMode = IF @ \in Modes THEN @ ELSE "remote",
            !.autoLock = IF @ # Unset THEN @ ELSE DefaultLock,
            !.nodeUrl = Unset]

canonicalAddress(a) == IF a[1] \in Accounts THEN <<a[1], "lower">> ELSE a

accountCountFor(s) ==
  IF s.counts < MinCount THEN MinCount ELSE IF s.counts > MaxCount THEN MaxCount ELSE s.counts

-----------------------------------------------------------------------------
(* Writing: each setter changes its field of the migrated settings.        *)

Update(field, s) == file' = s /\ touched' = field

SetNodeMode(m) == Update("nodeMode", [Migrate(file) EXCEPT !.nodeMode = m])
SetNodeURL(u) == Update("remoteNodeUrl", [Migrate(file) EXCEPT !.remoteNodeUrl = u])
SetAutoLockMinutes(n) == Update("autoLock", [Migrate(file) EXCEPT !.autoLock = n])

\* SetChainID, SetAllowMainnetSend, SetAutoReceive, SetShowGovernance, and the
\* account, wallet and labels that are remembered.
SetOther(f, v) == Update("others", [Migrate(file) EXCEPT !.others[f] = v])

AddAccount ==
  /\ accountCountFor(file) < MaxCount
  /\ Update("counts", [Migrate(file) EXCEPT !.counts = accountCountFor(file) + 1])

\* The first entry of the address is renamed, or a new one is added in
\* canonical form; an address that does not parse is refused.
AddContact(n, a) ==
  /\ a[1] \in Accounts
  /\ LET same == {i \in DOMAIN file.contacts : canonicalAddress(file.contacts[i].address) = canonicalAddress(a)}
         first == CHOOSE i \in same : \A j \in same : i <= j IN
       IF same # {}
       THEN Update("contacts", [Migrate(file) EXCEPT !.contacts[first].name = n])
       ELSE /\ Len(file.contacts) < MaxContacts
            /\ Update("contacts", [Migrate(file) EXCEPT
                 !.contacts = Append(@, [name |-> n, address |-> canonicalAddress(a)])])

\* Mutant: the entries are compared as they are spelled.
DeleteAsSpelled(a) ==
  Update("contacts", [Migrate(file) EXCEPT !.contacts = SelectSeq(@, LAMBDA c : c.address # canonicalAddress(a))])

\* Every spelling of the address goes.
DeleteContact(a) ==
  Update("contacts", [Migrate(file) EXCEPT
    !.contacts = SelectSeq(@, LAMBDA c : canonicalAddress(c.address) # canonicalAddress(a))])

Next ==
  \/ \E m \in Modes : SetNodeMode(m)
  \/ \E u \in Urls : SetNodeURL(u)
  \/ \E n \in AutoLocks : SetAutoLockMinutes(n)
  \/ AddAccount
  \/ \E f \in Others, v \in {0, 1} : SetOther(f, v)
  \/ \E a \in Addresses : DeleteContact(a) \/ \E n \in Names : AddContact(n, a)

Spec == Init /\ [][Next]_vars

-----------------------------------------------------------------------------
(* Properties.                                                             *)

\* Every field keeps its type, also those a file of an earlier version lacks,
\* and no address is in the book twice under one spelling.
TypeOK ==
  /\ file.nodeMode \in Modes \cup {"local", Unset}
  /\ {file.remoteNodeUrl, file.nodeUrl} \subseteq Urls \cup {Unset}
  /\ file.autoLock \in AutoLocks \cup {Unset} /\ file.others \in [Others -> {0, 1}]
  /\ \A i, j \in DOMAIN file.contacts :
       /\ file.contacts[i] \in [name : Names, address : Addresses]
       /\ i # j => file.contacts[i].address # file.contacts[j].address

\* What the user has chosen, whatever version wrote the file.
Chosen(s) ==
  [nodeMode |-> IF s.nodeMode = "embedded" THEN "embedded" ELSE "remote",
   remoteNodeUrl |-> IF s.remoteNodeUrl # Unset THEN s.remoteNodeUrl
                     ELSE IF s.nodeUrl # Unset THEN s.nodeUrl ELSE DefaultUrl,
   autoLock |-> IF s.autoLock = Unset THEN DefaultLock ELSE s.autoLock,
   counts |-> s.counts, contacts |-> s.contacts, others |-> s.others]

\* A setter changes its own field, and the migration that every write goes
\* through changes no choice: not the URL of the old format, not "never"
\* (setSettingsLocked: never clobber fields it doesn't own).
OwnFieldOnlyStep ==
  LET before == Chosen(file) after == Chosen(file') IN
    \A f \in DOMAIN before : before[f] # after[f] => f = touched'
OwnFieldOnly == [][OwnFieldOnlyStep]_vars

Entries(cs, acct) == {i \in DOMAIN cs : cs[i].address[1] = acct}

\* However the file and the call spell the address: a delete leaves no entry of
\* the account, not one of an older file in another spelling; an addition leaves
\* as many as there were and at least one, under the new name; and neither touches
\* another account's (AddContact, DeleteContact: case variants of one address
\* cannot create duplicate entries, and match).
OneEntryPerAccountStep ==
  LET old(acct) == Entries(file.contacts, acct)
      new(acct) == Entries(file'.contacts, acct)
      others(cs, acct) == SelectSeq(cs, LAMBDA c : c.address[1] # acct)
      only(acct) == others(file'.contacts, acct) = others(file.contacts, acct)
  IN  \A a \in Addresses :
        /\ DeleteContact(a) => new(a[1]) = {} /\ only(a[1])
        /\ \A n \in Names : AddContact(n, a) =>
             /\ Cardinality(new(a[1])) = Max({1, Cardinality(old(a[1]))}) /\ only(a[1])
             /\ \E k \in new(a[1]) : file'.contacts[k].name = n
OneEntryPerAccount == [][OneEntryPerAccountStep]_vars

\* An account goes by one name once it has been renamed (AddContact:
\* replacing any existing entry with the same address).
RenamedEverywhere ==
  [][\A acct \in Accounts :
       LET old == Entries(file.contacts, acct) new == Entries(file'.contacts, acct) IN
         (old # {} /\ \E i \in new : i \in old /\ file'.contacts[i].name # file.contacts[i].name)
           => \A i, j \in new : file'.contacts[i].name = file'.contacts[j].name]_vars
=============================================================================
