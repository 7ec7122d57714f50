----------------------------- MODULE TxHistory ------------------------------
(***************************************************************************)
(* The history pages (frontend/src/stores/txs.ts): a buffer of the chunks  *)
(* fetched so far, extended page by page by ensure(), rebuilt by load() on *)
(* every momentum and account switch, with fetches that may overlap.       *)
(*                                                                         *)
(* A chunk is its account and its index; rows says how many of its records *)
(* the filter lets through.  A displayed page has one row.  The epoch of a *)
(* fetch is a mark that an account switch clears.                          *)
(***************************************************************************)
EXTENDS Integers, SequencesExt

CONSTANTS
  Accounts, NoAccount,
  Turns,              \* the calls of goto that may overlap
  Chunks,             \* chunks of an account's history
  MaxChunks,          \* MAX_CHUNKS
  MaxRows, MaxPage,   \* bounds: visible rows of a chunk, pages turned to
  FetchFails,         \* whether a fetch may fail
  NodeLies            \* whether the node claims more for ever

ChunksAssumption == Chunks \in Nat \ {0} /\ MaxChunks \in Nat \ {0}
BoundsAssumption == MaxRows \in Nat /\ MaxPage \in Nat
AccountAssumption == NoAccount \notin Accounts
FlagsAssumption == {FetchFails, NodeLies} \subseteq BOOLEAN

VARIABLES
  account, rows,                     \* the backend: active account, its history
  buffer, chunkIndex, hasMoreBlocks, page,   \* the store
  ensures,                           \* each ensure's fetch
  loading,                           \* load's fetch, and the chunks it collected
  reload,                            \* a load is due
  failed,                            \* accounts one of whose fetches failed since the last load
  mixed                              \* fetches of the active account overlapped, and no load
                                     \* has landed alone since (a record of the model)

store == <<buffer, chunkIndex, hasMoreBlocks, page>>
vars == <<account, rows, store, ensures, loading, reload, failed, mixed>>

Done == [account |-> NoAccount, index |-> 0, current |-> FALSE]
NotLoading == [account |-> NoAccount, current |-> FALSE, fresh |-> <<>>]

Init ==
  /\ account \in Accounts
  /\ rows \in [Accounts -> [0..Chunks - 1 -> 0..MaxRows]]
  /\ buffer = <<>> /\ chunkIndex = 0 /\ hasMoreBlocks = TRUE /\ page = 0
  /\ ensures = [t \in Turns |-> Done]
  /\ loading = NotLoading /\ reload = TRUE /\ failed = {} /\ mixed = FALSE

Chunk(a, i) == <<a, i>>
RowsOf(c) == IF c[2] < Chunks THEN rows[c[1]][c[2]] ELSE 0
Rows(buf) == FoldSeq(LAMBDA c, n : n + RowsOf(c), 0, buf)

\* Mutant: the last chunk is taken for the one before it.
HasMoreShort(i) == NodeLies \/ i + 2 < Chunks

\* What GetTransactions says of the blocks after chunk i.
HasMore(i) == NodeLies \/ i + 1 < Chunks

-----------------------------------------------------------------------------
(* ensure: fetch until the page is full and the next one is known.         *)

Wants(buf, p, more) == Rows(buf) <= p + 1 /\ more

Fetch(t, i) == ensures' = [ensures EXCEPT ![t] = [account |-> account, index |-> i, current |-> TRUE]]
End(t) == ensures' = [ensures EXCEPT ![t] = Done]

\* fetchChunk's own guard.
Continue(t, buf, p, more, i) ==
  IF Wants(buf, p, more) /\ i < MaxChunks THEN Fetch(t, i) ELSE End(t)

AnyFetch == loading # NotLoading \/ \E t \in Turns : ensures[t] # Done
Current == loading.current \/ \E t \in Turns : ensures[t].current

Goto(t, p) ==
  /\ ensures[t] = Done
  /\ p < page \/ (p = page + 1 /\ Rows(buffer) > page + 1)
  /\ page' = p
  /\ Continue(t, buffer, p, hasMoreBlocks, chunkIndex)
  /\ mixed' = (mixed \/ (Current /\ ensures'[t] # Done))
  /\ UNCHANGED <<account, rows, buffer, chunkIndex, hasMoreBlocks, loading, reload, failed>>

\* Mutant: the cap is compared with the chunks before this one only.
FetchedUncapped(t) ==
  /\ ensures[t].current
  /\ buffer' = Append(buffer, Chunk(ensures[t].account, ensures[t].index))
  /\ hasMoreBlocks' = HasMore(ensures[t].index)
  /\ chunkIndex' = chunkIndex + 1
  /\ IF Wants(buffer', page, hasMoreBlocks') /\ chunkIndex' <= MaxChunks THEN Fetch(t, chunkIndex') ELSE End(t)
  /\ UNCHANGED <<account, rows, page, loading, reload, failed, mixed>>

\* Mutant: a chunk of another account is kept.
FetchedAny(t) ==
  /\ ensures[t] # Done
  /\ buffer' = Append(buffer, Chunk(ensures[t].account, ensures[t].index))
  /\ hasMoreBlocks' = (HasMore(ensures[t].index) /\ chunkIndex + 1 < MaxChunks)
  /\ chunkIndex' = chunkIndex + 1
  /\ Continue(t, buffer', page, hasMoreBlocks', chunkIndex')
  /\ UNCHANGED <<account, rows, page, loading, reload, failed, mixed>>

\* Mutant: a chunk without a visible row does not advance the index.
FetchedVisible(t) ==
  /\ ensures[t].current
  /\ LET n == IF RowsOf(Chunk(ensures[t].account, ensures[t].index)) = 0 THEN 0 ELSE 1 IN
       /\ buffer' = IF n = 0 THEN buffer ELSE Append(buffer, Chunk(ensures[t].account, ensures[t].index))
       /\ chunkIndex' = chunkIndex + n
  /\ hasMoreBlocks' = (HasMore(ensures[t].index) /\ chunkIndex + 1 < MaxChunks)
  /\ Continue(t, buffer', page, hasMoreBlocks', chunkIndex')
  /\ UNCHANGED <<account, rows, page, loading, reload, failed, mixed>>

\* An answer is appended at the index the store has by then.
Fetched(t) ==
  /\ ensures[t].current
  /\ buffer' = Append(buffer, Chunk(ensures[t].account, ensures[t].index))
  /\ hasMoreBlocks' = (HasMore(ensures[t].index) /\ chunkIndex + 1 < MaxChunks)
  /\ chunkIndex' = chunkIndex + 1
  /\ Continue(t, buffer', page, hasMoreBlocks', chunkIndex')
  /\ UNCHANGED <<account, rows, page, loading, reload, failed, mixed>>

FetchedStale(t) ==
  /\ ensures[t] # Done /\ ~ensures[t].current
  /\ End(t)
  /\ UNCHANGED <<account, rows, store, loading, reload, failed, mixed>>

\* The catch does not look at the epoch.
FetchFailed(t) ==
  /\ FetchFails /\ ensures[t] # Done
  /\ hasMoreBlocks' = FALSE
  /\ failed' = failed \cup {ensures[t].account}
  /\ End(t)
  /\ UNCHANGED <<account, rows, buffer, chunkIndex, page, loading, reload, mixed>>

-----------------------------------------------------------------------------
(* load: a fresh buffer, swapped in at once.                               *)

StartLoad ==
  /\ reload /\ loading = NotLoading
  /\ reload' = FALSE /\ mixed' = (mixed \/ Current)
  /\ loading' = [account |-> account, current |-> TRUE, fresh |-> <<>>]
  /\ UNCHANGED <<account, rows, store, ensures, failed>>

\* The index reached and whether more is there, for what load collected.
Swap(fresh, more) ==
  /\ loading' = NotLoading
  /\ IF loading.current
     THEN /\ buffer' = fresh /\ chunkIndex' = Len(fresh)
          /\ hasMoreBlocks' = (more /\ Len(fresh) < MaxChunks)
          /\ mixed' = \E t \in Turns : ensures[t].current
     ELSE UNCHANGED <<buffer, chunkIndex, hasMoreBlocks, mixed>>

LoadFetched ==
  /\ loading # NotLoading
  /\ LET i == Len(loading.fresh)
         fresh == Append(loading.fresh, Chunk(loading.account, i)) IN
       IF Wants(fresh, page, HasMore(i)) /\ i + 1 < MaxChunks
       THEN loading' = [loading EXCEPT !.fresh = fresh] /\ UNCHANGED <<buffer, chunkIndex, hasMoreBlocks, failed, mixed>>
       ELSE Swap(fresh, HasMore(i)) /\ failed' = IF loading.current THEN {} ELSE failed
  /\ UNCHANGED <<account, rows, page, ensures, reload>>

LoadFailed ==
  /\ FetchFails /\ loading # NotLoading
  /\ Swap(loading.fresh, FALSE)
  /\ failed' = IF loading.current THEN {loading.account} ELSE failed
  /\ UNCHANGED <<account, rows, page, ensures, reload>>

\* The epoch moves, the page is reset, and the shell's refresh loads.
SwitchAccount(a) ==
  /\ a # account /\ account' = a
  /\ page' = 0 /\ reload' = TRUE
  /\ ensures' = [t \in Turns |-> IF ensures[t] = Done THEN Done ELSE [ensures[t] EXCEPT !.current = FALSE]]
  /\ loading' = IF loading = NotLoading THEN NotLoading ELSE [loading EXCEPT !.current = FALSE]
  /\ UNCHANGED <<rows, buffer, chunkIndex, hasMoreBlocks, failed, mixed>>

Tick ==
  /\ reload' = TRUE
  /\ UNCHANGED <<account, rows, store, ensures, loading, failed, mixed>>

-----------------------------------------------------------------------------
Answers == \E t \in Turns : Fetched(t) \/ FetchedStale(t) \/ FetchFailed(t)

Next ==
  \/ Answers \/ StartLoad \/ LoadFetched \/ LoadFailed
  \/ \E t \in Turns, p \in 0..MaxPage : Goto(t, p)
  \/ (\E a \in Accounts : SwitchAccount(a)) \/ Tick

Spec == Init /\ [][Next]_vars

(* Fetches are answered, and a load that is due starts.                    *)
FairSpec ==
  /\ Spec /\ WF_vars(StartLoad) /\ WF_vars(LoadFetched \/ LoadFailed)
  /\ \A t \in Turns : WF_vars(Fetched(t) \/ FetchedStale(t) \/ FetchFailed(t))

-----------------------------------------------------------------------------
(* Properties.                                                             *)

\* Every field keeps its type, and the store stays under its cap whatever the
\* node claims, unless fetches overlapped (MAX_CHUNKS).
TypeOK ==
  /\ account \in Accounts /\ page \in 0..MaxPage /\ {hasMoreBlocks, mixed} \subseteq BOOLEAN
  /\ buffer \in Seq(Accounts \X (0..MaxChunks - 1)) /\ chunkIndex = Len(buffer)
  /\ mixed \/ chunkIndex <= MaxChunks

Quiet == ~AnyFetch /\ ~reload

\* What the store keeps its fields for: the buffer is the first chunks of the
\* active account, each once and in order, and chunkIndex is the next one (state:
\* next backend page index).  A page turned to while a chunk is fetched breaks it.
PagesInOrder == Quiet => buffer = [i \in 1..chunkIndex |-> Chunk(account, i - 1)]

\* It holds until fetches of the active account overlap, and again from the next
\* load that lands alone, through switches, momentums and failures.
OrderRestored == mixed \/ PagesInOrder

\* What the epoch is for: when no fetch is under way, the store stops asking for
\* more only at the end of the active account's history, at the cap, or after a
\* fetch of this account failed (requestEpoch.ts: discards the response if it
\* changed).  The failure of another account's fetch breaks it.
MoreUnlessFailed ==
  Quiet => hasMoreBlocks \/ account \in failed \/ chunkIndex >= Chunks \/ chunkIndex >= MaxChunks

\* Until fetches overlap, and from the next load that lands alone, the store
\* stops asking only at the end, at the cap, or while no load has landed since a
\* fetch, of this account or of one that was left, failed.
MoreRestored ==
  Quiet => mixed \/ hasMoreBlocks \/ failed # {} \/ chunkIndex >= Chunks \/ chunkIndex >= MaxChunks

\* A page that was turned to, and a load that is due, end, even when the node
\* claims more for ever.
FetchesEnd ==
  /\ \A t \in Turns : []<>(ensures[t] = Done)
  /\ []<>(loading = NotLoading)
=============================================================================
