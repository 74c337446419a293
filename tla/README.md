# A verification development of facetfold (bruce)

TLA+ models of the engine under `src/engine`, the TLC runs that check them on
small instances, and TLAPS proofs of the properties that matter most.

## 1. The system

`bruce` is a Rust workspace around one operator, a softmax-weighted aggregate
whose partial states `(max, num, den)` form a monoid.  Its parts:

| component | code | state | operations |
|---|---|---|---|
| CDC apply path | `bruce-cdc/src/apply.rs` | mirror table, watermark `last_lsn`, counters | `from_snapshot`, `apply_tx` |
| CDC daemon, durable mirror | `bruce-cdc/src/main.rs`, `durable.rs` | state file, one thread | `run`: create or resume a slot, snapshot or load, loop of receive, apply, save, ack |
| CDC source | `bruce-cdc/src/source.rs`, `protocol.rs`, `pgoutput.rs` | connection, slot, assembler, `last_recv`, `last_ack` | `create_slot_with_snapshot`, `start`, `next_tx`, `ack`, `redial`, retries |
| KvMemory | `bruce-core/src/memory.rs`, `cascade.rs` | facts with owner and tombstone, audit log | `write`, `delete`, `bulk_insert`, `snapshot`, `restore`, `save_parquet`, cascades |
| HTTP server | `bruce-server/src/main.rs` | KvMemory behind a lock, WAL file | write, delete, audit append, replay at start |
| Merkle audit log | `bruce-core/src/merkle.rs` | list of entries | append, root, prove, verify |
| Database write path | `bruce-query/src/db.rs` | tables, maintained views, row-id maps of indexes | `register`, `create_index`, `insert_row`, `delete_where` |
| Maintained views | `bruce-query/src/views.rs` | one `(max, num, den)` per group, anchored on the maximum | `on_insert`, `on_delete`, re-anchor |
| Incremental aggregate | `bruce-core/src/crud.rs` | records, `(max, num, den)`, multiplicity of the maximum | insert, delete, update, rescale |
| HNSW index | `bruce-core/src/hnsw.rs` | layered graph, tombstones | insert, delete, search |
| Planner and executor | `bruce-query/src/planner.rs`, `optimizer.rs`, `exec.rs`, ... | none between queries | choose among admissible plans, execute |
| Kernels | `bruce-core/src/operator.rs`, `mask.rs`, `semiring.rs`, `distributed.rs`, `tree.rs` | partial states | fold, merge |
| Joins | `bruce-core/src/join.rs`, `streaming.rs` | buckets per key, count | hash, sort-merge and leapfrog join; one arrival of the chain join |
| PostgreSQL extension | `bruce-pg/src/lib.rs` | `float8[5]` per worker | transition, combine, final |
| Sketches, ingest, privacy, encryption, provenance, Flight server, Python bindings, CLI | see `PROJECT.json` | - | - |

How they interact.  The CDC daemon owns a `Database`; `apply_tx` calls
`insert_row` and `delete_where`, which update the maintained views and indexes
in the same call.  PostgreSQL talks to the daemon through a replication stream
and a slot whose `confirmed_flush_lsn` decides what is redelivered.  The HTTP
server serialises writers with one lock, changes the `KvMemory` first and
appends to its WAL second; at start it replays that WAL.

What is hard: the daemon can die between any two steps (apply, write the
temporary file, rename, fsync of the directory, ack), acknowledgements can be
lost or arrive after the process that sent them died, PostgreSQL redelivers a
longer prefix than was lost, `apply_tx` returns early and undoes nothing, the
views and indexes must follow compactions of the table exactly, the server
acknowledges between two media.  `PROJECT.json` lists each hazard at its line.

What makes each part correct:

- apply path and daemon: exactly-once, no loss, no partial reads, save before
  ack, eventual catch-up (section 4);
- source: a transaction is assembled from the messages of one connection only;
  a redial neither blocks the server nor skips a transaction;
- KvMemory and server: a tombstone never reads, only the owner changes a fact, a
  bulk insert is all or nothing, what was answered with success survives a restart;
- write path: views and indexes are what rebuilding them from the table would
  give, and no row is subtracted twice;
- HNSW: tombstones stay routable and are never returned;
- planner: only admissible plans are chosen, and they all give the same answer;
- kernels: the merge is associative, commutative and has a unit, so that every
  order of partial folds agrees.

## 2. Plan

In order.  Each module keeps recursion out of what is proved about.

1. *(done)* `RowChanges`, `Mirror`, `CdcDaemon`, `CdcContract`, `CdcOperations`,
   `CdcInvariant`, and the proofs `CdcDaemonProofs`.
2. *(done)* `CdcStream` over `TxSource`: the messages of a transaction,
   `TxAssembler`, `redial` and `RetryingSource` against PostgreSQL's walsender, with
   the invariant and the proof of the refinement in `CdcStreamInvariant` and
   `CdcStreamProofs`.
3. *(done)* `KvRows`, `KvMemory`, `KvInvariant` and `KvMemoryProofs`; `FactServer`,
   the server and its log over the same rows, with `FactServerInvariant` and
   `FactServerProofs`.
4. *(done)* `MerkleLog`, proved about in `KvMemoryProofs`, next to the audit log it
   is the tree of.
5. *(done)* `SoftAvg`, `Kernels`, `AnchoredSum`, `Incremental`, `PgSoftAvg`: the folds
   of the core crate and of the SQL aggregate, and `SoftAvgProofs` for all of them.
6. *(done)* `QueryStats`, `SoftAggView`, `QueryPlans`, `Database`: one table with
   its statistics, views and index, and the queries over it; `DatabaseInvariant` and
   `DatabaseProofs` for `StatsFresh`, `IndexExact`, `ViewsExact`, `AnswersExact` and
   `ContractHeld`.
7. *(done)* `Hnsw`, `Joins`; `JoinInvariant` and `JoinProofs` for `ChainExact` and
   `BatchJoinsExact`.
8. Possible next: the accounting of `dp.rs`, the derivations of `provenance.rs`.

## 3. Modules

`RowChanges` is the data: the published table (`SqlTable`), the row changes of
pgoutput and which of them PostgreSQL admits (`Legal`, `After`), and the mirror
(`MirrorRows`).  A row is a key and one abstract value for all its other mapped
columns, with NULL and the `u` marker of an unchanged TOAST column (`Unchanged`)
told apart because the code treats them differently.  The mirror has no unique
index, so it is a *sequence* of values for each key: duplicates and missing rows
are states it could be in.

`Mirror` is `apply_tx`.  One iteration of its loop is one step; every branch and
every early return is an action.  `Residue` is what an early return leaves in
the table.  `Redelivered` is the watermark filter.

`CdcDaemon` composes the mirror with the daemon, the state file and PostgreSQL.

| variable | code |
|---|---|
| `db`, `last_lsn`, `rows_applied`, `txs_applied` | fields of `Mirror` (apply.rs) |
| `next`, `applied` | the loop of `apply_tx`, its local count |
| `pc` | the statement `run()` is at (main.rs) |
| `tx` | the transaction `next_tx` returned |
| `last_recv`, `last_ack` | fields of `PgOutputSource` (source.rs) |
| `cursor` | position of the walsender's stream, `Disconnected` when it is cut |
| `disk` | the file at the `--state` path |
| `slot`, `origin`, `confirmed`, `acks` | the slot, its consistent point, `confirmed_flush_lsn`, status updates in flight |
| `base`, `wal`, `open` | the published table: its first state, committed transactions, the open one |

The LSN of a transaction is its index in `wal`.  PostgreSQL is not in the
repository; it is modelled from what the code relies on: transactions reach the
stream whole and in commit order, streaming starts after `confirmed_flush_lsn`,
which only advances while the server runs and may fall back when it restarts.
`imgs` in a transaction is history, read by the properties only.

`CdcContract` is the abstract specification: a history of committed states, the
one shown to readers, the checkpoint, the acknowledged position.  `Contract` in
`CdcDaemon` is the refinement mapping.

`CdcOperations` adds one outside event to the daemon, each in a specification of
its own: the state file is deleted, the slot is dropped, the machine loses
power.  It is where the violation runs of the daemon live.

`CdcInvariant` is the inductive invariant, `CdcDaemonProofs` the proofs.  `MC_CdcDaemon` is the instance for TLC.

`KvRows` is the fact store as a value: rows with owner and tombstone, insertion
order, audit log, and what a write, a delete and a copied row make of it.  A key
vector and a value vector are one abstract value; timestamps and dimension
checks are left out.  `KvMemory` and `FactServer` are both built from it.

`KvMemory` is the life of one memory and its files.  Its methods borrow the memory
exclusively, so calls do not interleave with each other, but they are not one
step each: `bulk_insert` validates, then applies row by row; `CascadePlan::execute`
goes fact by fact; `restore` builds a second memory; `save_parquet` writes two
files.

| variable | code |
|---|---|
| `mem` | `rows`, `insertion_order`, `log` |
| `pc`, `todo`, `by`, `removed`, `path`, `fresh` | the method in progress, what it has left to do, its arguments and locals |
| `facts`, `audit` | the Parquet file of each path, the `.audit.jsonl` file of each path without its extension |
| `origin`, `since`, `saved` | history: the rows the log started from, where a cascade's entries start, what each path was to keep |

A snapshot is restored at once here; a snapshot kept while the memory changes is
an older memory, which `restore` cannot tell.  `KvInvariant` and `KvMemoryProofs`
are the inductive invariant and the proofs; `MC_KvMemory` the instance for TLC, in
which each path has an audit file of its own, and `MC_KvFiles` one in which two paths
share it.

`Selection` is the subsequence of a sequence at a set of its positions, by rank and
not by recursion, and `SelectionProofs` what follows from it.  A filter over rows or
over a log, a mask, a compacted table, the views that are left and a hash bucket are
all subsequences, so the store, the server, the kernels, the database and the joins
are proved about through it.

`FactServer` is `bruce-server` with `--wal-path`.  A handler holds the lock from
check to answer, so `Handle` is one step; the record, its newline and the answer
are further steps, between which a write can fail part way or the process die.
`lines` and `tail` are the log file: whole lines, and what follows the last
newline.  A line is a record, bytes that do not parse (`Garbage`), or bytes that
are not UTF-8 (`BadText`).  `ops`, `applied`, `acked` and `about` (the fact each
request names) are history.

`MerkleLog` is `merkle.rs` with symbolic hashes: a hash is the term it is of, so
different terms have different hashes, and the domain separators keep leaves,
pairs and the empty root apart.  The loops of `root`, `proof` and `verify` are written
as theirs: one operator for a round (`LevelAbove`, `PathRound`, `VerifyRound`), and the
states after each round.  There are as many rounds as leaves, which is more than
enough; a round that finds one hash left changes nothing.

`CdcStream` opens up the step `Receive` of `CdcDaemon`: message by message,
between the publisher's commit and the transaction `next_tx` returns.

| variable | code |
|---|---|
| `conn`, `phase`, `resume`, `attempts` | the connection of `PgOutputSource`, the statement the thread is at, the call and the attempt count of `reconnect_bounded` |
| `asm`, `last_recv`, `last_ack` | `TxAssembler` (relations seen, pending changes), the source's two LSNs |
| `peer`, `toClient`, `toServer` | the local socket: PostgreSQL's end, messages either way; what is under way when an end closes is lost |
| `server`, `sender`, `slotOk`, `confirmed`, `schema`, `wal` | PostgreSQL: running, in fast shutdown or down; its walsender; the slot; columns; commits |
| `got`, `at`, `reached`, `acked` | what the caller was given last, and history for `TxSource` |

A row is one value (a text, NULL, or the untouched marker) in every column, so a
name and a marker are what a decoding or assembling error would mix up.
`TxSource` is the contract `ChangeSource` states (source.rs 51-80); `CdcStream`
implements it, and `CdcDaemon` relies on it.

`CdcStreamInvariant`, `FactServerInvariant`, `DatabaseInvariant` and `JoinInvariant`
hold the inductive invariants of the components they are named for, and
`CdcStreamProofs`, `FactServerProofs`, `DatabaseProofs` and `JoinProofs` the proofs.
What speaks of weights is in the proof modules themselves: `PgInv` and `IncInv` in
`SoftAvgProofs`, `ViewInv` in `DatabaseProofs`.

The read engine.  One convention holds in all of its modules: exponentials are
to base 2 and scores are integers, so a weight is a power of two (`Pow2`) and sums are
exact, in units of 2^-`Spread`; -inf, +inf and NaN are scores of their own, since
the code branches on them, and `Infinity` is above every finite one.  Rounding is
therefore outside the models: what is checked and proved is which rows are weighed,
against which maximum, what is rescaled, subtracted or left out, and on which branch.
`Spread` and `Infinity` are constants, so that nothing depends on how large they are.

- `SoftAvg` is `RowAcc` (mask.rs): `Absorb`, `MergeAcc`, `Finalize`, with every
  branch on the temperature (0, finite, infinite) and on infinities, next to
  `AverageOf`, the definition of the average of a set of records (`SoftAverage` of all
  of them).
- `Kernels` grows one group of rows and holds every other way to the average over
  them: `softmax_eps`, the operator's `attention`, `attention_batch`, `sum` and
  `count`, `attention_query`, the triples of distributed.rs, tree and masked
  attention.  A triple has the columns of the values it was built from, and none where
  there were no values; a reduce step over shapes that do not fit is a `Panic`.
- `AnchoredSum` is the state `(m, num, den)` that is also subtracted from, with
  its NaN; `Incremental` is `IncrementalMemory` and `SoftAggView` a maintained
  view, both on top of it.
- `QueryStats` is what is collected and estimated (`ScalarStats`, `KeySketch`,
  selectivity, contract and tail); `QueryPlans` the planner's candidates and what
  each physical plan answers; `Database` the catalog, statistics and staleness,
  views and index maps under the write path, and `run`.  The cost model only ranks
  candidates: any admissible one may be chosen.  `AttachKey` gives a table its first key
  column or another in its place; `outdated` is history, the views and indexes that were
  built over keys which have been replaced since.
- `Hnsw` is the graph: `InsertNode`, `DeleteNode`, and `Search` as an operator.
  `Database` does not contain it: its probe returns any of the live vectors the
  filter admits, at most k, which is weaker than what `SearchServes` shows.
- `PgSoftAvg` is the SQL aggregate: transition, combine and final function, under
  workers that PostgreSQL gives rows to and gathers in any order.
- `Joins` is the streaming chain join, one arrival per step, and the three batch
  joins as functions of the columns that have arrived.  The two that loop over sorted
  columns are the states of their cursors and output, one round after the other
  (`MergeStep`, `LeapStep`), for as many rounds as can move a cursor.
- `MC_Engine` composes these for TLC.  They share no state except through the
  modules they extend, so its variable `part` picks the one that moves, and the
  states of the others stay initial: the run's states are the sum of the parts'
  and not their product.

Definitions commented "Mutated form" are plausible bugs of the definition that
follows; each property is violated when one of them replaces it.

## 4. What is checked

| run | question | bounds |
|---|---|---|
| `cdc_safety` | is the mirror, and its file, always the table some committed transaction left; is nothing unsaved acked; is `IInv` invariant | 2 keys, 2 values, NULL allowed, 2 transactions, 2 row changes in all, 2 faults |
| `cdc_liveness` | does the daemon implement `CdcContract`; does every committed transaction reach the mirror and the slot, for good; no partial reads with NOT NULL columns | 1 value, 2 transactions, 1 row change, 2 faults |
| `cdc_stream` | does the message stream deliver whole transactions in order and implement `TxSource`; can a redial and a shutdown wait for each other; is what is committed delivered | 1 relation of 1 column with 2 names, 2 transactions of 2 statements, 1 `ALTER TABLE`, 2 faults, 1 message in the socket, 2 attempts |
| `cdc_no_state_file` | violation: without its file the daemon never serves again | 1 transaction |
| `cdc_slot_dropped` | violation: a recreated slot and an old file lose transactions | 3 transactions, 2 faults |
| `cdc_power_loss` | violation: a file path without a directory part is not durable at the ack | 2 transactions, 1 fault |
| `kv_store` | are insertion order and audit log exact; do batches and cascades obey the owner rule; do files and snapshots give the memory back; is `KvInv` invariant | 2 facts, 2 owners, 1 value, 3 log entries, batches and cascades of 2, 1 failed save or death, 2 saves, loads or restores |
| `kv_files` | violation: a save that fails between its files, or a save to a path with the same audit file, leaves rows and a log that do not belong together, and they load | 2 paths, 1 audit file, 3 log entries, 1 failure, 3 saves or loads |
| `server_restart` | does a restart reproduce memory and audit log; which acknowledged operations can it lose, and how many | 2 facts, 2 owners, 4 accepted requests, 1 entry of `/audit/append`, 3 failures or deaths |
| `server_replay` | violation: an acknowledged operation is not carried out again by a restart | 3 requests, 2 failures |
| `engine`, kernels | do all folds and operators agree with the definition, wherever the rows are cut | 3 rows of 10 kinds, infinities, NULLs, 4 temperatures |
| `engine`, aggregate | is the maintained answer the average of what is live | 3 ids, 3 keys, 2 values, 3 similarities, 4 temperatures |
| `engine`, database | are statistics, views and index those of the table, until its keys are replaced; do all plans answer the query, within its budget | 1 table of at most 3 rows, one key column of one dimension, 1 value of an attached one, 3 ids of an index, 1 view, 10 queries, 3 deletes' predicates |
| `engine`, index | are k matches found that can be reached; does the graph keep its degrees | 6 nodes on 2 layers, m = 2, 2 tombstones, 4 searches, both selection rules |
| `engine`, audit | do root, proof and verify agree; can a proof or another log pass for it | 2 payloads, 6 entries |
| `engine`, sql | does a parallel aggregate give what one scan means | 2 workers, 3 rows of 10 kinds |
| `engine`, joins | is every match counted once, at its last tuple; do the batch joins list exactly the matches | 2 keys, 6 tuples over 3 relations |
| `database_keys` | violation: an index or a view serves keys that were replaced | as `engine`, database |

Bounds.  `MaxTx`, `MaxChanges` and `MaxFaults` bound the environment in guards;
the daemon itself is not bounded.  Two keys are what a key change needs, two
values what tells a stale row from a current one, two row changes in one
transaction what a partial apply needs.  Two faults allow a death during the
recovery from the first.  With two transactions one can be saved while the other
is lost or redelivered.  Three log entries are an insert, a delete and a take-over
by another owner, or a batch that names one fact twice after a write; two file
operations are a save over which a second one fails, or a save and its load.  In
the server, four requests and three failures allow a torn record, a record glued
to it, a restart and a record after that.  Six entries give trees with an odd hash
at the first, the second and at no level.  The theorems of section 5 hold for every bound.

In the stream, two statements make a transaction that can be cut in half, two faults a
fault during the recovery from the first, two attempts one that fails and one that may
not.  Three rows are cut into chunks in every way, for the scan's accumulators with an
empty chunk among them, and hold a tie, a dominated row and an infinity at once.  A
table of three rows has a group whose anchor and another row are deleted by one call;
three index ids allow an insert after a compaction.  An attached key of 6 differs from
the registered key 0, so that a view and an index built before it are told from it.
Six nodes overflow a lowest list of `2 * m`.  `HIST_BUCKETS`, `RESOLUTION_MIN_SAMPLES`,
the tail tolerance, the sketch sample and the probe ladder are constants here, scaled
down with the tables so that a contracted scan and a probe become admissible and their
runtime guards fail as well as pass.  `Spread` is 9, the largest product of a
temperature and of a distance between two finite scores of the instance, so no weight
is rounded; it makes no behaviour possible or impossible.

Fairness (`FairSpec`): the daemon is one thread that never stops between two
steps (`run()` is a sequential loop that blocks only on the socket); a
supervisor restarts it when it exits; PostgreSQL reads the status updates it is
sent.  Nothing is assumed of transactions, keepalives or faults; faults are
finitely many.  Liveness starts at the first state file: before it, a death
leaves the slot without a file and no start succeeds (`cdc_no_state_file`).

In `CdcStream` the client is one thread that never stops between two steps and
whose caller asks again and restarts it after an error; PostgreSQL sends what is
committed, ends its copies when it stops, reads its sockets, notices a client that
is gone and is started again.  Commits, `ALTER TABLE`, keepalives, acknowledgements
by the caller and faults are not assumed; faults are finitely many.  `Delivers` is
claimed as long as the slot is valid.

`KvMemory`, `FactServer` and the parts of `engine` are checked for safety only:
nothing in that code waits for anything.  Deadlock is checked in every run but `engine`
and `database_keys`, whose parts end where their bounds do.

## 5. What is proved

For every set of keys and values, every bound, and a daemon with `--state`
(`HasState`):

- `Invariance`: `Spec => []IInv`;
- `ExactlyOnce`, `FileExact`, `SaveThenAck`, `NeverOlderThanAcked`: the safety
  properties of `cdc_safety`; `TypeCorrect`, and `OutOfSyncUnreachable`, that the
  out-of-sync errors of `apply_tx` do not occur;
- `NoPartialReadsWithoutNulls`: with NOT NULL columns `apply_tx` cannot fail, so
  what section 6 says of NULLs does not happen there;
- `Refinement`: `Spec => ImplementsContract`.

Assumptions: `MarkersDistinct` and `BoundsAssumption`, which only keep the
markers apart from data and the bounds natural.

The argument.  None of the properties is inductive.  `IInv` adds what ties them
together: every committed transaction is a chain of legal changes from the table
before it (`HistoryInv`); the stream delivers next what the mirror has or needs
next (`StreamInv`); the file is behind the mirror only while it is being saved
(`WatermarkInv`); what is acked, in flight or would be repeated is in the file
(`AckInv`); inside `apply_tx` the mirror is the table after the changes so far
(`ApplyInv`).  From that, a transaction that passes the watermark filter is
exactly the next one, and a legal change finds exactly one row to act on
(`LegalInSync`, `ApplyStep`).  There is one lemma per action, and under it one
step per conjunct.

For any number of facts, owners, values, paths, calls and failures of a
`KvMemory` (`KvMemoryProofs`): `KvInvariantHolds`, `TypeCorrect`, `OrderIsExact`,
`LogExplainsRows`, `LogIsLegal`, `BulkInsertIsWrites`, `CascadeReceiptIsExact` and
`SavedIsLoadedBack`.  They assume that markers are no data (`KvAssumption`,
`KvMemoryAssumption`) and that no two paths share an audit file (`OwnAudit`), which
`with_extension` does not guarantee: `facts.a` and `facts.b` share
`facts.audit.jsonl`.  `LogExplains` speaks of memories whose files come from a finished
save of their own; `kv_files` is about the others.

The argument: each write, delete and copied row is first shown to keep a memory
listed (`Listed`), accounted for (`Explains`) and lawful (`Lawful`), whatever the
memory (`WrittenListed`, `WrittenHistory`, ...).  A batch needs that each row it has
left may still be written (`BulkIsWrites` is inductive as it stands); a restore,
that each live row is either copied or still to come, once (`RestoreInv`); a save,
that the files agree with the memory so far and its path promises nothing
(`SavingInv`); a load, that the rows file lists each fact once (`FilesInv`) and that
a promised path holds what was promised, history included (`SavedInv`).

`RestoreIsExact` is the last theorem there: a restore has copied the live rows of a
prefix of the scan, in its order (`CopyInv`).  What "in its order" means is a filter
of a sequence; `Selection` says it by ranks.

For any relations, schemas, statements, faults and attempts of the stream
(`CdcStreamProofs`, from `StreamAssumption`: the markers of the wire are told apart):

- `StreamInvariant`, `DeliveredWholeHolds`, `NoWaitCycleHolds`: the safety properties
  of `cdc_stream`; `NeverOrphanedHolds`: the error for a change without its Relation
  message is for a walsender that breaks the protocol, never for a stream that was
  cut and resumed;
- `StreamImplementsTxSource`: `Spec => ImplementsTxSource`.  `CdcDaemon` receives what
  `TxSource` promises, so its theorems and this one meet at the contract.

The argument.  `DeliveredWhole` speaks of the moment a commit is read; everything
that decides it lies in the socket.  `StreamInv` says what does: there is a path of
places in the log, one per message under way and one more, from where the assembler
is to where its walsender is, and each message takes the path from one place to the
next, announcing the columns a change relies on.  Sending extends the path, reading
drops its head, a cut drops it whole, and a commit to the log moves nothing on it
(`SendNextCarries`, `AsideCarries`).  `ConnInv` says that a walsender with messages under way exists only
for a streaming connection, which is why a redial starts with an empty assembler.

For any number of facts, owners, requests, faults and restarts of the server
(`FactServerProofs`, from `ServerAssumption`): `ServerInvariant`, `ReplayExactHolds`,
`AuditMatchesLogHolds`, `LossExplainedHolds`.  A replay is a fold over the log; it is
reasoned about as a run of intermediate stores (`Runs`), of which there is exactly one.
`ReplayInv` says that a restart has made of the lines it has read what they make of an
empty store, `ServeInv` that a process whose requests are all in the file has what the
file makes, also between the record and its newline, and `LossInv` counts the record
that the next append will be glued to: without it the bound is not inductive, because
that append loses two records at one fault.

The bound is on records that cannot be read.  A record that can be read and is refused
on replay is lost as well, and there is no bound on those: after one delete that was
not logged, every logged write of another owner to that fact is refused.
`LossExplained` says that this is the only way.  `FactInv` is its reason: what a fact's
row is depends on the requests about that fact alone, so while all of a fact's requests
are in the file, the process and a replay of the file have the same row of it.  The
owner rule looks at that row only.  `RefusedInv` draws the conclusion for the records
in the file, and `AboutInv` ties each record to the fact that history says it is about.

For any tables, values, predicates and calls (`DatabaseProofs`, from
`DatabaseAssumption`): `DbInvariant`, `StatsFreshHolds` and `IndexExactHolds`: what
`delete_where` and its remapping, a second `register` of a name, `create_index` and
`attach_key` leave in the statistics and in the two maps of an index, an index of
replaced keys (`outdated`) apart.  `DbInv` adds
the shapes: every table of the catalog has statistics, and every index a table with
64-bit keys.

For the views of those tables (`ViewInvariant`, `ViewsExactHolds`), from
`ViewAssumption` as well: what is registered has codes of its dictionary, and keys are
integers whose products with the query vectors are finite and, times the temperature,
within `Spread` of each other.  A NULL value is allowed, a NULL or NaN key of a table
with a key column is not.  The argument: a group of a view is the two sums of the rows
at a *set of positions* of its table (`GroupOf`), anchored at a score no lower than any
of theirs, and what is said of it does not change when the rows move to other positions
(`GroupMoved`), which is what a compaction does.  A view is built and inserted into by
adding positions one at a time (`RowInserted`).  In the middle of a delete the table has
been compacted already and the view has not: a group that was anchored anew (`settled`)
is of the rows that stay, every other is of the old rows without the ones handled so far
(`Deleting`, `RowDeleted`); at the end these are the same (`DeletedExact`).  Without the
settled groups the second row of a group would be taken off twice, which is the bug the
comment in `delete_where` tells of and the mutant `DeleteEachRow`.  Between two calls
`CodedInv` says that what is in a table was written to it, and `ViewInv` that each view
is of the table it names, with a group for each label.  A view whose table was given
other keys is excepted for as long as it exists: `attach_key` does not touch it
(`database_keys`), and registering the table again drops it.

For the queries over them (`LabelInvariant`, `AnswersExactHolds`, `ContractHeldHolds`),
from `QueryAssumption` as well: the labels of a registered dictionary differ, as
`ingest.rs` 57 makes them; a query compares with a number, declares no negative budget,
and its scores are finite and, times its temperature, within `Spread` of each other.
Any plan that the planner may admit is covered, since a cost only ranks them.  The
argument:

- a query's meaning is stated by labels and every plan works by codes; labels stay
  different (`LabelInv`), so the two agree group by group (`MeaningIs`, `RightByGroup`);
- the fused scan folds each group, and a fold is the average (`FoldExact`); a view that
  serves a query without a filter is exact by `ViewsExact`, unless it is of replaced
  keys, which `AnswersExact` excepts too; the plain average is the
  fold at eps = infinity, where every weight is one.  A NULL is excepted: it makes the
  answer of a view or of a plain average NaN;
- a truncated scan keeps rows of weight p of a total z.  The values it leaves out are at
  most vmax either way, so brought to one denominator the two averages differ by at most
  2 vmax p (z - p) (`PartOfSum`, `Truncated`), which holds for *any* rows kept.  The
  contracted scan tests that difference for each group and folds the group again where
  it misses (`CertifiedNear`), and so needs no property of the estimate but that the
  plan is never made at eps = 0 or without a budget (`BudgetDeclared`, which needs that
  a selectivity is a fraction, `SelectsPart`);
- a probe whose hits no missed row beats has the best score among them (`BestKept`); a
  missed row weighs no more than the worst hit, so all of them together at most
  n 2^(Spread - eps (best - worst)), against a total of at least 2^Spread
  (`TailWeighs`).  The achieved tail that `exec_hnsw` tests is this ratio, and the two
  averages are within 2 vmax of it (`TailNear`).  Rows of two groups are refused, so the
  one label of the hits is the only label there is (`OneGroup`).

For any records and temperatures (`SoftAvgProofs`, from `SoftAvgAssumption` and, for
each user, an assumption that its scores are integers or infinities and, times a
temperature, within `Spread` of each other: `KernelsAssumption`, `PgAssumption`,
`IncAssumption`):

- `MergeExact`, `AbsorbExact`, `FoldExact`, `AnswerExact`: the accumulator of `RowAcc`
  is a function of the *set* of records folded into it (`AccOf`); merging is the union
  of disjoint sets, absorbing adds one record, and finalizing gives `AverageOf`.  That
  `MergeAcc` is associative, commutative and has a unit on what is folded follows, and
  so does that no cut and no order of rows matters; `CombineExact` is the same for two
  triples of distributed.rs that each have a row (an empty one is no unit there, see
  section 6).  From these, `PartitionFreeHolds`;
- `OperatorsExact`, `RatioExact`, `OperatorsAgreeHolds`: `softmax_eps`, `attention`,
  `attention_batch`, the pair of `sum` and `count`, `attention_query`, tree and masked
  attention are ratios of sums with the same weights up to one factor.  The walks up a
  tree are bounded by the parent's smaller index (`PathFacts`);
- `SFuncExact`, `CombineFuncExact`, `PgInvariant`, `ParallelIsSerialHolds`: the state of
  each worker, and of what is gathered, is that of the rows it has seen, or it holds an
  error exactly when those rows call for one (`PgHolds`); the rows of the workers are
  disjoint and are together those scanned (`PgInv`);
- `AddedExact`, `SubtractedExact`, `RecomputedIs`, `IncInvariant`,
  `IncrementalExactHolds`: the sums that are also subtracted from.  `IncInv` says in
  which of its states an `IncrementalMemory` is: exact above eps = 0; poisoned with NaN
  by a record that does not match; at eps = 0 the sums of the records at the top
  (`Sharpened`), or, with no match left, undefined (`Unmatched`).  The multiplicity of
  the maximum decides when a delete may subtract and when it must sum again.

The argument is one and rests on two facts about powers of two.  Rescaling from one
maximum to a higher one divides each weight exactly, as long as the distance is within
`Spread` (`ShrinkExact`, `Rescaled`); and a finite sum is that of its parts, in any order
(`SumUnion`).  Sums over sets, and the folds of the library, are defined by recursion
over sets; each is shown to be some function that goes up along the subsets
(`SubsetInduct`, `Folds`), which needs no induction theorem.  What a record at an
infinite score does to the others is a case of its own (`TopIs`, `HasWeights`).

For any keys and any order of arrival (`JoinProofs`): `JoinsInvariant` and
`ChainExactHolds`, which need no assumption, and `BatchJoinsExactHolds`, from
`JoinAssumption`: keys are integers, as the bindings pass them.  `JoinInv` says what a
bucket is, the other column of S at the tuples of a key, and a counter, the number of
tuples of a key; an arrival adds to the join one block of triples for each entry of its
bucket (`BlocksOfR`, `BlocksOfT`), disjoint from each other and from what was there
(`GrowR`, `GrowS`, `GrowT`), and the sum the code adds is the size of their union
(`SumCounts`).  The batch joins are proved from what their output is, a listing of the
set of matches (`Lists`): listings of disjoint sets can be put one after the other
(`ListsConcat`, `ListsFlatten`).  The hash join lists one left position after another.
For the two loops there is an invariant of a round (`MergeInv`, `LeapInv`): what is out
is a listing of the matches before the left cursor, no other match is before the other
cursors, and after n rounds the cursors have moved n positions unless one is at its end,
so the loop is over after the rounds it is given. That the columns are sorted is used
where a run of equal keys ends (`RunFacts`) and where a cursor leaps (`LeapPast`).

For any payloads and a log of any length (`KvMemoryProofs`, from `MerkleAssumption`: the
bound is natural): `MerkleInvariant`, `ProofsVerifyHolds`, `VerifySoundHolds` and
`TamperEvidentHolds`, the last two from lemmas without the bounds of the properties:
`AcceptedIsTheEntry` is about any proof, made of anything, and `OneRootOneHistory` about
any other log.  They hold as far as different terms have different hashes, which is
what SHA-256 is taken for.

The argument.  `ProofsVerify`: the loops of `proof` and `verify` go up in step
(`InStep`), and what `proof` has collected is a start of the whole (`PathGrows`).
`VerifySound`: from the top down, a hash that is the tree's came from one that was
(`RoundGoesUp`), because a pair is of one pair only.  `TamperEvident`: the trees of two
logs could differ in height, or a promoted hash of one be a pair in the other; the depth
of a hash, the pairs down its left to a leaf, excludes both.  It is unique (`OneDepth`),
the height for the first hash of a level and every one but the last (`DeepLevel`), and
one more for a pair than a promoted hash can have (`OddIsNotEven`).  So the levels are
equal from the root down (`OneBelow`).

These invariants were checked by TLC on the instances of section 4 before they were
proved; `IInv` of the daemon and `KvInv` are properties of runs.  The induction
theorems of the library take an operator and are out of the provers' reach.  Where
data has to be counted along (`SumsExist`, `RunExists`, the rounds of a loop, the ranks of
a position), the
proofs use that a set of naturals has a least member (`LeastNumber`).

Only model-checked, and why:

- liveness (`CatchesUp` and its kind, `Delivers`): out of the prover's reach, as is
  ENABLED;
- what the planner estimates from a key sketch (`EstimateContract`, `PredictsTail`):
  the answers are proved right whatever it estimates, the estimate is not proved good;
- `SearchServes`, `GraphSound`: `Hnsw` recurs along its graph, with RECURSIVE
  operators;
- what the integers leave out (section 7): no theorem about weights is one about
  rounding;
- in `KvMemory` and `CdcDaemon` every safety property of a passing run is proved; a
  daemon without `--state` is in `CdcDaemon`, and neither run nor proved about.

## 6. Where code and documents disagree

- The state file "may be deleted at any time, forcing a re-snapshot" (`durable.rs`
  8-9): with the slot in place the daemon exits instead (`cdc_no_state_file`); a
  process that dies before its first save ends there too.
- "save-THEN-ack makes every SIGKILL window safe" (README.md of bruce-cdc): a new
  slot's snapshot is not saved until the first transaction, and nothing ties the
  file to the slot (`cdc_slot_dropped`).
- "durable BEFORE the ack" (`main.rs` 95): the directory fsync is skipped for a
  path without a directory part (`cdc_power_loss`).
- "Every acknowledged write is in the WAL" (`SECURITY.md` 24), and "each entry is
  replayed into KvMemory before serving traffic" (`main.rs` 61-64): a log that holds a
  record cut inside a character is not UTF-8 and is read as empty; a record appended
  behind a torn one does not parse; and a record that the memory refuses, because an
  earlier operation on its fact was not logged, is dropped in silence
  (`server_replay`).
- "Append-only history of every write/delete" (`memory.rs` 30), restored with the rows
  (531-534): rows and audit log are two files and nothing tells whether they come from
  one save.  A save that fails in between mixes two; so does, without a failure, a save
  to a path that differs in its extension only, which is replaced and not added to
  ("path + ".audit.jsonl"", 519) (`kv_files`).
- "Stale view state must never serve answers for the new table" and "an index over the
  old contents would serve stale candidate rows" (`db.rs` 140-145), which `register`
  heeds: `attach_key` replaces a key column and leaves both (`database_keys`).

A power loss is kept out of the passing runs: even with a directory part, a
process killed between the rename and the directory fsync is followed by a start
that loads the new file, skips the redelivered transaction without saving, and
acks; a power loss then may bring the older file back.

What follows has no violation run.  It was met while modelling, is stated in the bounds
or the antecedents of the properties named, and is worth the maintainers' attention.

- `apply_tx` promises readers all of a transaction or none (`apply.rs` 63-66).  After an
  error the earlier changes of the transaction stay, and where a mapped column admits
  NULL a change that carries one is such an error.  `NoPartialReads` is checked and
  proved for columns that are NOT NULL; `cdc_safety` has NULLs, and shows that no partial
  transaction reaches the state file or survives the restart.
- "The deletion must cascade to **every record about that subject**" (`cascade.rs`
  3-5), and what is not deleted was "already absent" (38-39): `execute` drops
  PermissionDenied with every other error, so a fact of another owner is passed over in
  silence.  `ReceiptExact` says that the receipt does not name it.
- "Exact under arbitrary partitioning" and "an empty (identity) partial"
  (`distributed.rs` 3 and 36): `from_pairs` of no rows has a numerator without columns,
  on which the reduce step panics (`Panic`); where it comes first and the values have
  one column it is broadcast instead, and the answer is empty.  `empty(d_v)`, and a part
  whose scores are all infinite, turn the answer into NaN at eps = infinity.
  `PartitionFree` cuts the triples between two rows.
- The planner's view match and `TopKContractScan` do not look at `score.kind`: a
  `NEGSQ` or `INDICATOR` query is answered with dot products where the fused scan
  returns a Bind error.  `AnswersExact` and `ContractHeld` speak of dot queries.
- A NULL value makes the `num` of a view's group NaN until the group is anchored
  anew, and the plain average, the contracted scan and the probe's fold do not skip
  NULLs, while the fused scan does; `partial_cmp().unwrap()` in the contracted scan
  panics on a NaN key.  At eps = infinity the optimizer turns a fused scan into a
  plain average, which also counts rows whose key is NULL.
- `delete_where` reports an index that is out of sync after it has compacted the
  table (only code that changes the public catalog gets there).
- `IncrementalMemory` with `Indicator`: at eps = 0, after the last match is deleted,
  rows that do not match are averaged, and deleting one of them moves the
  denominator below zero; above eps = 0 a first record that does not match makes the
  sums NaN until they are recomputed.  `IncrementalExact` excepts these.
- `IncrementalMemory::update` with a value of another dimension has deleted the key
  when it returns the error.
- `attention_batch` at eps = 0 divides zero by zero; `softmax_eps` falls back to
  uniform weights when a score is +inf, and `from_pairs` drops a partition with one,
  where the scan kernels let that row win.  `OperatorsAgree` and the triples'
  clause of `PartitionFree` are stated for finite scores.
- `x >= c` with c the column's maximum is estimated to select no row where the last
  bucket's share is cut to zero.
- Words of a query after GROUP BY, and JOIN or HAVING, are ignored by `parse_query`.
- hnsw.rs 765-766 says "with ef >= n every live node is reachable"; keys that repeat
  can leave a later node without a link from the entry point's side.  `SearchServes`
  is stated for the nodes that can be reached.

## 7. What is not modelled

Of the replication path: the byte layout of messages, authentication, the slot
setup's SQL beyond `CdcDaemon`, the SQL the daemon prints, numbers in mirror columns
(values are abstract), the temporary file's bytes (it is invisible until the rename),
several mapped relations in the daemon (`other` stands for changes of an unmapped
one).  Of the store and the server: refused requests and reads (they change nothing),
dimensions, timestamps, tokens, metrics, TLS, the server without `--wal-path` (it
keeps nothing over a restart), a lost page cache (the log is never fsynced), the text
of an audit entry.

Of the read engine: rounding, and with it the f32 kernels' own arithmetic; cost
figures, which only rank admissible plans; the text of a query (a query is its
shape); value vectors of several components (the code treats each alike); calls that
fail and change nothing.  `sketch.rs` (random projections and hashes), `dp.rs`,
`encrypted.rs`, `anonymity.rs` (noise, probability and library cryptography) and
`provenance.rs`; the Flight server and the npy reader, which decode requests and
files around `Database`; conversion from Arrow and Parquet in `ingest.rs`; the
remaining Python bindings and the command line, which forward to the core crate.
Their components are marked `not_modelled` or `partly` in `PROJECT.json`.
