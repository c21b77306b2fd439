# A TLA+ verification project for Valkey

Valkey is an in-memory key-value server. One main thread executes commands on the
keyspace; I/O threads read requests and write replies for it, background workers
free memory and sync files, child processes write snapshots; replication, the append
only file, the cluster bus and Sentinel keep the data through failures.

This directory models the parts of the server whose correctness depends on an *order
of events*: transactions over a keyspace that expires, the failover protocol of the
cluster bus, the hand-off between the main thread and the I/O threads, the append only
file through crashes, replication through changes of role, and atomic slot migration.
Each part has a specification, an `MC` module that gives its constants values for TLC, one
or two configurations, and modules of theorems
that TLAPS checks. All paths below are relative to the repository (`src/src/...` in
`PROJECT.json` is `src/...` here).

| module | models | checked by |
|---|---|---|
| `Transactions` | `multi.c`, with the part of `db.c`, `expire.c`, `t_string.c` that touches watchers | `tx_primary`, `tx_replica` |
| `TransactionsProofs` | theorems about it | `tlapm` |
| `ClusterFailover` | failover, votes, epochs and slot claims of `cluster_legacy.c` | `cf_election`, `cf_converge`, `cf_late_votes` |
| `ClusterFailoverProofs`, `ClusterElectionProofs` | theorems about it | `tlapm` |
| `IOThreads` | `io_threads.c`, with the client I/O paths of `networking.c` and the order of `beforeSleep` in `server.c` | `io_threads`, `io_replies` |
| `IOThreadsProofs` | theorems about it | `tlapm` |
| `DurableLog` | what an append only file promises (abstract) | implemented by `AppendOnlyFile` |
| `AppendOnlyFile` | `aof.c`, with the AOF worker of `bio.c` and the order of `beforeSleep` and `serverCron` | `aof` |
| `AppendOnlyFileProofs` | the invariant of the files, the manifest and the buffer; the refinement | — |
| `Replication` | `replication.c`, with the replication fields of RDB files and the restart from one | `repl_roles`, `repl_restarts` |
| `ReplicationProofs` | theorems about it | `tlapm` |
| `SlotMigration` | `cluster_migrateslots.c`, with the slot part of `cluster_legacy.c`'s packet handler | `slot_migration`, `slot_paused` |
| `SlotMigrationProofs`, `SlotMigrationDataProofs` | theorems about it | `tlapm` |

To run one: `tlc -workers 2 -config tx_primary.cfg MCTransactions`;
`tlapm TransactionsProofs.tla`.

---------------------------------------------------------------------------

## 1. Inventory

For each component: the state it keeps, its operations, whom it talks to, what is
hard about it, and what makes it correct. "Modelled" and "planned" refer to section 2.

**Transactions** (`multi.c`) — *modelled*. Per client: `CLIENT_MULTI`, `CLIENT_DIRTY_CAS`,
`CLIENT_DIRTY_EXEC`, the queue `mstate.commands`, the list of `watchedKey`s; per
database: `watched_keys`, one list of `watchedKey`s per name. Operations: MULTI,
queueing, EXEC, DISCARD, WATCH, UNWATCH, RESET, disconnection, `touchWatchedKey`,
`touchAllWatchedKeysInDb`. Called by every path that changes the keyspace. Hard: a
watched name may be live, absent or *expired but not yet deleted* when WATCH runs, and
the flag recorded then is used much later, after expiry, overwriting, FLUSHDB, SWAPDB
or a full synchronisation. Correct when an EXEC never runs after a watched name
changed, is never refused without reason, and runs exactly what was answered QUEUED.

**Keyspace and expiry** (`db.c`, `expire.c`) — *modelled as far as watchers see it*.
State: keys, values, expiry times; the clock sampled per command. Operations: lookup
with lazy expiry, write, overwrite, delete, EXPIRE, PERSIST, active expiry cycle, FLUSHDB,
FLUSHALL, SWAPDB. Hard: a key logically gone but physically present, whose deletion is the
primary's decision only. Correct when what a reader sees depends only on the
logical value.

**Client-side caching** (`tracking.c`) — *planned*. State: the table from keys to client
ids, BCAST prefixes, per-client OPTIN/OPTOUT/CACHING flags. Hard: a client disconnects,
switches mode or is evicted from the table between read and write. Correct when every
key a client may have cached is invalidated after it changes.

**Blocking commands** (`blocked.c`, `timeout.c`) — *planned*. State: per database,
`blocking_keys` and `ready_keys`, the timeout tree; per client, the keys it waits for.
Hard: several clients wait on several keys, an unblocked client re-executes its command
and may block again, timeouts race with data. Correct when no client stays blocked while
its key can be served, and each element goes to one client, oldest first.

**I/O threads** (`io_threads.c`, `networking.c`) — *modelled*. State: one ring of jobs per
thread, a mutex per thread on which it parks, per client `io_read_state`,
`io_write_state`, `cur_tid`, output buffer and membership of the pending lists. Operations:
send a read, write, accept, free or poll job; process finished ones; raise or lower the
number of active threads; CONFIG SET io-threads. Hard: everything interleaves with the
threads. Correct when rings are not overrun, a client is on one thread at a time and not
freed under it, no job is left with a parked thread, and every reply leaves.

**Background jobs** (`bio.c`, `mutexqueue.c`, `lazyfree.c`) — *the AOF worker is modelled with
the append only file*. State: a queue and a counter of pending jobs per kind. Hard:
`bioDrainWorker` waits on the counter of one kind while jobs of another may be queued behind it.
Correct when a drain returns only after every earlier job of its kind ran.

**Replication** (`replication.c`) — *modelled, without dual-channel sync*. State: the two
replication IDs and offsets, the backlog, the connection of each replica with its state on
both ends, the cached primary, the RDB child, the failover in progress; on disk, the ID and offset
saved with the RDB file. Operations: writes, PSYNC with its three answers, BGSAVE for replicas,
loading, REPLICAOF, FAILOVER, disconnection, restart. Hard: an ID and an offset stand for a dataset
that nobody compares; roles change while snapshots and streams are under way. Correct when a
replica that is being fed will have its primary's dataset, and an ID names one history.

**Append only file** (`aof.c`) — *modelled*. State: the manifest of base, incremental and
history files, the buffer, the file being written, the rewrite child, the fsync offsets, the
queue of the AOF worker; on disk, files, how much of each is synced, the directory and its
unsynced changes. Operations: flush, fsync, rewrite, CONFIG SET appendonly, SHUTDOWN, loading.
Hard: a crash between any two of rename, manifest write and unlink, and the failure of one of
them. Correct when what is loaded is a prefix of what was executed and has everything that
the fsync policy promised.

**RDB snapshots** (`rdb.c`, `rio.c`) — not modelled (byte-level encoding); the replication fields
and the life of the child are part of `Replication`.

**Cluster bus** (`cluster_legacy.c`) — *failover modelled*. State per node: `currentEpoch`,
`lastVoteEpoch`, the table of nodes (role, configuration epoch, flags), the table of slots,
the election in progress; on disk, `nodes.conf`. Operations: the handlers of
`clusterProcessPacket`, `clusterCron`'s failover part, `clusterBeforeSleep`, CLUSTER
FAILOVER. Hard: packets delayed and reordered between two links, retries, restarts, two
replicas acting at once. Correct when an epoch has one winner and all nodes end with the
same owner of each slot. Failure reports, handshakes, gossip sections, resharding and
pub/sub packets are not modelled.

**Slot migration** (`cluster_migrateslots.c`) — *modelled between primaries*. State: export and
import jobs, the client and the connection of each, the snapshot child and its pipe, the pause of
the source, owners and epochs in each node's table. Operations: CLUSTER MIGRATESLOTS and
CANCELSLOTMIGRATIONS, the SYNCSLOTS subcommands of both sides, cron, child and connection
handlers, ownership changes learnt by gossip. Hard: two processes, a child, a pause with a
deadline and the epochs of the bus, with a fault at any of a dozen steps, and several jobs on one
node. Correct when a slot has at most one writable owner, always some owner, and no write is lost
or applied twice.

**Sentinel** (`sentinel.c`) — *planned*: subjective and objective failure, leader election,
failover state machine. Correct when one leader per epoch reconfigures a group.

**Hash table** (`hashtable.c`, `kvstore.c`) — *planned*: incremental rehashing and the SCAN
cursor, whose promise (an element present throughout is returned) is a property of
integer arithmetic on reversed bits.

**Publish and subscribe** (`pubsub.c`) — *planned*: the client's and the server's tables must
mirror one another across unsubscription, slot removal and disconnection.

**Not planned.** Eviction and defragmentation (sampling heuristics), event loop, sockets,
TLS and RDMA (system calls), scripting and modules (an interface to foreign code), ACL and
configuration (parsing, tables), data types and encodings (sequential, unit-tested and
fuzzed), command-line tools, vendored libraries under `deps/`.

**Interactions.** The main thread's loop is the spine: events → commands → `beforeSleep`
(finished reads, cluster tasks, append only file, writes, asynchronous frees). A command
changes the keyspace, which touches watchers (transactions), invalidates caches
(tracking), marks keys ready (blocking) and feeds the replication stream and the append
only file. Cluster handlers set `todo_before_sleep` flags served in the same
`beforeSleep`. Only I/O threads and background workers really run in parallel with it.

## 2. Plan

Done, in this order: `Transactions` and its proofs (WATCH is the server's only optimistic
concurrency control and depends on every writer); `ClusterFailover` and its proofs;
`IOThreads`; `DurableLog` and `AppendOnlyFile`, the refinement; `Replication`; `SlotMigration`.

Theorems: the main safety invariants of `Transactions`, `ClusterFailover`, `IOThreads`,
`AppendOnlyFile`, `Replication` and `SlotMigration`, and the refinement of `DurableLog`, are proved
(sections 3 to 8). Next would be `OwnersHaveDistinctEpochs` and `SlotsGoForward` of `ClusterFailover`
(section 11).

Modules that would come after: `Blocking` and `Tracking`, which observe keyspace changes as
`Transactions` does; `Sentinel`, whose election follows the pattern of `ClusterFailover`;
`HashTable` (SCAN against a reference definition); `PubSub`.

---------------------------------------------------------------------------

## 3. Transactions

**State.** `dbs` is `server.db[]`: each name in each database holds an entry with an expiry
time and, for the value, a *stamp*: each write stores a stamp never used before, so any
change is visible as an inequality. `now` is `commandTimeSnapshot()`. `cl[c]` holds the
client's flags, its queue, its selected database, `watched` (its `watchedKey`s), `stale` (those
whose `expired` flag is set) and `ahead[w]`, the clients linked before it in the list of
`w`. That order matters: `touchWatchedKey` leaves the walk at some entries. `moved` and `acked`
are history: "a name I watch changed since I watched it" and "commands I was told are
QUEUED".

**Actions.** One per command or server event: `MultiCommand`, `RejectCommand` (a command
refused by `processCommand`, which flags the transaction), `WatchCommand`, `QueueCommand`,
`DirectCommand`, `DiscardCommand`, the outcomes of `execCommand` (`ExecAborted`,
`ExecRejected`, `ExecStart`, then `ExecStep` per command with its ACL check, `ExecEnd`),
`Disconnect`, `ActiveExpire`, `PrimaryCommand` (the replication stream), `FullSync`, `Tick`.
Commands other than EXEC are atomic, as the main thread makes them; EXEC is atomic too,
nothing else runs while `in_exec # None`, and its commands are separate steps only
because each one may be refused. Commands share the operators `ExpireIfNeeded`, `Write`,
`Replace`, ... which call `TouchWatchedKey` and `TouchAllInDbs` where the code does.

**Properties.** `WatchedChangeAborts`: an EXEC that starts has seen no logical change of a
name it watches (a value written, deleted, expired, swapped or loaded away).
`NoSpuriousAbort`: `CLIENT_DIRTY_CAS` is set only if there was a change. `QueuedIsRun`: the
queue of a running EXEC is as long as the QUEUED answers, although a flagged
transaction drops its queue while it goes on answering. `PrimaryInv` is the inductive
argument below, model-checked as well.

**Runs.**
- `tx_primary`: two clients, one key, two databases, every command that writes, expires,
  deletes or flushes; two clock ticks, two writes, a queue of one. Two clients are the least
  that put a `watchedKey` before another in a list; two databases the least in which SELECT and
  FLUSHALL differ from FLUSHDB; a key that is live, expired and overwritten needs the two ticks.
- `tx_replica`: the same names on a replica, whose changes come from its primary: SWAPDB,
  flushes and the database swap that ends a diskless full sync.

No fairness: nothing here has to happen; a server may wait for ever for a client.

**Proved** (`TransactionsProofs`, for every set of clients, keys, databases and commands, and
every bound):
- `TypeCorrect`: `Spec => []TypeOK`; `TypeOK` is inductive, one lemma per operator that
  transforms the state.
- `WatchInvariant`: `Spec => []PrimaryInv`. On a primary without SWAPDB (`Plain`),
  `StaleIsExpired` says a name flagged expired when watched still holds an expired key (a
  deletion clears the flag, and nothing else may replace the key); `ChangeIsPending` says that a watched name that changed has
  left `dirty_cas` or a key whose expiry `IsWatchedKeyExpired` will notice. The second alone
  is not inductive: the walk of `touchWatchedKey` stops early at an entry flagged
  expired over a live key, and only the first rules that entry out.
- `WatchIsSafe`: assuming `Plain`, `Spec => WatchedChangeAborts`, an action property, from the two.

`Plain` is needed: with SWAPDB the property fails (section 10, observation 1).
On a replica `WatchedChangeAborts` is only model-checked.

On primaries and replicas:
- `QueueIsRunWhole`: `Spec => []QueuedIsRun`. `QueueInv`: outside MULTI
  nothing is queued or acknowledged; a transaction with neither dirty flag holds every command
  acknowledged; and the client inside EXEC watches nothing, so that no command of its queue can
  flag it and drop the rest.
- `AbortsAreJustified`: assuming `Signals`, `Spec => []NoSpuriousAbort`. `AbortInv` adds to the property that
  a name flagged expired is physically present, that another watched name expires only after a
  change was noted, and that no stamp is of the future or under two names, so that a swapped or
  reloaded name that holds the same stamp has not changed. `Signals` is: a primary, SWAPDB included; or
  a replica that loads by swapping databases and gets no SET with an expiry already past. In the
  other cases the code touches watchers without comparing.

**Not modelled.** Memory accounting of queues, scripts inside transactions, RENAME/COPY/MOVE
(a deletion and a write to the model), hash field expiry, client eviction.

## 4. ClusterFailover

**State.** One shard is followed in full: nodes `Shard`, one of them the primary `First`;
`Voter` are the primaries of other shards. The shard's slots move as one. `node[n]` is the
part of `clusterState` that failover uses (the comment in the module gives field by field
correspondence); `disk[n]` is `nodes.conf`; `unsaved` are the nodes with
`CLUSTER_TODO_SAVE_CONFIG`; `net` is the *set* of packets in flight, so packets overtake
each other and may stay undelivered for ever; a packet carries the sender's header as of
sending.
`granted` and `wins` are history.

**Actions.** `SendPing` (and PONG broadcasts); `ReceivePing`, `ReceiveUpdate`,
`ReceiveRequest`, `ReceiveAck`: `clusterProcessPacket` from the epochs of its preamble to the
role, slots and collision handling, each with the UPDATE, PONG or ACK it sends.
`MarkNodeAsFailing`/`ClearNodeFailure` abstract failure detection (any node may come to see a
node of `mode.canfail` as failing, at any time). `ScheduleElection`, `StartElection`,
`StartManualElection`, `WinElection` are the branches of `clusterHandleReplicaFailover`; delays
and ranks become nondeterminism, since correctness must not depend on them. `AskFailover`,
`StartFailover`, `ManualFailoverTimeout`, `Takeover` are CLUSTER FAILOVER and its variants.
`BeforeSleep` saves; `Crash` is a crash and the restart from `nodes.conf` that follows.

An election that is given up leaves its packets where they are: votes for it may arrive in the next
one. `failover_auth_count` is reset when an election is scheduled (5518) and the epoch that filters votes
changes when it starts (5605), so a vote that arrives in between is counted in the wrong election (4303). The
history field `late` of a node remembers that the current count includes such a vote, and a
record of `wins` keeps it.

The constant `EarlyWrite` tells apart a behaviour the code allows but does not intend: nodes
whose packets may leave before `clusterBeforeSleep` saved what they promise (packets are
queued in the handler and written by the event loop, as a rule after the save, but a link
that is written within the same iteration goes first).

`Modes` is a set of scenarios, of which a behaviour has one, `mode`: which nodes are down, seen as
failing or may come to be, and to which users send CLUSTER FAILOVER; and the bounds on the epochs of
elections and takeovers, on pings in flight and on crashes.

**Properties.** `OneVotePerEpoch`; `WinnerHasMajority` (the votes a winner counted were granted for its
epoch, by a majority of the primaries it knows of) and `ElectionSafety` (an epoch has one
winner), both of winners that counted no late vote; `OneWinnerPerEpoch`, the same of all winners, as the
comment at 2359-2361 has it, which is false (section 9); `OwnersHaveDistinctEpochs` (no two nodes that own
the slots in their own eyes hold the same configuration epoch, without takeovers and late votes); `CurrentEpochIsMax` (in memory and on disk);
`NoSlotsToGiveUp` (the assertion of `clusterSetPrimary`, which would abort the server);
`SlotsGoForward` (a node's idea of the owner never moves to a smaller epoch); `Converges` (all
reachable nodes finally agree on one owner, its replicas follow it).

**Runs.**
- `cf_election`, with the scenarios `Elections` of `MCClusterFailover`. *Retries*: p is dead; r1 and r2 compete
  for v1 and v2 in up to two elections (epochs 2 and 3), which is enough for a rival and for the votes of
  one election to arrive in the next. *Restarts*: one epoch; r1, v1 and v2 restart, two crashes in all, so one node
  twice or two of them once. *Manual*: p is up and votes on its own replacement, a voter is away; r1
  takes over and p takes back, both replicas are told to, a failure that comes and goes gives r2 or r1
  again an election besides the manual one; manual failovers, plain and forced, time out. v1 and v2
  are symmetric, and so is the set of scenarios. 1.1 million states.
- `cf_converge`: both replicas of a dead p take over, up to three times and possibly with the
  same epoch, one node restarts, `FairSpec`.
- `cf_late_votes`: the scenario *Retries* again, for `OneWinnerPerEpoch` (section 9).

One PING is in flight at a time (`pings`); requests, acknowledgements and updates are not
bounded by it. A larger number lets an old PING be processed after a newer one
(section 10). `CHECK_DEADLOCK FALSE` in `cf_election`: once the epochs are used up nothing is
left to do.

**Fairness** (`FairSpec`). Each node serves what it receives (WF, per receiver, on `ReceivePing` and on
`ReceiveUpdate`): the event loop reads every link. Each
node goes on pinging every peer it has a link to (SF on `SendPing`, because the bound on
pings in flight disables it now and then): `clusterCron` pings a node not heard of within half
the node timeout. No fairness for elections, failures, takeovers or crashes.

**Proved** (`ClusterFailoverProofs`, for all sets of nodes, all bounds and all schedules):
- `TypeCorrect`; `EpochsInOrder`: `CurrentEpochIsMax`. Inductive invariant `FailoverInv`:
  types plus "no configuration epoch above `currentEpoch`" *in memory, on disk and in every
  packet's header*. The packets are needed because a receiver adopts the header's `currentEpoch`
  and `configEpoch` together; the disk because a restart computes memory from it.
- `VotesAreUnique`: `OneVotePerEpoch` if `EarlyWrite = {}`. Strengthening `VotesInv`:
  `lastVoteEpoch` is at least the epoch of each vote the node ever granted, in memory and on disk.

`ClusterElectionProofs`:
- `WinnersHaveMajorities`: `WinnerHasMajority`, if `EarlyWrite = {}`. `CountInv`: an epoch is
  used for one election of a node only (requests, votes and saved epochs are never above the
  epoch it has reached, in memory and on disk); an acknowledgement in flight is of a vote granted, and
  no two are of the same vote; the count of a scheduled election is 0 and that of a running one is the number
  of a set of votes granted in its epoch, none of which is still in flight, unless `late` is set. Votes of earlier
  elections may be in flight at any time; the invariant shows that, once an election runs, the filter on the
  epoch lets none of them through, so the time between scheduling and start is the only gap.
- `ReplicasOwnNoSlots`: `NoSlotsToGiveUp`, without assumptions. `LandlessInv`: a node that sees itself as a
  replica owns nothing in its own table, in memory and on disk, and no packet comes back to its sender.

`EarlyWrite = {}` is the assumption observation 5 is about. `ElectionSafety` is model-checked only: that two
majorities meet depends on how many nodes vote in an epoch, and an old and a new primary of the shard may
both vote in one; in the small shards of the run this does not give two winners.
`OwnersHaveDistinctEpochs` and `SlotsGoForward` are model-checked only; `Converges` is liveness,
which TLAPS 1.4.5 cannot prove.

**Not modelled.** Failure reports and the FAIL flag's quorum, handshakes, MEET, gossip, node
removal, resharding and slot states, replica migration, data age, shard ids, pub/sub and
module packets, light headers, a `nodes.conf` that cannot be written.

## 5. IOThreads

**State.** `jobs[t]` is the ring of thread t with `head`, `tail` and slots; `thr[t]` where the
thread is in `IOThreadMain` and its `jobs_to_process`; `mutex[t]` who holds the mutex it
parks on; `active`, `num` are `active_io_threads_num`, `io_threads_num`; `poll` is
`io_poll_state`; `cl[c]` the client's I/O states, thread, output buffer and list memberships;
`main` where the main thread is in its loop, with what is left of the list it walks and the
progress of a resize.

**Actions.** The main thread: `BeforeSleep` and the phases it starts, in the code's order:
finished reads (`SkipRead`, `ReadDone`, `ReadResize`), `AdjustForWrites`
(`adjustIOThreadsByEventLoad`: `Activate`, `Deactivate`, `Adjusted`), `PendingWrite`, reads again,
`WriteDone`, `FreeQueued`, then `Sleep` and the events `Accept`, `Readable`, `ReadableResize`,
`Writable`, `CloseAsync`. CONFIG SET io-threads: `ResizeNothing`, `Drained`, `LockActive`,
`CreateThreads`, `BeginShrink`, `Unblock`, `ShutdownIOThread`, `Joined`, `Resized`. A thread:
`TakeJobs`, `GiveUp`, `Pass` (lock and unlock of its own mutex), `Handle` (do the job, publish the
state), `Remove` (take it off the ring), `Cancelled`.

**Abstractions.** The main thread's work for one client is one step, which is sound for
what the threads can observe of other clients; a thread's handling and removal of a job are two.
The order of a pending list is not kept: any order is explored. The number of events,
hence the target of an adjustment, is arbitrary. Events may happen while the poll job runs.
Memory is sequentially consistent: the acquire/release pairs of the code are taken to work.
The second unlock of one mutex in a shrink (section 10) is taken to do nothing. `Features` bounds
what happens besides requests and replies in one run.

**Properties.** `RingOK` (occupied slots are those from tail to head, and no thread processes more
jobs than there are); `OneThreadPerClient` (the unfinished read and write of a client are on one
ring); `JobsOnActiveThreads` (no job waits at a parked thread, where a drain would
spin for ever, and no thread is parked or cancelled in the middle of one); `JobMatchesState` (a direction of a client is
pending exactly while one unfinished job exists for it, so nothing is freed under a thread);
`ReplyIsScheduled` (output that is not empty is on a list, in flight, or has a
write handler); `IOCompletes` (every pending read or write ends). Deadlock is checked: waits
of the main thread are steps not yet enabled, so the absence of a deadlock shows they end.

**Runs.** `io_threads`: one client, up to three threads, rings of three slots that fill and wrap,
parking, CONFIG SET io-threads, poll jobs and failing connections, under `FairSpec`.
`io_replies`: two clients that publish to and kill each other, TLS handshakes and freeing jobs,
a fixed number of threads, up to two replies in a buffer (`MaxOut = 2`), so that a reply is added to a buffer that
is not empty and to one that a thread is writing. Rings of
seven slots fill only with freeing jobs among the others; with six slots the case of observation 7 appears. Two threads suffice for what concerns moving a
client from one to another; three slots are the least in which head and tail can lap; two
clients the least for a reply that comes from another client's command.

**Fairness.** WF of the main thread's steps and of each thread's: the operating
system schedules every runnable thread, and no step waits for another but by being disabled.

**Proved** (`IOThreadsProofs`, for any number of clients and threads, any ring size and all features):
- `TypesAreKept`, `RingsAreSound` (`RingOK`), `JobsMatchClients` (`JobMatchesState`), `ClientsHaveOneThread`
  (`OneThreadPerClient`), `JobsAreAtActiveThreads` (`JobsOnActiveThreads`). One invariant, `IOInv`, carries
  all five: the slots from tail to head are those with a job and a thread has no more to process than
  there are; an idle thread's ring is empty; the unfinished jobs of a client are exactly one per pending
  direction, at the thread the client records, and an accept is its only job; the rings are
  empty from the end of a drain to the end of a resize, in which the client that resizes has nothing
  in flight. None is inductive alone: a ring cannot be overrun because jobs are sent only to active
  threads, a thread can be parked because its ring is empty, and it is empty because pending clients
  are found in it. `IOInv` is an invariant of values and not of variables, since one step of
  the main thread goes through several states that the lemmas describe one by one.
- `RepliesAreScheduled`: assuming no CONFIG SET io-threads, `Spec /\ []RoomInRings => []ReplyIsScheduled`. `ReplyInv`
  adds that a client with replies, even one that is being read, is listed or has its handler
  unless its write is in flight, and that threads are not parked between the two walks that read and
  write. Both premises are needed: without them observations 7 and 8 of section 10 apply.

`IOCompletes` and the absence of deadlocks are model-checked only.

## 6. AppendOnlyFile and DurableLog

**The promise.** `DurableLog` has no files: a log of writes, a prefix of which is *safe*. A failure
may cut the log back to any prefix that contains the safe one; turning the AOF off ends the promise,
turning it on renews it. `AppendOnlyFile` is mapped to it by `log <- data`, `safe <- safe`,
`on <- (st = "on")`, and `ImplementsDurableLog` is the abstract specification as a property. `safe` in
the detailed module moves where the code promises something: at the reply to the client under
appendfsync always, at `write(2)` under everysec and no (which promise only that the death of the
process loses nothing that was written).

**State.** `data` is the dataset as the sequence of its writes and its length stands for
`primary_repl_offset`. `buf`, `st`, `fd`, `am`, `tm`, `sched`, `fsoff`, `pending`, `fsynced` are the fields
of `server` named in the module. The disk: `cont[i]` and `synced[i]` are the contents of file
i and how much of it has reached the disk; `dirs` is the *sequence* of directory states since the
directory was last synced, each with its entries and its manifest; a loss of power keeps any one of
them and any length between `synced` and the whole of each file, with a torn last command
where the cut falls inside one. `bio` is the queue of the AOF worker.

**Actions.** The main thread's `pc` is the *system call it is about to make*, so a crash or a fault
falls between any two: the branches of `flushAppendOnlyFile` (`FlushEmpty`, `FlushPostpone`, `FlushWrite`,
`FlushError`, `FsyncAlways`, `FsyncInBackground`) and the `Reply` after it; a rewrite from
`OpenNewIncrAofForAppend` and `PersistNewIncr` over `DrainBioFsync`, `Fork`, `ChildExits`, `ReapChild`,
`RenameBase`, `RenameIncr`, `PersistRewrite` to `DelHistoryFiles` and `RewriteDone`; `StartAppendOnly`,
`StopAppendOnly`, `PrepareForShutdown`; `Crash`, `LoadAppendOnlyFiles`, `OpenOnServerStart`.
Another child of the server (RDB, module) is the nondeterministic `busy`.

**Fault model.** `mode.faults` names the calls that may fail (write, fsync, open, manifest, directory
sync, rename, fork, child); the failing branch does what the code does, undoing included.

**Properties.** `NeverRefusesToStart` (no crash leaves a directory the loader rejects);
`FsyncedIsDurable` (what WAITAOF reports cannot be lost); `ImplementsDurableLog`; `WaitEnds`
(an AOF being turned on gets there, although its first rewrite may fail or be postponed);
`WritesResume` (a write error is cleared once writing works again).

**Run** `aof`: always against a loss of power with every fault of a rewrite, everysec against
the death of the process with failing children and with failing writes, and no. Two writes (one on
each side of a rotation), two operations (turn off and on, or two rewrites), one fault, one
crash; nine files are more than any behaviour needs (a step that creates a file waits for a free
one, which with nine never happens). **Fairness**: the main thread does not stop
in the middle of a function, the worker and the child end (WF); `serverCron` finds a child that
ended and a scheduled rewrite again and again between other things (SF). No fairness for commands,
crashes or faults.

**Proved** (`AppendOnlyFileProofs`), for any number of writes, operations, faults, crashes and files:
`NeverRefusesToStart` (`NeverRefuses`), `FsyncedIsDurable` (`FsyncedSurvives`) and `ImplementsDurableLog`
(`KeepsItsPromise`). The premise is `Sturdy`, which leaves out exactly the scenarios of observations 10
to 14: no rewrite while the AOF is off, no failing sync of the directory, no failing write in
a scenario with rewrites, and appendfsync always when the failure is a loss of power. The module of the
run asserts that its scenarios satisfy it.

*The inductive invariant* `Inv`. The three properties compare what was executed with what a start
would load, so the invariant is about `L`, the concatenation of the files that the manifest on disk names:
- `Flow`, `Counts`, `Memory`, `Directories`, `Files`: types; outside a start no file ends in a torn command;
- `Control`: what each position of the main thread says of the AOF state, the buffer and the child;
- `Disk`: all directories a failure may leave have one manifest and, for its names, the same files;
- `Manifests`, `Prepared`, `FirstStart`: the manifest in memory names the files of the one on disk, its
  numbering goes upwards, history is older than everything it names, and a handler's temporary
  manifest is the next one;
- `Synced`: against a loss of power every file but the one being written is on disk;
- `Contents`: `L \o buf = data` while the AOF is engaged, `L` is a prefix of `data` while it is not, and
  the child's snapshot, the file being written and the buffer add up to `data` while it waits;
- `Bounds`: `pending`, `fsynced`, `safe` and the offsets of the jobs are at most
  `Len(data) - Len(buf) - Lag`, where `Lag` counts the writes that only the page cache has.

*The argument.* A flush moves the buffer to the end of the last file and so to the end of `L` (`LogWrite`);
a rotation appends an empty file (`LogNew`); the new manifest of a rewrite replaces all files but the last
by the snapshot, which `Contents` says is the same; deleting history touches no named file; a loss of
power crops the last file only, by at most `Lag` (`LogCut`). Then a start loads `L`, a prefix of
`data` no shorter than `safe`, which is `Recover` of `DurableLog`. These lemmas need an induction
over the sequence of files. The library's induction theorems take an operator, which the
provers cannot instantiate, so `Induction` is derived for sets from `WFMin` and the
well-foundedness of `<`, and `FlattenSeq` is characterised with it (`ConcatExists`, `FlattenAppend`).
`WaitEnds` and `WritesResume` are liveness and stay with TLC, as does `TypeOK`.

**Not modelled.** no-appendfsync-on-rewrite, a partial write whose truncation fails too, CONFIG SET
appendfsync, aof-disable-auto-gc, the upgrade of an old-style AOF, the delay between
retries of a failing rewrite.

## 7. Replication

**State.** `srv[s]` is a server's memory: dataset, the replication IDs `id` and `id2` with the offset
`second` up to which the latter holds, backlog, role and handshake state, `primary` and `cached`
(`server.primary`, `server.cached_primary` as an ID and an offset), `initial` (the position
announced by FULLRESYNC), the failover and the RDB child. `conn[s]` is the connection of s to its
primary with the primary's end of it: `st` (`repl_state` of the replica's client there), `out` what
is in the socket, `pend` the commands buffered while a snapshot is made. `disk[s]` is the RDB file
with its `repl-id` and `repl-offset`. A command counts for one unit of offset.

**Actions.** `Write`; `SyncCommand`, which answers CONTINUE, FULLRESYNC or an error and attaches a replica to a
snapshot under way if it can; `ReplicationStartPendingFork`, `BgsaveDone`, `BgsaveFails`;
on the replica `ReplicaSendPsyncCommand`, `ReplicaProcessPsyncReply`, `ReplicaLoadPrimaryRDB` (and its
failure after the old dataset is gone), `CommandProcessed`, which applies a command and proxies it to
sub-replicas, `ReplicationHandlePrimaryDisconnection`; `ReplicaOf`, `ReplicaOfNoOne`; `FailoverCommand` in
its three forms, `UpdateFailoverStatus`, `FailoverTimesOut`, `FailoverAbort`;
`ReplicationCronFreeBacklog`, `Save`, `Restart` from any saved file, `LinkFails`.

**Properties.** `ReplicaFollows`: a replica that is fed will have *exactly* its primary's dataset once
it has read what is under way, however it was attached. `OneHistoryPerId`: of two datasets
known under one ID, in memory or in an RDB file, one is a prefix of the other. `BacklogForReplicas`:
what several assertions rely on. `FailoverLosesNothing`: a failover that is not forced loses no
write. `ReplicasConverge` and `FailoverEnds` are liveness.

**Runs.** `repl_roles`: three servers, a star and a chain, disk-based and diskless snapshots, two role changes or
one with a fault, or a failover with a fault; three servers are the least in which a replica has
a sibling or a replica of its own. `repl_restarts`: two servers, one restart from a file
of any age, a backlog that is freed, failing snapshots and loads, two failovers with a fault, `FairSpec`.
A backlog of one command makes both "in the backlog" and "no longer there" happen with two writes.
`CHECK_DEADLOCK FALSE`: when all is replicated and the bounds are used up nothing is left to do.
**Fairness**: sockets and timers are served by the event loop and a child ends; commands and faults
need not happen.

**Abstractions.** The handshake before PSYNC is one state; acknowledgements are read where they are
used (`CaughtUp`); a closed connection is noticed by the primary at once; the backlog is trimmed
command by command. **Not modelled**: dual-channel and rdb-only synchronisation, the old SYNC, capabilities and
filters, swapdb diskless loading, killing the child with its last replica,
a restart with the AOF on, MULTI in the stream, PING and GETACK, WAIT.

**Proved** (`ReplicationProofs`, for any finite set of servers, any backlog size and any scenario):
`HistoriesAgree`, the inductive invariant, and from it `TypesAreKept` (`TypeOK`), `ReplicasNeedBacklog`
(`BacklogForReplicas`), `ReplicasFollow` (`ReplicaFollows`) and `IdsNameOneHistory` (`OneHistoryPerId`).
The last two say nothing of what is *under way*: a position asked for, a snapshot of a child, a file, the
commands behind an answer. `ReplicationInv` therefore says that there is a history for each ID, `H[i]` with its
dataset, its offset and whether servers other than the one that made the ID may know it, such that:
- what a server has, if it may resume or let others resume from it, and every file and snapshot
  with replication fields, is the beginning of the history it names; the backlog is the end of the
  dataset, and the former ID names the dataset up to `second`;
- a primary with a backlog is at the end of the history of its ID, one without has an ID
  nobody knows, and no two primaries have one ID;
- what a replica will have when it has read its connection (`Delivers`, one form for each answer and
  moment of the handshake) is the dataset of a primary that feeds it, and the beginning of the history
  it will name if the connection was closed or the primary has changed since.

`H` is bound in the invariant and is no history variable: each step of the proof names the new histories,
longer by a command, with a new ID, or cut at a change of role. The proof needs of the constants that servers are
finitely many (the model enumerates them) and that `None` is none of the values it stands beside. Before
the proof TLC evaluated the invariant, with `H` computed from the state, on some hundred thousand states
of two and three servers. `FailoverLosesNothing` compares a state with an earlier one through
the positions that were acknowledged and stays model-checked, as does liveness.

## 8. SlotMigration

**State.** `exp[j]`, `imp[j]`, `link[j]` are the two sides of migration job j and the connection between
them: the export's state, its deadline `mf` (none, armed, late), its output buffer `out` and whether
the client is in the pending write queue, `pend`; the import's state; the bytes under way in both
directions and which ends are open. `node[n]` holds the data of each slot as the sequence of its
writes, the owner of each slot and the epochs as n sees them, `paused`, the snapshot child and
whether the descriptors of its pipe are set. `bus` holds one PONG per direction, which may be
arbitrarily old when it arrives. `acked`, `risk` and `asserts` are history: the writes acknowledged,
the slots whose source stopped waiting after it had granted the failover, and the assertions that
failed (after which the node restarts).

**Actions.** One per SYNCSLOTS subcommand on either side, one per branch of `proceedWithSlotMigration`,
the steps of the child and of `backgroundSlotMigrationDoneHandler`, the closing of the connection seen
by each end, the two deadlines, CANCELSLOTMIGRATIONS, FLUSHALL, BUMPEPOCH, restart, and the
sending and processing of a PONG with `clusterUpdateSlotsConfigWith` and what it does to jobs.
`finishSlotMigrationJob` is `FinishExports`, `FailImports` and `FinishImport`, part of each action that
calls it.

**Properties.** `OwnerHasAll`: an owner has every acknowledged write to its slot, in order, once, and
nothing else. `OneWriter`: two nodes never both accept writes to a slot. `SlotHasOwner`: some node
holds itself for the owner. `NoDirtyKeys`: keys are only in slots a node owns or is still
importing. `GrantedIsPaused`: a source that has granted the failover stays paused. `JobsNeverStuck`: if
no node has a step to take, all jobs have ended and nobody is paused. It is freedom from
deadlock over all jobs; each job takes finitely many of these steps, so with a fair event
loop they do end. (`<>` itself, with fairness per job, is beyond what TLC does here in minutes.)
`OwnerHasAll`, `OneWriter` and `SlotHasOwner` except slots in `risk`: there the code itself warns
"Write loss risk!" (`cluster_migrateslots.c:2110`), and cancelling, restarting or a pause that
runs out on a busy source after the grant are the same case.

**Runs.** `slot_migration`: six scenarios of two nodes, two slots and two jobs. An attempt and its retry,
with the source's epoch below and above the target's, one fault or command on the source, or on the
target; with two lost links or restarts; two jobs that share the source, its child and its pause;
two jobs in opposite directions. One write at any moment of a behaviour shows a write that is lost
or applied twice; the scenario with two writes, and no fault, shows one that is applied out of order
(one write before the fork and one after it). `slot_paused`: section 9.

**Abstractions.** Every node has other slots too, so no node loses its last one; appendfsync is always and the
cluster configuration is saved with the step that changes it; AUTH is merged into the
connection and the periodic ACKs are left out but for the first; the output buffer is flushed at
once; cron serves jobs in any order; the PONG broadcast after a takeover is a later `SendPong`.
**Not modelled**: replicas of either side (import jobs "occurring on primary", promotion, full
sync), the RDB section of imports, SETSLOT migration, other child processes, third nodes with
UPDATE packets, module events, the job log.

**Proved** (`SlotMigrationProofs` and `SlotMigrationDataProofs`, for any nodes, slots, jobs and scenarios): `GrantedStaysPaused`
(`GrantedIsPaused`) and `NoStrayKeys` (`NoDirtyKeys`), from `MigrationInv`. An export that was granted keeps its
deadline (outside `risk`), so that the end of another job never ends the pause; keys for an import
travel only after it began, the child writes only for an export that is fed, and the target's end of the
connection is open only while the import is in progress, so no key arrives after the clean-up.

`OneWriterAlways` (`OneWriter`), from `WriterInv`, which adds to `MigrationInv` who may let a slot be
written. `Home`: an exported slot is owned by its source. `Apart`: by one export only. `Fresh`: nothing is
queued before there is a connection. `Sole`, the heart of it: a slot outside `risk` has at most one holder,
either a node that owns it and has not granted its failover, or a migration whose FAILOVER-GRANTED is in a
buffer or on the wire or whose import was granted. `NoEcho`: no node sends a PONG to itself. A
step that gives this right to nobody is `Calm` and keeps `WriterInv` by one lemma, so most actions are proved
by showing that they are calm. Three are not: CLUSTER MIGRATESLOTS, the grant, and
`performSlotImportJobFailover`; for them `Sole` says that nobody else had the right. The claim in a PONG
is calm, because the receiver only ever gives a slot up, whatever the epochs say. The proof assumes finitely many nodes,
whose names are natural numbers (node names are compared when epochs collide), and that no migration
has its source as its target (`TargetAssumption`; the command refuses it, `cluster_migrateslots.c:1216`).

`OwnerHasAllAlways` (`OwnerHasAll`, in `SlotMigrationDataProofs`), from `DataInv`, which adds to `WriterInv` what the messages under way are
worth. `Whole`: who holds a slot outside `risk` has all of its acknowledged writes, in their order. This is not
inductive, because at the takeover the holder becomes a node whose keys came over a connection; for that a
migration owes its target two things (`JobData`). `Staged`: no key is sent before the snapshot, over a cut
connection or to a target that has not accepted the job, the output waits while the child writes
(hazard at `cluster_migrateslots.c:2046`), and an end of an export empties it. `Copied`: the target
does not own what it imports and starts from nothing; the connection, the child and the output, read in
this order, turn (`Brings`) the keys of the target into those of the source as long as the export is fed,
and wherever FAILOVER-GRANTED comes among them, or has come, the keys before it are all the acknowledged
writes. `OneImport`: a node imports a slot once at a time, so no other job adds to its keys. `Turns` says what
a sequence of messages makes of the keys by the existence of the copies in between, so
that its lemmas (concatenation, the first and the last message) need no induction. A step that moves no
key of a migration is `Tame`. The others move a message from one of the three sequences to the next, or
the first one into the target's keys, and leave what they make unchanged. A write adds the same to the source
and to the last sequence, and there is no grant among them, because then the source would be paused
(`Sole`). FLUSHALL ends every migration of its node, in both directions, before it empties what it owns.
`NoneAssumption` says that the placeholder for no child differs from every child.

`SlotHasOwner` (section 11) and `JobsNeverStuck` (`ENABLED`) are model-checked only.

## 9. Findings: the runs that are expected to fail

`slot_paused`. A node that is paused (`PAUSE_ACTION_REPLICA`) for the failover of its own export may at the same
time have an import end: its source cancels it, or the link is lost. The clean-up in
`proceedWithSlotMigration` deletes the keys, which the pause allows, and then `finishSlotMigrationJob`
propagates SYNCSLOTS FINISH (`cluster_migrateslots.c:995`), which the assertion of `propagateNow`
(`server.c:3526`) does not: the server aborts. The trace has twenty steps of two nodes.

`cf_late_votes`. r1 asks v1 and v2 for their votes in epoch 2, gets them, but gives the election up before the
two acknowledgements arrive and schedules another: the count is reset, `failover_auth_epoch` is still 2, so both
are counted while r1 waits. Meanwhile r2 asks for votes in epoch 3 and v1 and v2 give them. r1 starts
its election, in epoch 3 too, finds a quorum in its count at once and is promoted without a vote of that
epoch; r2 wins epoch 3 by a majority. The comment at `cluster_legacy.c:2359-2361` excludes it. With
the retry time alone it takes a vote delayed by that long; but a claim of a greater epoch ends a running
election at once (3816-3822) and `clusterHandleReplicaFailover` schedules the next, after which an ordinary delay is
enough. The collision of the epochs that results is resolved as other collisions are (`cf_converge`).

## 10. Observations without a run of their own

Each is a change of constants away, and explains why a run excludes it.

Transactions
1. SWAPDB and a key that was expired when watched. `touchAllWatchedKeysInDb` (`multi.c:480`) flags the
   client of a `watchedKey` whose expired key SWAPDB replaces by a live one, but leaves `wk->expired` set. A
   later `touchWatchedKey` (420-428) meets that entry, finds the key present and leaves the walk, so
   clients behind it are not flagged and their EXEC runs. `tx_primary.cfg` with `MaxStamp = 3`,
   `MaxQueue = 0`, `Commands <- SwapExpiryCommands` violates `WatchedChangeAborts`.
2. A replication stream that overwrites an expired key watched by several clients
   (`multi.c:428`): the same early exit, on a replica (`tx_replica` with expiring keys).
3. A disk-based full sync adds keys without touching their watchers (`rdb.c:3475`;
   `LoadModes = {"reload"}`).

Cluster failover
4. Votes for an election that was given up: section 9, `cf_late_votes`.
5. A vote that leaves before it is saved is forgotten by a crash (5243; `cf_election.cfg` with `EarlyWrite = {v1}` and
   no symmetry violates `OneVotePerEpoch`). A candidate whose requests leave before its epoch is saved
   and that crashes starts again from an older epoch, and votes for the forgotten election then pass the
   filter at 4303, which is `>=` (`EarlyWrite = {r1}` with the scenario *Retries* and a crash violates
   `WinnerHasMajority`).
6. An old PING processed after a newer one from the same node (4082; `cf_converge.cfg` with two pings,
   `Voter = {}` and no restarts violates `Converges`).

I/O threads
7. `handleClientsWithPendingWrites` (`networking.c:3173`) drops a client from the pending list when
   its thread's ring is full and its read is in flight; its replies stay in the buffer until
   something else sends a write for it, against 458-459. `io_replies.cfg` with `QueueSize = 2` and
   no features violates `ReplyIsScheduled`.
8. CONFIG SET io-threads between the decision to skip a client and the next walk can leave its reply
   unscheduled (`networking.c:3170`; `io_replies` with "resize").
9. A shrink unlocks the mutex of a thread twice (`io_threads.c:340`, 290), which POSIX leaves
   undefined for the default mutex type.

Append only file
10. A rewrite while the AOF is off moves all incremental files to the history list; if the process dies
    before they are gone, `aofLoadManifestFromFile` (345-352) restarts the numbering and the next
    start reuses a name of the history list, which it then deletes. The comment at 2745-2746 holds
    the failure of the deletion for harmless. `Modes <- MCOffRewrite`, `MaxCrashes = 2` violates
    `NeverRefusesToStart`.
11. Under everysec a flush with an empty buffer takes everything for fsynced (1076-1083) although the last
    write is only in the page cache: `Modes <- MCWaitaof` violates `FsyncedIsDurable` (as
    the only invariant: the promise is broken, so `safe` leaves its range too).
12. A failing sync of the directory after the manifest was renamed makes `persistAofManifest` fail, and the
    new base is unlinked although the manifest in place names it ("dirsync" among the faults).
13. A write that fails and stays in `aof_buf` while a rewrite forks is in the new base and in
    the new incremental file ("write" among the faults of a mode with "rewrite").
14. Under everysec the old file is closed in the background at a rotation: a loss of power may keep the
    new file and not the end of the old one. A failed background fsync denies writes and nothing
    retries it. `bioDrainWorker(BIO_AOF_FSYNC)` does not wait for a BIO_CLOSE_AOF job.

Replication
15. An unforced FAILOVER loses writes if its target restarts from an older file, or is moved to a
    sibling that lags, between the check that it caught up and PSYNC FAILOVER; if the answer to
    PSYNC FAILOVER is lost, both servers are primaries; without a time limit it waits for ever when its last
    replica has gone. Hence no restarts in the failover scenarios, and `ReplicasConverge`
    leaves out a primary that is failing over.
16. Without AOF and backlog the offset stays 0, so any replica counts as caught up
    (the target then refuses PSYNC FAILOVER because the IDs differ).

Slot migration
17. A slot that is moved and moved back: in the second migration the source has granted the failover,
    and accepts *any* claim of the target regardless of its epoch (`cluster_legacy.c:3014-3024`),
    such as a PONG of before the first migration. It deletes the keys of a slot that then nobody owns:
    `Modes <- MCMovedBack` violates `SlotHasOwner` in 38 steps, without any fault.
18. The source's epoch is raised (BUMPEPOCH, a collision, an import of its own) while PONGs cross: source
    and target each give the slot to the other (`SlotHasOwner` with "bump" at node 1).
19. A failed fork leaves `slot_migration_pipe_read` set (`cluster_migrateslots.c:1641`), and the assertion
    at the next snapshot aborts the server; the model follows the abort and the restart.
20. CANCELSLOTMIGRATIONS and a restart of the source after FAILOVER-GRANTED end the pause although
    the target may still take over (`risk`).
21. An ACK that was written in part leaves a write handler and no `pending_write` flag, which the
    check before the snapshot (2046) does not see; partial writes are not modelled.

## 11. What stays with TLC

Liveness under fairness and `ENABLED` are beyond TLAPS 1.4.5. Induction over data works only in
the form of section 6, and not over RECURSIVE operators, of which the modules therefore have none.
`Converges`, `IOCompletes`, `WaitEnds`, `WritesResume`, `ReplicasConverge`, `FailoverEnds` and
`JobsNeverStuck` (which uses `ENABLED`) stay with TLC.

Not proved: `SlotHasOwner`, which is false of a slot that is moved back while an old PONG
is under way (observation 17) and so holds on the scenarios of the run, not for all of them;
`FailoverLosesNothing`; `ElectionSafety` (section 4);
`OwnersHaveDistinctEpochs` and `SlotsGoForward`, which rest on no node ever following one whose
epoch it takes for 0: `FollowChain` follows a node only a third one vouched for, so this is a statement
about chains of replicas that the small shards of the runs satisfy and that is not inductive.

`WatchedChangeAborts`, `NoSpuriousAbort`, `OneVotePerEpoch`, `WinnerHasMajority` and
`ReplyIsScheduled` are proved under the premises given with them; without these they are false of the
code (section 10) or checked on the instances of the runs.

The `TypeOK` of `IOThreads` is proved and not checked by a run; the ones of `AppendOnlyFile` and
`SlotMigration` hold on the instances above, whose runs spend their time on the other properties.
