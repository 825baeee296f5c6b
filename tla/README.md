# raftKV in TLA+

This directory holds a TLA+ model of raftKV: modules that model the Raft core with
membership changes and read barriers, the files of a Raft node, catch-up by snapshots,
the replicated key-value service with its clients, a process with several groups, and
the single-node storage engine; TLC configurations that check them on small instances;
and proofs checked by TLAPS.

## The system

| part | code | state | operations | what makes it hard |
|---|---|---|---|---|
| Raft core: elections | `raft/core.go`, `raft/leadership.go`, `raft/state.go` | term, vote, role, leader hint, votes and pre-votes held, transfer target; the state file | `tick`, `startPreCampaign`, `startCampaign`, `handleRequestVote`, `handlePreVote`, the two response handlers, `transferLeadership`, `handleTimeoutNow`, `stepDown` | answers that come late, twice or never; a crash while voting; a transfer that races an election |
| Raft core: replication | `raft/replication.go` | entries, commit index, what was delivered, next and match index per peer; the log file | `propose`, `sendAppend`, `handleAppendEntries`, `handleAppendResponse`, `maybeAdvanceCommit`, `deliverCommitted` | reordered and repeated appends, old-term entries on a majority, conflict hints, cut batches |
| Raft files and compaction | `raft/log.go`, `raft/raftsnap.go`, `record/` | log file, snapshot file | `append`, `rewrite`, `openLog`, `compact`, `handleInstallSnapshot`, `loadRaftSnapshot` | a crash between the two files, superseded records, a failing write |
| Node event loop | `raft/node.go` | event queue, waiters, applied index | `run`, `dispatch`, `afterStep`, `maybeCompact`, `Propose`, `ReadBarrier`, ... | callers that wait while leadership changes; a full queue |
| Read barriers | `raft/readindex.go` | pending reads, append sequence numbers | `requestRead`, `noteFreshAck`, `confirmReads` | acknowledgements older than the read |
| Membership | `raft/membership.go` | active configuration, configuration entries in the log | `proposeConfChange`, `recalcConfig` | configurations active before they are committed, and rolled back |
| KV state machine, service | `kvraft/statemachine.go`, `service.go` | map, last serial per client | `Apply`, `Snapshot`, `Restore`, `Put`, `Delete`, `Get` | a retried command, before and after a snapshot |
| Sharding | `kvraft/sharding.go` | groups, one ticker, the pinned count | `ShardFor`, `tickLoop`, `pinShardCount`, `Stop` | one slow or halted group and the clock of the others |
| Storage engine | `storage/` | map in memory, log segments, snapshots | `Open`, `Put`, `Delete`, `Snapshot` | power loss at any point, any system call failing |
| Nemesis clients and verdicts | `nemesis/workload.go`, `history.go`, `checker.go` | serials, recorded operations, acknowledged and unknown writes per key | `doPut`, `doDelete`, `doGet`, `Verify` | an attempt without an answer that takes effect later |
| Servers, CLI, proxy, generated code | `server/`, `cmd/`, `nemesis/proxy.go`, `proto/` | none, or test-only | | |

A node is one goroutine that takes events (ticks, RPCs, answers, proposals) off a
queue. The core handles an event, writes what must be durable, and fills an outbox;
only then does the node send, apply and answer. That is why one event is one action
in the model: no other node sees the middle of a handler. Crashes do, and are modelled
inside handlers.

## Modules

| module | models | checked with |
|---|---|---|
| `Raft` | the core of every node of a cluster, its two files and the network | `MCRaft`, `MCRaftFigure8` |
| `RaftSafety` | what `Raft` promises about logs across nodes, and its refinement of `ReplicatedLog` | `MCRaft`, `MCRaftFigure8` |
| `ReplicatedLog` | what the core promises: one growing sequence, of which each node applies a prefix | refined by `Raft` (`OneHistory`) |
| `RaftMembers` | the core with membership changes and read barriers, over a configuration that each node takes from its log | `MCRaftMembers` |
| `Catchup` | a leader and a lagging follower that both compact: appends, conflict hints, snapshots | `MCCatchup` |
| `Service` | clients with sessions, the KV service, the node's waiters and barriers, the state machine, over a coarse Raft | `MCService` |
| `Sharding` | a process with several groups: pin, routing, ticker, queues, loops, `Stop` | `MCSharding` |
| `RaftOperators`, `RaftElectionTypes` | lemmas on the operators of `Raft`, and on the types of its election actions | TLAPS |
| `RaftVoting` | the voting invariant of `Raft` and the steps of an election that preserve it | TLAPS |
| `RaftProofs` | the remaining steps, and the theorems about voting | TLAPS |
| `RaftTypes` | type correctness of `Raft` and the bounds it needs | TLAPS |
| `ReplicatedLogProofs` | agreement follows from `ReplicatedLog` | TLAPS |
| `LogStore` | the log file and snapshot file of one Raft node | itself |
| `DurableStore` | the single-node storage engine on a disk that may lose what was not synced | itself |
| `DurableMap` | what the engine promises: acknowledged writes survive, an unacknowledged one is there wholly or not at all | refined by `DurableStore` (`Promise`) |

### Raft

A variable indexed by node stands for each field of `core`; `saved` is the state
file, `file` what a replay of the log file yields, `applied` what was delivered to
the state machine. `msgs` holds every RPC request and response ever sent and never
shrinks: any of them may be received late, out of order, again, or never. A response
carries the fields of its request that the sender's goroutine hands back with it
(`evVoteResp`, `evAppendResp`). Answers may reach a node that restarted in between,
which the code cannot see happen (the goroutine dies with the process); allowing it
only adds behaviours.

Each action is named after its function. Where the code calls a helper that changes
state (`stepDown`, `maybeWinElection`, `maybeAdvanceCommit`, `deliverCommitted`), the
helper is an operator used inside the action. Time is nondeterminism: an election
timeout may come at any moment, a heartbeat or the end of a transfer at any tick,
a voter with a known leader may or may not find it silent. `maxAppendBytes` is
abstracted by `Big`, the commands that fill a batch by themselves. An event the code
drops without effect is not a step.

`ballots`, `elected` and `chosen` are history variables; no guard reads them.

`CrashInStepDown` and `CrashInAppend` keep the part of a handler that is already on
disk: the new term without the vote, or the first `k` of the entries. A crash after
the last write of a handler and before its messages leave is a step followed by
`Restart` in which those messages are never received.

Membership and read barriers are in `RaftMembers`, compaction in `LogStore` and
`Catchup`. A node that halts because an append contradicts its commit index would simply
stop; that this never happens without snapshots is `NeverContradicted`.

### RaftMembers

The same core, where `members[n]` is the configuration node `n` acts on and
`lastConfigIndex[n]` where its log last changed it. A change is active as soon as it is
appended; a cut suffix or a restart recomputes it (`AdoptConfig`, `recalcConfig`).
Majorities of votes, of commits and of reads are those of the node's own configuration;
a leader whose removal is delivered retires. `nextIndex` has the entries of peers only,
with 0 for a missing one, and is an unsigned integer of `Width` bits, because a rejection
from a removed peer decrements the zero that Go's map returns. A read barrier remembers
the stamp of the appends broadcast for it; an answer counts if its stamp is not older.
`gone` (a history value) are the nodes that had a newer term when the barrier was
registered. `early` records that some leader changed the configuration before it had
committed an entry of its own term.

What does not depend on the configuration is taken from `Raft` by `INSTANCE`. Here a
message is received at most once. Pre-vote, transfers and ordinary proposals are left to
`Raft`.

### Catchup

One leader and one follower in full, the rest of the cluster as environment: the third
node acknowledges at will, and may be elected if its log holds what is committed.
`Logs[t]` is the log the leader of term `t` ends up with. The follower has its entries,
its snapshot (index, term, configuration, image), commit index, delivered index, and `sm`,
the very entries its state machine was given. Each message is received at most once, in
any order. The handlers are those of `replication.go` and `raftsnap.go` with their
restores and compactions (`afterStep`); the file writes inside them are `LogStore`'s.

### Service

`Service` composes what is above Raft. A client (a session of `workload.go`) numbers its
writes, sends an attempt to a node's queue, and on an error or after its timeout sends the
same serial to another node; an abandoned proposal stays in the queue and may take effect
any time later. A node handles an event and runs `afterStep`: it applies what is committed,
answers the waiters whose index was reached, aborts reads, compacts. `Get` reads the state
machine on the handler's own goroutine, after the barrier returned, so other steps come
between. Raft underneath is coarse: an election won, an append accepted with everything
the leader has, a snapshot installed, a commit index advanced are one step each. A client of
`Anonymous` writes without a session (client id 0), and the state machine keeps no serial of it.
`Verify` is an operator over what the tracker noted, `Linearizable` over the recorded history,
with the key-value model of `checker.go` as `Legal`. Timestamps are kept as what they are
compared for: which operations had returned when one was invoked. One key stands for all, as
they are independent.

### Sharding

The start of a process (the file `shards` is created, then written), its death at any point
(kill -9, the fault `docs/DESIGN.md:93` speaks of; not a loss of power), one loop per group
with a queue of `Cap` events, the ticker that delivers to one group after the other and
blocks on a full queue unless the group's `stopc` is closed, a handler that fails and halts
its group, and `Stop`, which waits for the ticker and then for each loop. What a loop does
with an event is not modelled: it takes time. Go's `select` takes any case that is ready.

### LogStore

One node. `logFile` is the sequence of records in the file, `snapFile` the snapshot,
`entries`, `snapIndex`, `commitIndex` and `sm` the memory. The actions are an accepted
append, commitment with delivery, compaction, an installed snapshot, a failing
compaction, and death between handlers, inside an append, between the two writes of a
compaction, and between those of an installation. A compaction may fail in three ways:
the directory sync behind the new snapshot file (the node goes on with the old log), the
rewrite of the log before its rename, and after it (both fail the store). `halfway`
records that the two files are of different generations. `Restart` is `newCore`: it may refuse.
Which leader sends what is left open: appends are any the handler would accept.

### DurableStore

`segs` maps a segment's first sequence number to its records, of which the last may
be torn or unsynced; `unlinked` are removed segments whose removal has not reached the
disk. A write that triggers a snapshot goes through the steps of `snapshot()` one by
one (`pc`), since each may fail and the process may die between any two; the mutex is
held, so no other operation interleaves. `Faults` says which system calls may fail.
`Settle` is what a power loss leaves: unsynced bytes may be whole, torn or gone. That
`os.Truncate` of a torn tail is durable is assumed.

## Runs

| run | instance | shows |
|---|---|---|
| `replication` | 3 nodes, 2 terms, logs of 2, one command, one node crashing anywhere | `TypeOK`, `ElectionSafety`, `LogMatching`, `LeaderCompleteness`, `Durability`, `MatchIndexSound`, `VotesAreDurable`, `OneHistory` |
| `figure8` | 3 nodes, terms 3 and 4, batches of one entry, heartbeats of one node, pre-vote on two, transfers to one | `NeverContradicted`, `LeaderHintSound`, `OneHistory`, `PreVoteGatesCampaigns` |
| `retry_prevote` | 2 nodes, pre-vote, fair | `SplitVoteRetried` **fails** |
| `log_recovery` | 4 entries, 2 terms, batches of 2, dying anywhere | `TypeOK`, `DiskMatchesMemory`, `RefusedOnlyHalfway`, `NothingLost` |
| `log_restart` | dying inside a compaction | `Restartable` **fails** |
| `store_faults` | 2 keys, 3 writes, snapshot every 2 records, every fault | `TypeOK`, `AckedOnDisk`, `SnapshotsExact`, `Promise` |
| `store_errors` | the same with writes and syncs that fail | `ErrorMeansNotStored` **fails** |
| `members` | 2 founders and a node that joins, 2 terms, logs of 3, one read per leader, crashes | `MembersMatchLog`, `OneChangeInFlight`, `SafeUnlessEarly`, `CountedAcksAreFresh`, `OnlyLeadersHoldReads` |
| `members_early` | 4 nodes, 3 terms, two leaders that remove each other | `LeaderCompleteness` **fails** |
| `catchup` | 2 leaders, logs of 5 with two configuration entries, batches of one, 3 messages in flight, a crash | `TypeOK`, `DeliveredAtMostOnce`, `SnapshotStamped`, `MatchSound` |
| `service` | 3 nodes, a session and an anonymous client in 4 workloads, logs of 5, an election, a crash, 2 failing attempts, compaction every 2 entries | `TypeOK`, `ExactlyOnce`, `AnswersTrue`, `HistoryLinearizable`, `VerifyAccepts` |
| `sharding` | counts 1 and 2, 2 keys, queues of 2 | `TypeOK`, `KeysStayHome`, `StopIsFinal`, `EveryGroupTicks`, `StopReturns` |

What some of the properties say:

- `AckedOnDisk`: every acknowledged change is covered by the newest snapshot or whole in a
  segment, at every moment, also while the store is down or refuses to open. `Promise`: when
  it opens, it is a durable map that a change in doubt may have joined.
- `DiskMatchesMemory`: as long as a Raft node is up, what its files would be read back as is
  what it has in memory, or they are halfway through a compaction and would be refused.
- `MembersMatchLog`: a node acts on the configuration its own log says, whatever was
  appended, cut off or read back. `OneChangeInFlight`: past what was delivered no log has
  two changes. `SafeUnlessEarly`: one winner per term and complete leaders, as long as
  every leader commits in its own term before it changes the configuration.
- `CountedAcksAreFresh`: an acknowledgement that a read barrier counts comes from a node that
  had not left for a newer term when the barrier was registered. `OnlyLeadersHoldReads`: a
  node that loses its office keeps no caller waiting.
- `DeliveredAtMostOnce`: whatever moves the commit index back, no entry is given to the state
  machine twice or out of order. `SnapshotStamped`: a snapshot has the term and the
  configuration of its last entry. `MatchSound`: the follower holds what the leader counts it
  for.
- `ExactlyOnce`: every replica holds the last write of the log in which no retried or late
  serial of a session counts again, whichever part came as a snapshot. `AnswersTrue`:
  `Propose` returns nil only for a committed entry and `ErrProposalLost` only for one that
  never will be. `HistoryLinearizable`: the answered operations, with the unanswered writes
  that took effect, are linearizable. `VerifyAccepts`: `Verify` never reports a loss that did
  not happen, and a value it would report is never there.
- `KeysStayHome`: a serving process looks for a key in the group that wrote it, whatever
  counts it was started with and wherever it was killed. `StopIsFinal`, `StopReturns`: `Stop`
  comes to its end, and then nothing runs. `EveryGroupTicks`: a healthy group gets ticks for
  ever, next to groups that halted with full queues.

Bounds. Two terms let a second leader meet what the first one left, a stale leader
meet its successor, and a candidate lose to a longer log; two log slots let an entry be
overwritten by the no-op of the next term. What takes more terms is the commit rule's
hard case, which needs an entry of term 1, a rival of term 2, a leader of term 3 and
the rival's return in term 4: `MCRaftFigure8` starts in the middle of that history
(its initial state is reached from `Init` when the messages of terms 1 and 2 are lost, but
for an answer to the probe with which `n3` began its campaign of term 2) and explores
everything that can follow in one more term, with pre-vote on `n2` and `n3`, whose stale
and fresh probes then meet, and with a transfer to `n2`. `CanTimeOut` and `CanBeat`
limit who starts elections and heartbeats in a run. In `LogStore`, four indices and
batches of two allow an append below, across and above the snapshot; `MaxRecords` caps
the length of the log file between rewrites. In `DurableStore`, three writes with a
snapshot due every two go through a second segment after a snapshot.
`MCRaftMembers` starts when `n1` leads term 1 and its no-op is delivered: three log slots
then hold a change, a rival's no-op and a change of the rival. `members_early` needs four
nodes, so that two configurations of three have disjoint majorities next to a change each.
In `Catchup` a batch of one entry is the smallest that moves a commit index back, and the
thresholds 4 and 5 let the two snapshots be at different places. `MaxInFlight` limits what
is sent unasked; with three messages rejections overtake one another, which is what moves a
commit index back under one leader and brings a snapshot below it under the next. `Heirs`
lists what a new leader may know committed and have compacted: nothing, a part that is all
compacted, and all of it, compacted in part or in full; other pairs are not explored.
In `Service` five log slots hold two no-ops, a write, another client's write and a retry
of the first; the anonymous client tries once; the four workloads are two
writers, a writer alone, a reader of the new leader and a reader of the old one; a second
attempt meets a first one that is still queued, in a log, applied, or only in a snapshot.
In `Sharding` two groups and queues of two let one group be full while the other is not.

`MCRaft` explains the VIEW: two states that differ only in messages that can no longer
do anything are one state. Symmetry permutes the nodes that time out.

Fairness. `FairSpec` of `Raft` (`retry_prevote`): the timer of a node that may time out
runs out again and again, as `tick` is driven by a ticker, and a node with events that would
do something handles one. `Sharding`: the timer fires; a goroutine that can go on
does; a handler ends, well or badly; a `select` does not pass over a ready case for ever, and
a sender blocked on a channel is served in turn (strong fairness), as Go's runtime does.

`CHECK_DEADLOCK FALSE` appears where the system may stop: a node refused for good at its
start (`log_recovery`, `store_faults`), a pin that refuses every start (`sharding`), a halted
follower (`catchup`), clients that are done (`service`), and elections and changes used up
with every message received (`members`). The other Raft runs are bounded in terms, and their
last states still have messages to receive again.

## Disagreements found

1. **A split vote is not retried with pre-vote on** (`retry_prevote`). A candidate
   whose timer runs out starts a pre-campaign and stays candidate, and
   `handlePreVoteResponse` (`leadership.go:66`) counts answers for followers only. The
   candidate probes for ever and leaves the state only when somebody else campaigns; if
   every live node is a candidate, nobody does. `startCampaign`'s comment calls itself
   the split-vote retry path.
2. **A crash inside a compaction is fatal** (`log_restart`). With the snapshot on disk
   and the log not yet rewritten, the log starts below the snapshot, and `openLog`
   refuses it (`log.go:96`). The comment in `compact` says recovery gets the same state.
3. **A change made too early breaks leader completeness** (`members_early`).
   `proposeConfChange` (`membership.go:107`) refuses a second change while one of the
   leader's own log is uncommitted, but does not ask that the leader has committed an entry
   of its own term. With four nodes, `n1` appends the removal of `n2` only to itself; `n2` is
   elected in term 2 by the other three and removes `n1`; `n1`, which acts on `{n1, n3, n4}`,
   is elected in term 3 with `n3`; and `n2`, which acts on `{n2, n3, n4}`, commits its removal
   of `n1` with `n4`. `membership.go:11` argues that two disjoint quorums cannot form.
   Within the bounds of `members` this is the only way (`SafeUnlessEarly`).
4. **An error can mean "maybe stored"** (`store_errors`). When the record is written and the
   sync fails, `Put` reports an error, and the next `Open` may replay the record;
   `store.go:121` says it never does. `Promise` counts such a change as in doubt.

The following were found while modelling. No run states them: the modules have the behaviour,
and each was confirmed by letting TLC refute the claim on the instance of the passing run
(the ninth with one fairness condition left out).

5. **A late append may halt a node** (`Catchup`). An append that starts below the
   follower's snapshot finds `termAt` 0 for entries the follower has compacted, takes the
   first for new, and `truncateAndAppend` (`replication.go:200`) refuses it as a contradiction
   of committed entries, which its comment calls impossible in a correct cluster. A delayed
   append of the current leader is enough (`~halted` fails within seconds).
6. **A committed entry may be skipped** (`Catchup`; `replication.go:187`). A batch that ends
   below the commit index with a higher leader commit lowers it. Alone this is harmless
   (`OneHistory` and `DeliveredAtMostOnce` hold). After a change of leader, a snapshot between
   the lowered index and what was already delivered is installed, and the entries between are
   never delivered again: the state machine goes back. `replication.go:312` says that entries
   are delivered in order, exactly once; `sm = SubSeq(chosen, 1, applied)` fails.
7. **A stale rejection can wedge a follower** (`Catchup`). It moves `nextIndex` below
   `matchIndex`; with short batches, the successes that follow confirm nothing new, and only
   news moves `nextIndex` (`replication.go:247`). TLC reaches `next <= match`.
8. **Acknowledgements of non-members count for reads** (`RaftMembers`; `readindex.go:97`). A
   barrier of a leader that was removed, or has removed others, may be confirmed by nodes
   outside its configuration and be older than a write; `readindex.go:22` asks for a majority.
9. **A busy group stops everybody's clock** (`Sharding`). `enqueue` blocks while a queue
   is full (`node.go:272`); `sharding.go:86` and `docs/DESIGN.md:151` call it non-blocking, and
   `docs/REVIEW-GUIDE.md` Q14 says a slow group only loses its own ticks. `EveryGroupTicks`
   holds because handlers end; without that fairness for one group, TLC shows the other group
   without ticks for ever.
10. **The checker may cry wolf** (`Service`). A put acknowledged, a delete without an
    answer that took effect, a get that finds nothing: the history is linearizable with the
    delete in it (`HistoryLinearizable`), but `CheckLinearizability` drops the delete
    (`checker.go:106`) and reports a violation; its comment says that it raises no false alarms.
11. **A finished segment may be torn** (`DurableStore`). When `createWAL`'s directory
    sync fails, its file stays, appends go on in the older segment, and a crash in one of them
    makes `Open` refuse, although nothing acknowledged is damaged (`AckedOnDisk`); `wal.go:32`
    says that such a segment was finished.

Outside the faults of `Sharding`, and so read off the code only: `pinShardCount` writes the pin
without a sync (`sharding.go:144`), so that a loss of power may leave it empty, which refuses
the right count, or gone, which accepts another one.

## Proofs

All proofs are for any finite set of nodes, any commands, any bounds.

`RaftProofs` proves that voting is right. The inductive invariant (`VoteInv`) says: the
state file equals memory; every ballot is at most the voter's term, and a ballot of
the current term is the vote in the file; a node casts at most one ballot per term;
a granted answer, and a vote a candidate or leader holds, is a ballot; leaders, leader
hints and appends name a node that won that term; and every winner
holds a majority of the term's ballots. Two majorities intersect (a lemma on
cardinalities), so two winners of a term share a voter, who voted once. From it:

- `ElectionSafetyTheorem`: `Spec => []ElectionSafety`;
- `LeaderHintTheorem`: `Spec => []LeaderHintSound`;
- `VotesAreDurableTheorem`: `Spec => VotesAreDurable`.

`RaftTypes` proves `TypeCorrect`: `TypeOK` always holds, and with it three bounds that
it needs to be inductive. A commit index never exceeds the node's own log (otherwise
`deliverCommitted` would read past its end); this rests on `LogAfter` and `CommitAfter`:
an accepted append never shortens the log below the commit index, and the index it
vouches for lies within the log it leaves. A leader's `nextIndex` is never 0, so no
append starts before the first entry, whatever conflict hints arrive. Term 0 has no
candidates, so no entry has term 0, which the conflict hints use for "none". The
operators built on minima and maxima need that a non-empty set of naturals has a least
element (`MinProperty`, from the well-foundedness of inclusion on finite sets).

`ReplicatedLogProofs` proves that the abstract specification gives what its users want:
any two state machines agree up to the shorter history (`AgreementTheorem`). With
`OneHistory` (model-checked) this is the cluster's state-machine safety.

Assumptions: those named in `Raft` (`Node` finite and non-empty, `None` not a node, the
no-op not a client command), all evaluated by TLC in the runs.

The proofs about `Raft` are in five modules: `RaftOperators` has the lemmas on its operators,
`RaftElectionTypes` the types of the election actions, `RaftTypes` the rest of type
correctness, `RaftVoting` the voting invariant and the steps of campaigns, `RaftProofs` the
other steps and the theorems.

Only model-checked: the log properties (`LogMatching`, `LeaderCompleteness`,
`Durability`, `OneHistory`, `MatchIndexSound`, `NeverContradicted`), the pre-vote
property, everything about `LogStore`, `DurableStore`, `RaftMembers`, `Catchup`, `Service` and
`Sharding`, and the liveness properties (`SplitVoteRetried`, `EveryGroupTicks`,
`StopReturns`), which are beyond the prover.

## Not modelled, and the plan

Next: proofs of log matching and leader completeness, then of `OneHistory` as a theorem;
recovery in `LogStore`; `KeysStayHome`, `StopIsFinal` and the bound of the queues in
`Sharding`; `MembersMatchLog` and `OnlyLeadersHoldReads` in `RaftMembers`.

Left out of modules that exist: Delete's best-effort answer whether the key existed (read
before the proposal, promised to nobody), addresses of members and the transport's peer
table, the published status, the hook that disables the read barrier for the harness's own
tests, and which unanswered operations the harness's checker drops. `Service` takes its Raft as coarse steps; that `Raft` allows no others is what
`OneHistory`, `LeaderCompleteness` and `MatchSound` say. A crash inside an append or an
installation is in `Raft` and `LogStore`, not in `RaftMembers` and `Catchup`.

Left out for good: connection handling and generated code (pure I/O), flag parsing and
wiring (`cmd/`; the CLI follows leader hints like the workload, without sessions), the
single-node gRPC service (validation and a call of the store), the nemesis proxy and process
control (they are the environment's losses, delays and crashes), the hash function.
