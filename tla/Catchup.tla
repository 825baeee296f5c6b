------------------------------- MODULE Catchup -------------------------------
(***************************************************************************)
(* A leader bringing one follower up to date while both compact their logs *)
(* (replication.go, raftsnap.go, membership.go, afterStep of node.go):     *)
(* appends cut to a batch, conflict hints, snapshots and their answers,    *)
(* late and out of order.                                                  *)
(*                                                                         *)
(* The rest of the cluster is the environment.  Logs[t] is the log the     *)
(* leader of term t ends up with; other followers acknowledge entries at   *)
(* will, and a node whose log holds everything committed may take over.    *)
(* Raft shows that this is what elections allow.  Writing the files is     *)
(* LogStore's subject: here a handler's writes happen with it.             *)
(***************************************************************************)
EXTENDS Naturals, SequencesExt, FiniteSetsExt

CONSTANTS
    Logs,       \* Logs[t]: the entries of the leader of term t
    Founders,   \* the configuration the cluster starts with
    MaxBatch,   \* entries until a request holds maxAppendBytes
    CompactAt,  \* Config.CompactionThreshold
    LeaderCompactsAt,  \* the same for the leaders
    Heirs,      \* <<commit, s>>: what a new leader knows committed and has compacted
    MaxCrashes,
    MaxInFlight \* bound: messages in transit before another is sent unasked

ASSUME LogsAssumption ==
    \A t \in DOMAIN Logs : \A i \in DOMAIN Logs[t] : Logs[t][i].term \in 1..t
ASSUME BoundAssumption == {MaxBatch, CompactAt, LeaderCompactsAt} \subseteq Nat \ {0} /\ MaxCrashes \in Nat
ASSUME HeirAssumption == \A h \in Heirs : h \in Nat \X Nat /\ h[2] <= h[1]

VARIABLES
    \* the leader
    leaderTerm, last, leaderCommit, leaderSnap, next, match,
    \* the follower
    term, entries,
    snap,           \* snapIndex, snapTerm, snapConfig, and the image in the file
    commitIndex, lastDelivered,
    sm, applied,    \* the state machine: the entries it was given; Node.applied
    halted,         \* an error stopped the event loop
    msgs,
    \* history
    chosen,         \* what any leader committed
    crashes

leaderVars == <<leaderTerm, last, leaderCommit, leaderSnap, next, match>>
logVars    == <<entries, snap, commitIndex, lastDelivered, sm, applied>>
vars == <<leaderVars, term, logVars, halted, msgs, chosen, crashes>>

-----------------------------------------------------------------------------
(* Configurations. *)

Changed(cfg, e) ==
    CASE e.change.op = "add"    -> cfg \cup {e.change.id}
      [] e.change.op = "remove" -> cfg \ {e.change.id}
      [] OTHER                  -> cfg

\* The configuration a snapshot of configuration cfg and the entries es make.
After(cfg, es) == FoldLeft(Changed, cfg, es)

-----------------------------------------------------------------------------
(* The leader. *)

Log == SubSeq(Logs[leaderTerm], 1, last)

\* Entries below the leader's snapshot are gone; the boundary keeps its term.
LeaderTermAt(i) == IF i \in Max({1, leaderSnap})..last THEN Log[i].term ELSE 0

Install ==
    [type |-> "InstallSnapshot", term |-> leaderTerm, index |-> leaderSnap,
     snapTerm |-> Log[leaderSnap].term, data |-> SubSeq(Log, 1, leaderSnap),
     config |-> After(Founders, SubSeq(Log, 1, leaderSnap))]

\* sendAppend with lg the log and n the follower's frontier.
SendAppend(t, lg, n, commit) ==
    IF n <= leaderSnap THEN {Install}
    ELSE {[type |-> "AppendRequest", term |-> t, prev |-> n - 1,
           prevTerm |-> IF n = 1 THEN 0 ELSE lg[n - 1].term,
           entries |-> SubSeq(lg, n, Min({Len(lg), n + MaxBatch - 1})),
           commit |-> commit]}

\* maybeAdvanceCommit: a majority of three is the leader and whoever holds i.
CommitFrontier(i) == IF i > leaderCommit /\ Log[i].term = leaderTerm THEN i ELSE leaderCommit

\* maybeCompact on the leader, which has applied what it committed.
LeaderCompacts(commit) ==
    leaderSnap' = IF commit >= leaderSnap + LeaderCompactsAt THEN commit ELSE leaderSnap

Commits(commit) ==
    /\ leaderCommit' = commit
    /\ LeaderCompacts(commit)
    /\ chosen' = IF commit > Len(chosen) THEN SubSeq(Log, 1, commit) ELSE chosen

Init ==
    /\ leaderTerm = 1 /\ last = 1 /\ leaderCommit = 0 /\ leaderSnap = 0
    /\ next = 1 /\ match = 0
    /\ term = 1 /\ entries = <<>>
    /\ snap = [index |-> 0, term |-> 0, config |-> Founders, data |-> <<>>]
    /\ commitIndex = 0 /\ lastDelivered = 0 /\ sm = <<>> /\ applied = 0
    /\ halted = FALSE
    /\ msgs = {} /\ chosen = <<>>
    /\ crashes = 0

\* propose.
Propose ==
    /\ last < Len(Logs[leaderTerm]) /\ Cardinality(msgs) < MaxInFlight
    /\ last' = last + 1
    /\ msgs' = msgs \cup SendAppend(leaderTerm, SubSeq(Logs[leaderTerm], 1, last + 1), next, leaderCommit)
    /\ UNCHANGED <<leaderTerm, leaderCommit, leaderSnap, next, match, term, logVars, halted,
                   chosen, crashes>>

\* The leader's heartbeat.
Tick ==
    /\ Cardinality(msgs) < MaxInFlight
    /\ msgs' = msgs \cup SendAppend(leaderTerm, Log, next, leaderCommit)
    /\ UNCHANGED <<leaderVars, term, logVars, halted, chosen, crashes>>

\* The third node acknowledges everything up to i.
OthersAck(i) ==
    /\ i \in (leaderCommit + 1)..last /\ CommitFrontier(i) = i
    /\ Commits(i)
    /\ UNCHANGED <<leaderTerm, last, next, match, term, logVars, halted, msgs,
                   crashes>>

\* The third node, which knew of commit and had compacted up to s, is elected.
\* It probes from its end and appends its no-op.
TakeOver(commit, s) ==
    LET t  == leaderTerm + 1
        n  == Min({i \in DOMAIN Logs[t] : Logs[t][i].term = t})
        lg == SubSeq(Logs[t], 1, n)
    IN  /\ t \in DOMAIN Logs
        /\ IsPrefix(chosen, SubSeq(lg, 1, n - 1)) /\ IsPrefix(SubSeq(lg, 1, n - 1), Log)
        /\ commit <= Len(chosen)
        /\ leaderTerm' = t /\ last' = n
        /\ leaderCommit' = commit /\ leaderSnap' = s
        /\ next' = n /\ match' = 0
        /\ msgs' = {m \in msgs : m.type \in {"AppendRequest", "InstallSnapshot"}} \cup
                   {[type |-> "AppendRequest", term |-> t, prev |-> n - 1,
                     prevTerm |-> IF n = 1 THEN 0 ELSE lg[n - 1].term,
                     entries |-> <<lg[n]>>, commit |-> commit]}
        /\ UNCHANGED <<term, logVars, halted, chosen, crashes>>

-----------------------------------------------------------------------------
(* The follower. *)

LastLogIndex == snap.index + Len(entries)

TermAt(i) ==
    IF i = snap.index THEN snap.term
    ELSE IF i \in (snap.index + 1)..LastLogIndex THEN entries[i - snap.index].term ELSE 0

\* Walks down while the term stays the same, which below the snapshot it does.
FirstIndexOfTerm(t, from) ==
    Min({i \in 1..from : \A j \in i..(from - 1) : TermAt(j) = t})

\* Faulty variant: the configuration of the whole log is stamped.
CompactedLatestConfig(es, given, to) ==
    IF to < snap.index + CompactAt THEN snap
    ELSE [index |-> to, term |-> es[to - snap.index].term, config |-> After(snap.config, es),
          data |-> given]

\* The snapshot after maybeCompact and compact, when the state machine was
\* given the entries given, the last of index to.
Compacted(es, given, to) ==
    IF to < snap.index + CompactAt THEN snap
    ELSE LET gone == SubSeq(es, 1, to - snap.index)
         IN  [index |-> to, term |-> Last(gone).term, config |-> After(snap.config, gone),
              data |-> given]

\* Faulty variant: entries are delivered from the old commitIndex on.
DeliverFromCommit(es, commit) ==
    LET new   == SubSeq(es, commitIndex - snap.index + 1, commit - snap.index)
        given == sm \o new
        to    == IF new = <<>> THEN applied ELSE commit
        s     == Compacted(es, given, to)
    IN  /\ commitIndex' = commit
        /\ lastDelivered' = Max({lastDelivered, commit})
        /\ sm' = given /\ applied' = to
        /\ snap' = s
        /\ entries' = SubSeq(es, s.index - snap.index + 1, Len(es))

\* deliverCommitted, applyEntry and maybeCompact with es the entries and
\* commit the new commitIndex.
Deliver(es, commit) ==
    LET new   == SubSeq(es, lastDelivered - snap.index + 1, commit - snap.index)
        given == sm \o new
        to    == IF new = <<>> THEN applied ELSE commit
        s     == Compacted(es, given, to)
    IN  /\ commitIndex' = commit
        /\ lastDelivered' = Max({lastDelivered, commit})
        /\ sm' = given /\ applied' = to
        /\ snap' = s
        /\ entries' = SubSeq(es, s.index - snap.index + 1, Len(es))

\* The entries of m that are not in the log.
NewFrom(m) ==
    {k \in DOMAIN m.entries : \/ m.prev + k > LastLogIndex
                              \/ TermAt(m.prev + k) # m.entries[k].term}

Answer(m, success, index, conflict) ==
    [type |-> "AppendResponse", prev |-> m.prev, count |-> Len(m.entries), term |-> m.term,
     success |-> success, index |-> index, conflict |-> conflict]

\* m is received and out is sent; what the old leader sent is answered to no
\* avail.
Reply(m, out) == msgs' = (msgs \ {m}) \cup (IF m.term = leaderTerm THEN out ELSE {})

RejectAppend(m) ==
    /\ m.prev > 0
    /\ m.prev > LastLogIndex \/ TermAt(m.prev) # m.prevTerm
    /\ Reply(m, {IF m.prev > LastLogIndex THEN Answer(m, FALSE, LastLogIndex + 1, 0)
                 ELSE Answer(m, FALSE, FirstIndexOfTerm(TermAt(m.prev), m.prev), TermAt(m.prev))})
    /\ UNCHANGED <<logVars, halted>>

\* What the leader has committed, bounded by the last entry of m, so that a
\* short batch with a high commit index moves it back.
CommitAfter(m) ==
    IF m.commit > commitIndex THEN Min({m.commit, m.prev + Len(m.entries)}) ELSE commitIndex

\* Everything from the first entry not held replaces the rest of the log.
AcceptAppend(m) ==
    LET new == NewFrom(m)
        k   == Min(new)
        es  == IF new = {} THEN entries
               ELSE SubSeq(entries, 1, m.prev + k - 1 - snap.index)
                    \o SubSeq(m.entries, k, Len(m.entries))
    IN  /\ m.prev > 0 => m.prev <= LastLogIndex /\ TermAt(m.prev) = m.prevTerm
        /\ new # {} => m.prev + k > commitIndex
        /\ Deliver(es, CommitAfter(m))
        /\ Reply(m, {Answer(m, TRUE, 0, 0)})
        /\ UNCHANGED halted

\* truncateAndAppend refuses to cut what is committed, and the node halts.
ContradictedAppend(m) ==
    /\ m.prev > 0 => m.prev <= LastLogIndex /\ TermAt(m.prev) = m.prevTerm
    /\ NewFrom(m) # {} /\ m.prev + Min(NewFrom(m)) <= commitIndex
    /\ halted' = TRUE
    /\ Reply(m, {})
    /\ UNCHANGED logVars

HandleAppendEntries(m) ==
    /\ m.type = "AppendRequest" /\ ~halted
    /\ term' = Max({term, m.term})
    /\ \/ /\ m.term < term
          /\ Reply(m, {})
          /\ UNCHANGED <<logVars, halted>>
       \/ m.term >= term /\ RejectAppend(m)
       \/ m.term >= term /\ AcceptAppend(m)
       \/ m.term >= term /\ ContradictedAppend(m)
    /\ UNCHANGED <<leaderVars, chosen, crashes>>

\* Faulty variant: nothing is kept.
KeptBehindNothing(m) == <<>>

\* What is kept of the log behind an installed snapshot.
KeptBehind(m) ==
    IF m.index <= LastLogIndex /\ TermAt(m.index) = m.snapTerm
    THEN SubSeq(entries, m.index - snap.index + 1, Len(entries)) ELSE <<>>

InstallAnswer(m) == [type |-> "InstallResponse", term |-> m.term, index |-> m.index]

\* handleInstallSnapshot and the restore of afterStep.
HandleInstallSnapshot(m) ==
    /\ m.type = "InstallSnapshot" /\ ~halted
    /\ term' = Max({term, m.term})
    /\ \/ /\ m.term < term \/ m.index <= snap.index \/ m.index <= commitIndex
          /\ UNCHANGED logVars
       \/ /\ m.term >= term /\ m.index > snap.index /\ m.index > commitIndex
          /\ snap' = [index |-> m.index, term |-> m.snapTerm, config |-> m.config, data |-> m.data]
          /\ entries' = KeptBehind(m)
          /\ commitIndex' = m.index
          /\ lastDelivered' = Max({lastDelivered, m.index})
          /\ sm' = m.data /\ applied' = m.index
    /\ Reply(m, IF m.term < term THEN {} ELSE {InstallAnswer(m)})
    /\ UNCHANGED <<leaderVars, halted, chosen, crashes>>

\* Faulty variant: the log is committed from the start again.
RestartFromZero ==
    /\ crashes < MaxCrashes
    /\ crashes' = crashes + 1
    /\ commitIndex' = 0 /\ lastDelivered' = snap.index
    /\ sm' = snap.data /\ applied' = snap.index
    /\ halted' = FALSE
    /\ UNCHANGED <<leaderVars, term, entries, snap, msgs, chosen>>

\* newCore: the state machine is restored from the snapshot, the rest of the
\* log waits to be committed again.
Restart ==
    /\ crashes < MaxCrashes
    /\ crashes' = crashes + 1
    /\ commitIndex' = snap.index /\ lastDelivered' = snap.index
    /\ sm' = snap.data /\ applied' = snap.index
    /\ halted' = FALSE
    /\ UNCHANGED <<leaderVars, term, entries, snap, msgs, chosen>>

-----------------------------------------------------------------------------
(* The leader, answered. *)

LastIndexOfTerm(t) ==
    Max({0} \cup {i \in 1..last : LeaderTermAt(i) = t /\ \A j \in i..last : LeaderTermAt(j) >= t})

HandleAppendSuccess(m) ==
    LET end    == m.prev + m.count
        ahead  == end > match
        nxt    == IF ahead THEN end + 1 ELSE next
        commit == IF ahead THEN CommitFrontier(end) ELSE leaderCommit
    IN  /\ m.success
        /\ match' = Max({match, end}) /\ next' = nxt
        /\ Commits(commit)
        /\ Reply(m, IF nxt <= last THEN SendAppend(leaderTerm, Log, nxt, commit) ELSE {})

\* The hint decides, whatever the follower has confirmed meanwhile.
HandleAppendReject(m) ==
    LET own  == LastIndexOfTerm(m.conflict)
        hint == IF m.conflict # 0 /\ own # 0 THEN own + 1 ELSE Max({1, m.index})
        nxt  == IF hint < next THEN hint ELSE Max({1, next - 1})
    IN  /\ ~m.success
        /\ next' = nxt
        /\ Reply(m, SendAppend(leaderTerm, Log, nxt, leaderCommit))
        /\ UNCHANGED <<match, leaderCommit, leaderSnap, chosen>>

HandleAppendResponse(m) ==
    /\ m.type = "AppendResponse"
    /\ HandleAppendSuccess(m) \/ HandleAppendReject(m)
    /\ UNCHANGED <<leaderTerm, last, term, logVars, halted, crashes>>

HandleInstallSnapshotResponse(m) ==
    LET nxt == IF m.index > match THEN m.index + 1 ELSE next
    IN  /\ m.type = "InstallResponse"
        /\ match' = Max({match, m.index}) /\ next' = nxt
        /\ Reply(m, IF nxt <= last THEN SendAppend(leaderTerm, Log, nxt, leaderCommit) ELSE {})
        /\ UNCHANGED <<leaderTerm, last, leaderCommit, leaderSnap, term, logVars, halted, chosen,
                       crashes>>

Receive(m) ==
    \/ HandleAppendEntries(m)
    \/ HandleInstallSnapshot(m)
    \/ HandleAppendResponse(m)
    \/ HandleInstallSnapshotResponse(m)

Next ==
    \/ Propose
    \/ Tick
    \/ \E i \in 1..last : OthersAck(i)
    \/ \E h \in Heirs : TakeOver(h[1], h[2])
    \/ \E m \in msgs : Receive(m)
    \/ Restart

Spec == Init /\ [][Next]_vars

-----------------------------------------------------------------------------
(* Properties. *)

\* The leader's and the follower's indexes, and how they bound one another.
TypeOK ==
    /\ term \in DOMAIN Logs /\ leaderTerm \in DOMAIN Logs
    /\ leaderSnap <= leaderCommit /\ leaderCommit <= last
    /\ next \in 1..(last + 1) /\ match \in 0..last
    /\ snap.index <= commitIndex /\ commitIndex <= lastDelivered
    /\ lastDelivered <= LastLogIndex
    /\ applied \in snap.index..lastDelivered

\* No entry is given to the state machine twice or out of order, whatever
\* moves commitIndex back, installs a snapshot or restarts the node: it was
\* given a beginning of what is committed, and after that the entries that end
\* at Node.applied (deliverCommitted goes on from lastDelivered).
DeliveredAtMostOnce ==
    /\ applied <= Len(chosen) /\ Len(sm) <= applied
    /\ \E k \in 0..Len(sm) :
          sm = SubSeq(chosen, 1, k) \o SubSeq(chosen, applied - (Len(sm) - k) + 1, applied)

\* A snapshot, taken or installed, carries the term and the configuration of
\* the committed entry it ends with, whatever the log held beyond it (compact
\* uses configAt and not the active configuration).
SnapshotStamped ==
    snap.index > 0 =>
        /\ snap.index <= Len(chosen)
        /\ snap.term = chosen[snap.index].term
        /\ snap.config = After(Founders, SubSeq(chosen, 1, snap.index))

\* What the leader counts the follower for, the follower holds, in its
\* snapshot or its log, whatever it installs, cuts or restarts from.
MatchSound ==
    /\ match <= LastLogIndex
    /\ \A i \in (snap.index + 1)..match : TermAt(i) = Log[i].term

=============================================================================
