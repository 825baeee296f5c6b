------------------------------ MODULE LogStore ------------------------------
(***************************************************************************)
(* What one Raft node keeps on disk once it compacts its log: the log file *)
(* of log.go, an append-only sequence of records in which a lower index    *)
(* supersedes what came before, and the snapshot file of raftsnap.go.      *)
(*                                                                         *)
(* An entry is its index and term.  The state machine, and a snapshot of   *)
(* it, is the sequence of the terms of the entries it has been given, so   *)
(* the number of entries a snapshot covers is its length.                  *)
(*                                                                         *)
(* A handler of the node is one action; the CrashIn... actions are the     *)
(* node dying (or halting on an I/O error, which it treats the same way)   *)
(* inside a handler.  What the leader sends is any input Raft allows.      *)
(***************************************************************************)
EXTENDS Naturals, Sequences, FiniteSetsExt, SequencesExt

CONSTANTS
    CompactAt,     \* Config.CompactionThreshold
    DiesBetween,   \* the handlers the node may die in between writing its two files
    MaxTerm, MaxIndex,
    MaxBatch,      \* bound: entries in one append
    MaxRecords     \* bound: records in the log file

ASSUME CompactAssumption == CompactAt \in Nat \ {0} /\ DiesBetween \subseteq {"compact", "install"}
ASSUME BoundAssumption == {MaxTerm, MaxIndex, MaxBatch, MaxRecords} \subseteq Nat

VARIABLES
    state,       \* "up", "down", or "refused": newCore returned an error
    \* memory
    entries, snapIndex, snapTerm, commitIndex,
    sm,          \* what the state machine has been given
    failed,      \* logStore.failed
    \* disk
    logFile,     \* the records of the log file
    snapFile,    \* the state machine image in the snapshot file
    \* history
    stored,      \* the log as the last finished handler left it
    inflight,    \* the logs that the handler the node died in may leave
    halfway      \* the snapshot file was replaced and the log file not yet rewritten

memory == <<state, entries, snapIndex, snapTerm, commitIndex, sm, failed>>
vars   == <<memory, logFile, snapFile, stored, inflight, halfway>>

-----------------------------------------------------------------------------
Entry == [index : 1..MaxIndex, term : 1..MaxTerm]

Terms(es) == [i \in DOMAIN es |-> es[i].term]

\* A leader's entries from index first on.
Batch(first, ts) == [i \in DOMAIN ts |-> [index |-> first + i - 1, term |-> ts[i]]]

NonDecreasing(ts) == \A i \in 1..(Len(ts) - 1) : ts[i] <= ts[i + 1]

LastLogIndex == IF entries = <<>> THEN snapIndex ELSE Last(entries).index

TermAt(i) ==
    IF i = snapIndex THEN snapTerm
    ELSE IF i \in (snapIndex + 1)..LastLogIndex THEN entries[i - snapIndex].term ELSE 0

\* The whole log: what the snapshot covers, and the entries behind it.
Logical(image, es) == image \o Terms(es)

LogicalLog == Logical(SubSeq(sm, 1, snapIndex), entries)

\* Faulty variant: a lower index is one more record, not a rewind.
ReplayRecordNoRewind(log, e) ==
    LET es == log.entries
    IN  IF ~log.ok THEN log
        ELSE IF e.index = log.base + 1 /\ es = <<>> THEN [log EXCEPT !.entries = <<e>>]
        ELSE IF es # <<>> /\ e.index <= Last(es).index THEN log
        ELSE IF es # <<>> /\ e.index = Last(es).index + 1 THEN [log EXCEPT !.entries = Append(es, e)]
        ELSE [log EXCEPT !.ok = FALSE]

\* openLog on one more record: the first must follow the base, a later one
\* extends the log or supersedes its suffix.
ReplayRecord(log, e) ==
    LET es    == log.entries
        first == log.base + 1
    IN  IF log.ok /\ e.index \in first..(log.base + Len(es) + 1)
        THEN [log EXCEPT !.entries = Append(SubSeq(es, 1, e.index - first), e)]
        ELSE [log EXCEPT !.ok = FALSE]

OpenLog(records, base) ==
    FoldLeft(ReplayRecord, [ok |-> TRUE, base |-> base, entries |-> <<>>], records)

-----------------------------------------------------------------------------
Init ==
    /\ state = "up"
    /\ entries = <<>> /\ snapIndex = 0 /\ snapTerm = 0 /\ commitIndex = 0
    /\ sm = <<>> /\ failed = FALSE
    /\ logFile = <<>> /\ snapFile = <<>>
    /\ stored = <<>> /\ inflight = {} /\ halfway = FALSE

\* A leader's entries ts may arrive at index first: nothing committed is
\* contradicted, and terms never decrease along a log.
Appendable(first, ts) ==
    /\ state = "up"
    /\ first \in (commitIndex + 1)..(LastLogIndex + 1)
    /\ first + Len(ts) - 1 <= MaxIndex /\ Len(logFile) + Len(ts) <= MaxRecords
    /\ NonDecreasing(<<TermAt(first - 1)>> \o ts)
    /\ first <= LastLogIndex => TermAt(first) # ts[1]

\* Faulty variant: the last record is not written.
AppendRecordsButLast(es) == logFile' = logFile \o SubSeq(es, 1, Len(es) - 1)

\* Faulty variant: the log file is left as it was.
RewriteNothing(es) == UNCHANGED logFile

\* The two files.  Appended records are synced, the log is rewritten and the
\* snapshot replaced by renaming a synced file: whole or not at all.
AppendRecords(es) == logFile' = logFile \o es

Rewrite(es) == logFile' = es

PersistSnapshot(image) == snapFile' = image

LoadSnapshot ==
    [lastIndex |-> Len(snapFile), data |-> snapFile,
     lastTerm |-> IF snapFile = <<>> THEN 0 ELSE Last(snapFile)]

\* The log in memory after the entries es from index first on.
EntriesAfter(first, es) == SubSeq(entries, 1, first - snapIndex - 1) \o es

\* truncateAndAppend, and propose with first just past the end: the records
\* are synced before the handler returns.
TruncateAndAppend(first, ts) ==
    /\ Appendable(first, ts) /\ ~failed
    /\ LET es == Batch(first, ts)
       IN  /\ AppendRecords(es)
           /\ entries' = EntriesAfter(first, es)
           /\ stored' = Logical(SubSeq(sm, 1, snapIndex), EntriesAfter(first, es))
    /\ UNCHANGED <<state, snapIndex, snapTerm, commitIndex, sm, failed, snapFile, inflight, halfway>>

\* deliverCommitted and applyEntry.
Commit(to) ==
    /\ state = "up" /\ to \in (commitIndex + 1)..LastLogIndex
    /\ commitIndex' = to
    /\ sm' = SubSeq(LogicalLog, 1, to)
    /\ UNCHANGED <<state, entries, snapIndex, snapTerm, failed, logFile, snapFile, stored,
                   inflight, halfway>>

\* maybeCompact lets compact run once enough has been applied.
Compactable == state = "up" /\ Len(sm) >= snapIndex + CompactAt

\* Faulty variant: the last entry covered is kept too.
CompactKeepsOne ==
    /\ Compactable /\ ~failed
    /\ LET keep == SubSeq(entries, commitIndex - snapIndex, Len(entries))
       IN  PersistSnapshot(sm) /\ Rewrite(keep) /\ entries' = keep
    /\ snapIndex' = commitIndex /\ snapTerm' = TermAt(commitIndex)
    /\ halfway' = FALSE
    /\ UNCHANGED <<state, commitIndex, sm, failed, stored, inflight>>

\* compact: first the snapshot file, then the log file, then memory.
Compact ==
    /\ Compactable /\ ~failed
    /\ LET keep == SubSeq(entries, commitIndex - snapIndex + 1, Len(entries))
       IN  /\ PersistSnapshot(sm)
           /\ Rewrite(keep)
           /\ entries' = keep
           /\ snapIndex' = commitIndex /\ snapTerm' = TermAt(commitIndex)
    /\ halfway' = FALSE
    /\ UNCHANGED <<state, commitIndex, sm, failed, stored, inflight>>

\* compact fails after the snapshot file was replaced.  The directory cannot
\* be synced: compact returns before it touches the log, and the node goes on
\* with its old base.  Or the log cannot be rewritten: it refuses all further
\* writes from then on, whether or not the new file is in place.  The node
\* only warns and tries again; on a log that refuses, that replaces the
\* snapshot alone.  (A failure before the rename, or a rename lost with the
\* power, leaves both files as they were.)
CompactFails ==
    /\ "compact" \in DiesBetween /\ Compactable
    /\ PersistSnapshot(sm)
    /\ \/ /\ UNCHANGED <<logFile, failed>>
          /\ halfway' = (halfway \/ snapFile # sm)
       \/ /\ UNCHANGED logFile
          /\ failed' = TRUE
          /\ halfway' = (halfway \/ snapFile # sm)
       \/ /\ ~failed
          /\ Rewrite(SubSeq(entries, commitIndex - snapIndex + 1, Len(entries)))
          /\ failed' = TRUE /\ halfway' = FALSE
    /\ UNCHANGED <<state, entries, snapIndex, snapTerm, commitIndex, sm, stored, inflight>>

\* A leader's snapshot may arrive: it covers more than is committed here, and
\* agrees with this log up to any entry they share.
Installable(image) ==
    /\ state = "up"
    /\ Len(image) > commitIndex /\ IsPrefix(sm, image)
    /\ NonDecreasing(image)
    /\ TermAt(Len(image)) = Last(image) => IsPrefix(image, LogicalLog)

\* What is kept of the log behind an installed snapshot.
KeptBehind(image) ==
    IF TermAt(Len(image)) = Last(image)
    THEN SubSeq(entries, Len(image) - snapIndex + 1, Len(entries)) ELSE <<>>

\* handleInstallSnapshot, and afterStep restoring the state machine.
InstallSnapshot(image) ==
    /\ Installable(image) /\ ~failed
    /\ PersistSnapshot(image)
    /\ Rewrite(KeptBehind(image))
    /\ entries' = KeptBehind(image)
    /\ snapIndex' = Len(image) /\ snapTerm' = Last(image)
    /\ commitIndex' = Len(image)
    /\ sm' = image
    /\ stored' = Logical(image, KeptBehind(image))
    /\ halfway' = FALSE
    /\ UNCHANGED <<state, failed, inflight>>

-----------------------------------------------------------------------------
(* Crash and restart. *)

Die(may) ==
    /\ state' = "down"
    /\ entries' = <<>> /\ snapIndex' = 0 /\ snapTerm' = 0 /\ commitIndex' = 0
    /\ sm' = <<>> /\ failed' = FALSE
    /\ inflight' = may
    /\ UNCHANGED stored

Crash ==
    /\ state = "up"
    /\ Die({})
    /\ UNCHANGED <<logFile, snapFile, halfway>>

\* The first k records are whole; replay drops the torn rest.  A log that has
\* failed writes none.
CrashInAppend(first, ts, k) ==
    LET es == SubSeq(Batch(first, ts), 1, k)
    IN  /\ Appendable(first, ts) /\ (failed => k = 0)
        /\ AppendRecords(es)
        /\ Die(IF k = 0 THEN {} ELSE {Logical(SubSeq(sm, 1, snapIndex), EntriesAfter(first, es))})
        /\ UNCHANGED <<snapFile, halfway>>

CrashInCompact ==
    /\ "compact" \in DiesBetween /\ Compactable
    /\ PersistSnapshot(sm)
    /\ Die({})
    /\ halfway' = TRUE
    /\ UNCHANGED logFile

CrashInInstall(image) ==
    /\ "install" \in DiesBetween \/ failed
    /\ Installable(image)
    /\ PersistSnapshot(image)
    /\ Die({Logical(image, KeptBehind(image))})
    /\ halfway' = TRUE
    /\ UNCHANGED logFile

\* newCore: the snapshot is the commit floor, the log must start behind it.
Restart ==
    /\ state = "down"
    /\ LET snap == LoadSnapshot
           log  == OpenLog(logFile, snap.lastIndex)
       IN  \/ /\ ~log.ok
              /\ state' = "refused"
              /\ UNCHANGED <<entries, snapIndex, snapTerm, commitIndex, sm, failed, stored,
                             halfway>>
           \/ /\ log.ok
              /\ state' = "up"
              /\ entries' = log.entries
              /\ snapIndex' = snap.lastIndex /\ snapTerm' = snap.lastTerm
              /\ commitIndex' = snap.lastIndex
              /\ sm' = snap.data
              /\ stored' = Logical(snap.data, log.entries)
              /\ halfway' = FALSE
              /\ UNCHANGED failed
    /\ inflight' = {}
    /\ UNCHANGED <<logFile, snapFile>>

TermLists(n) == UNION {[1..k -> 1..MaxTerm] : k \in 1..n}

Next ==
    \/ \E first \in 1..MaxIndex, ts \in TermLists(MaxBatch) : TruncateAndAppend(first, ts)
    \/ \E to \in 1..MaxIndex : Commit(to)
    \/ Compact
    \/ CompactFails
    \/ \E image \in TermLists(MaxIndex) : InstallSnapshot(image)
    \/ Crash
    \/ \E first \in 1..MaxIndex, ts \in TermLists(MaxBatch) :
           \E k \in 0..Len(ts) : CrashInAppend(first, ts, k)
    \/ CrashInCompact
    \/ \E image \in TermLists(MaxIndex) : CrashInInstall(image)
    \/ Restart

Spec == Init /\ [][Next]_vars

-----------------------------------------------------------------------------
(* Properties. *)

\* The types of the node's fields and files; the entries in memory are the
\* ones right behind the snapshot, and only what is stored is committed.
TypeOK ==
    /\ state \in {"up", "down", "refused"} /\ failed \in BOOLEAN /\ halfway \in BOOLEAN
    /\ entries \in Seq(Entry) /\ logFile \in Seq(Entry)
    /\ snapIndex \in 0..MaxIndex /\ snapTerm \in 0..MaxTerm
    /\ commitIndex \in snapIndex..LastLogIndex /\ Len(sm) = commitIndex
    /\ \A i \in DOMAIN entries : entries[i].index = snapIndex + i
    /\ \A s \in {sm, snapFile, stored} \cup inflight : s \in Seq(1..MaxTerm)

\* A restart at any moment would read back the log the node holds in memory,
\* whatever was superseded, compacted or installed before and whichever step
\* of compact failed (openLog undoes append), or it would be refused because
\* the two files are halfway: the files never pass for another log.
DiskMatchesMemory ==
    state = "up" =>
        LET log == OpenLog(logFile, LoadSnapshot.lastIndex)
        IN  \/ log.ok /\ Logical(LoadSnapshot.data, log.entries) = LogicalLog
            \/ ~log.ok /\ halfway

\* A node that comes back has the log its last handler left, or the one the
\* handler it died in was writing: nothing acknowledged to a leader is lost.
NothingLost ==
    [][state = "down" /\ state' = "up" => stored' \in {stored} \cup inflight]_vars

\* newCore refuses the files of a node only if it died, or compact failed,
\* between the writes of the two: every other history can be replayed.
RefusedOnlyHalfway == state = "refused" => halfway

\* A node can always be restarted: the snapshot is on disk first, so a crash
\* before the log is rewritten only means that some entries exist twice.
Restartable == state # "refused"

=============================================================================
