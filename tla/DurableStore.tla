---------------------------- MODULE DurableStore ----------------------------
(***************************************************************************)
(* The single-node storage engine of internal/storage: a map in memory, a  *)
(* write-ahead log in segment files, and snapshots that let old segments   *)
(* be deleted.                                                             *)
(*                                                                         *)
(* DurableStore.mu makes every mutation a unit for other callers, but not  *)
(* for a crash or a failing system call.  An append is one action with     *)
(* several outcomes; snapshot() is a chain of actions, and pc says how far *)
(* it has come.  A crash may be a power loss: what was not synced may be   *)
(* lost, torn or kept, and a deleted file may come back.                   *)
(*                                                                         *)
(* A record is its sequence number and command: framing and checksums only *)
(* serve to tell a whole record from a torn one, which the model is told.  *)
(***************************************************************************)
EXTENDS Naturals, FiniteSets, Sequences, FiniteSetsExt, SequencesExt

CONSTANTS
    Key, Value,
    Absent,     \* the content of a key that is not in the map
    Threshold,  \* records in the active segment that trigger a snapshot
    Faults,     \* the system calls that may fail
    MaxSeq      \* bound: no command beyond this sequence number

ASSUME ContentAssumption == Key # {} /\ Absent \notin Value
ASSUME LimitAssumption == Threshold \in Nat \ {0} /\ MaxSeq \in Nat
ASSUME FaultAssumption ==
    Faults \subseteq {"write", "sync", "snapshot", "create", "syncdir", "close", "remove"}

VARIABLES
    \* memory
    state,     \* "down", "open", or "refused": Open returned an error
    mem, seq, failed,
    active,    \* the first sequence number of the segment being appended to
    pc,        \* the next step of snapshot(), or "idle"
    \* disk
    segs,      \* segs[s]: the segment file that starts at sequence number s
    unlinked,  \* segments removed since the directory was last synced
    snaps,     \* snaps[s]: the snapshot of everything up to s
    \* history
    history,   \* history[i]: the command with sequence number i
    refused,   \* commands that got an error since the store was opened
    inflight   \* the command that was being written when the process died

memory == <<state, mem, seq, failed, active, pc>>
ghosts == <<history, refused, inflight>>
vars   == <<memory, segs, unlinked, snaps, ghosts>>

-----------------------------------------------------------------------------
(* Commands and their replay. *)

Map     == [Key -> Value \cup {Absent}]
Command == [key : Key, value : Value \cup {Absent}]
Record  == [seq : 1..MaxSeq, cmd : Command]

Empty == [k \in Key |-> Absent]

\* A put stores a value, a delete stores none.
ApplyCommand(m, c) == [m EXCEPT ![c.key] = c.value]

Replay(cmds) == FoldLeft(ApplyCommand, Empty, cmds)

\* Deleting an absent key returns before anything is logged.
Logged(c) == c.value = Absent => mem[c.key] # Absent

Newest(files) == Max(DOMAIN files)

\* A function on keys without the keys in S.
Without(f, S) == [x \in DOMAIN f \ S |-> f[x]]
With(f, x, y) == [z \in DOMAIN f \cup {x} |-> IF z = x THEN y ELSE f[z]]

\* The newest snapshot, or an empty store.
LoadNewestSnapshot ==
    LET newest == Max({0} \cup DOMAIN snaps)
    IN  [seq |-> newest, mem |-> IF newest = 0 THEN Empty ELSE snaps[newest], ok |-> TRUE]

\* The records of the segments from start to finish, in order of start.
AllRecords == FlattenSeq([i \in 1..Cardinality(DOMAIN segs) |->
                  segs[SetToSortSeq(DOMAIN segs, <)[i]].recs])

\* Faulty variant: records already covered are applied again.
ReplayStepAgain(r, rec) ==
    [r EXCEPT !.seq = Max({@, rec.seq}), !.mem = ApplyCommand(r.mem, rec.cmd)]

\* replayWAL: records already covered are skipped, and the others must follow
\* without a gap.
ReplayStep(r, rec) ==
    IF rec.seq <= r.seq THEN r
    ELSE IF rec.seq = r.seq + 1
         THEN [r EXCEPT !.seq = rec.seq, !.mem = ApplyCommand(r.mem, rec.cmd)]
         ELSE [r EXCEPT !.ok = FALSE]

ReplayWAL == FoldLeft(ReplayStep, LoadNewestSnapshot, AllRecords)

\* An invalid record is a torn append only at the end of the newest segment.
Corrupt == \E s \in DOMAIN segs : s # Newest(segs) /\ segs[s].tail = "torn"

-----------------------------------------------------------------------------
Init ==
    /\ state = "down"
    /\ mem = Empty /\ seq = 0 /\ failed = FALSE /\ active = 0 /\ pc = "idle"
    /\ segs = <<>> /\ unlinked = <<>> /\ snaps = <<>>
    /\ history = <<>> /\ refused = {} /\ inflight = {}

\* Recovery.  The torn tail is cut off, and appending goes on behind it.
Open ==
    /\ state = "down"
    /\ \/ /\ Corrupt \/ ~ReplayWAL.ok
          /\ state' = "refused"
          /\ UNCHANGED <<mem, seq, failed, active, pc, segs, unlinked, snaps, ghosts>>
       \/ /\ ~Corrupt /\ ReplayWAL.ok
          /\ LET r == ReplayWAL
                 s == IF segs = <<>> THEN r.seq + 1 ELSE Newest(segs)
                 w == IF segs = <<>> THEN <<>> ELSE segs[s].recs
             IN  /\ state' = "open"
                 /\ mem' = r.mem /\ seq' = r.seq /\ failed' = FALSE /\ active' = s
                 /\ segs' = With(segs, s, [recs |-> w, tail |-> "clean"])
                 /\ history' = IF r.seq > Len(history)
                               THEN history \o [i \in 1..(r.seq - Len(history)) |->
                                        (CHOOSE x \in ToSet(AllRecords) : x.seq = Len(history) + i).cmd]
                               ELSE history
          /\ refused' = {} /\ inflight' = {}
          /\ UNCHANGED <<pc, unlinked, snaps>>

\* What the active segment holds once the record of c has been written, and
\* the ways a write or a sync may leave it instead.
Appended(c) == [segs[active] EXCEPT !.recs = Append(@, [seq |-> seq + 1, cmd |-> c])]

\* Put and Delete: the record is synced, then applied, and the segment that
\* has outgrown the threshold starts a snapshot before the caller is answered.
Write(c) ==
    /\ state = "open" /\ pc = "idle" /\ ~failed
    /\ seq < MaxSeq /\ Logged(c)
    /\ segs' = [segs EXCEPT ![active] = Appended(c)]
    /\ seq' = seq + 1
    /\ mem' = ApplyCommand(mem, c)
    /\ history' = Append(history, c)
    /\ pc' = IF Len(Appended(c).recs) >= Threshold THEN "snapshot" ELSE "idle"
    /\ UNCHANGED <<state, failed, active, unlinked, snaps, refused, inflight>>

\* The append fails: the caller gets an error and the log takes no more.  A
\* failed write leaves at most a part of the record, a failed sync all of it
\* in a file that may not be on disk.
WriteFails(c) ==
    /\ state = "open" /\ pc = "idle" /\ ~failed
    /\ seq < MaxSeq /\ Logged(c)
    /\ \/ /\ "write" \in Faults
          /\ \E t \in {"clean", "torn"} : segs' = [segs EXCEPT ![active].tail = t]
       \/ /\ "sync" \in Faults
          /\ segs' = [segs EXCEPT ![active] = [Appended(c) EXCEPT !.tail = "unsynced"]]
    /\ failed' = TRUE
    /\ refused' = refused \cup {c}
    /\ UNCHANGED <<state, mem, seq, active, pc, unlinked, snaps, history,
                   inflight>>

-----------------------------------------------------------------------------
(* snapshot(), step by step; an error returns early and leaves the rest.    *)

\* The exported Snapshot, which forces one.
Snapshot ==
    /\ state = "open" /\ pc = "idle"
    /\ pc' = "snapshot"
    /\ UNCHANGED <<state, mem, seq, failed, active, segs, unlinked, snaps, ghosts>>

\* Faulty variant: the snapshot is named after the command to come.
WriteSnapshotAhead ==
    /\ state = "open" /\ pc = "snapshot" /\ seq < MaxSeq
    /\ snaps' = With(snaps, seq + 1, mem)
    /\ pc' = "rotate"
    /\ UNCHANGED <<state, mem, seq, failed, active, segs, unlinked, ghosts>>

\* Faulty variant: snapshot() goes on when no snapshot could be written.
WriteSnapshotUnchecked ==
    /\ state = "open" /\ pc = "snapshot"
    /\ \/ snaps' = With(snaps, seq, mem)
       \/ "snapshot" \in Faults /\ UNCHANGED snaps
    /\ pc' = "rotate"
    /\ UNCHANGED <<state, mem, seq, failed, active, segs, unlinked, ghosts>>

\* A snapshot is renamed into place whole; the sync of the directory after
\* that may still fail.
WriteSnapshot ==
    /\ state = "open" /\ pc = "snapshot"
    /\ \/ /\ snaps' = With(snaps, seq, mem)
          /\ pc' \in {"rotate"} \cup (IF "snapshot" \in Faults THEN {"idle"} ELSE {})
       \/ /\ "snapshot" \in Faults
          /\ pc' = "idle"
          /\ UNCHANGED snaps
    /\ UNCHANGED <<state, mem, seq, failed, active, segs, unlinked, ghosts>>

NewSegment == [recs |-> <<>>, tail |-> "clean"]

\* The new segment must not exist yet (O_EXCL).  If its directory cannot be
\* synced it stays behind, and appending goes on in the old one.
Rotate ==
    /\ state = "open" /\ pc = "rotate"
    /\ \/ /\ failed \/ seq + 1 \in DOMAIN segs \/ "create" \in Faults
          /\ pc' = "idle"
          /\ UNCHANGED <<active, segs, unlinked>>
       \/ /\ ~failed /\ seq + 1 \notin DOMAIN segs
          /\ "syncdir" \in Faults
          /\ segs' = With(segs, seq + 1, NewSegment)
          /\ pc' = "idle"
          /\ UNCHANGED <<active, unlinked>>
       \/ /\ ~failed /\ seq + 1 \notin DOMAIN segs
          /\ segs' = With(segs, seq + 1, NewSegment)
          /\ active' = seq + 1
          /\ unlinked' = <<>>
          /\ pc' \in {"remove"} \cup (IF "close" \in Faults THEN {"idle"} ELSE {})
    /\ UNCHANGED <<state, mem, seq, failed, snaps, history, refused, inflight>>

\* Faulty variant: the newest segment goes as well.
RemoveSegmentsAll ==
    /\ state = "open" /\ pc = "remove"
    /\ segs' = <<>> /\ pc' = "prune"
    /\ UNCHANGED <<state, mem, seq, failed, active, unlinked, snaps, ghosts>>

\* All segments but the newest go, oldest first.
RemoveSegments ==
    /\ state = "open" /\ pc = "remove"
    /\ LET covered == DOMAIN segs \ {Newest(segs)}
       IN  \E gone \in {covered} \cup (IF "remove" \in Faults
                                       THEN {{s \in covered : s < t} : t \in covered} ELSE {}) :
               /\ segs' = Without(segs, gone)
               /\ unlinked' = [s \in DOMAIN unlinked \cup gone |->
                                   IF s \in gone THEN segs[s] ELSE unlinked[s]]
               /\ pc' = IF gone = covered THEN "prune" ELSE "idle"
    /\ UNCHANGED <<state, mem, seq, failed, active, snaps, ghosts>>

\* All snapshots but the newest two go.  One that comes back after a crash is
\* never the newest, so their return is not modelled; some may stay.
PruneSnapshots ==
    /\ state = "open" /\ pc = "prune"
    /\ LET old == {s \in DOMAIN snaps : Cardinality({t \in DOMAIN snaps : t > s}) >= 2}
       IN  \E gone \in {old} \cup (IF "remove" \in Faults
                                   THEN {{s \in old : s < t} : t \in old} ELSE {}) :
               snaps' = Without(snaps, gone)
    /\ pc' = "idle"
    /\ UNCHANGED <<state, mem, seq, failed, active, segs, unlinked, ghosts>>

-----------------------------------------------------------------------------
(* The process dies. *)

\* The states in which a crash may leave a segment.
Settle(w) ==
    LET cut == [w EXCEPT !.recs = Front(@)]
    IN  CASE w.tail = "clean"    -> {w}
          [] w.tail = "torn"     -> {w, [w EXCEPT !.tail = "clean"]}
          [] w.tail = "unsynced" -> {[w EXCEPT !.tail = "clean"],
                                     [cut EXCEPT !.tail = "clean"], [cut EXCEPT !.tail = "torn"]}

\* files are the segments the process leaves; of the removed ones, any may
\* come back.
Die(files) ==
    /\ state = "open"
    /\ state' = "down"
    /\ mem' = Empty /\ seq' = 0 /\ failed' = FALSE /\ active' = 0 /\ pc' = "idle"
    /\ \E back \in SUBSET DOMAIN unlinked :
           LET all == [s \in DOMAIN files \cup back |->
                          IF s \in DOMAIN files THEN files[s] ELSE unlinked[s]]
           IN  \E settled \in [DOMAIN all -> UNION {Settle(all[s]) : s \in DOMAIN all}] :
                   /\ \A s \in DOMAIN all : settled[s] \in Settle(all[s])
                   /\ segs' = settled
    /\ unlinked' = <<>>
    /\ UNCHANGED <<snaps, history, refused>>

Crash == Die(segs) /\ UNCHANGED inflight

\* In the middle of an append.
CrashInWrite(c) ==
    /\ pc = "idle" /\ ~failed
    /\ seq < MaxSeq /\ Logged(c)
    /\ Die([segs EXCEPT ![active] = [Appended(c) EXCEPT !.tail = "unsynced"]])
    /\ inflight' = {c}

Next ==
    \/ Open
    \/ \E c \in Command : Write(c)
    \/ \E c \in Command : WriteFails(c)
    \/ Snapshot
    \/ WriteSnapshot
    \/ Rotate
    \/ RemoveSegments
    \/ PruneSnapshots
    \/ Crash
    \/ \E c \in Command : CrashInWrite(c)

Spec == Init /\ [][Next]_vars

-----------------------------------------------------------------------------
(* Properties. *)

Segment == [recs : Seq(Record), tail : {"clean", "torn", "unsynced"}]

\* The types of the store's fields and files; an open store appends to a
\* segment that exists.
TypeOK ==
    /\ state \in {"down", "open", "refused"}
    /\ mem \in Map /\ seq \in 0..MaxSeq /\ failed \in BOOLEAN
    /\ pc \in {"idle", "snapshot", "rotate", "remove", "prune"}
    /\ \A s \in DOMAIN segs : s \in 1..(MaxSeq + 1) /\ segs[s] \in Segment
    /\ \A s \in DOMAIN unlinked : s \in 1..(MaxSeq + 1) /\ unlinked[s] \in Segment
    /\ \A s \in DOMAIN snaps : s \in 0..MaxSeq /\ snaps[s] \in Map
    /\ state = "open" => active \in DOMAIN segs
    /\ history \in Seq(Command) /\ refused \subseteq Command /\ inflight \subseteq Command

\* Every acknowledged change can be read off the disk at every moment, with
\* the store open, down or refusing to open: it is covered by the newest
\* snapshot, or its record is whole in a segment (snapshot() removes segments
\* only behind a snapshot that is in place).
AckedOnDisk ==
    \A i \in 1..Len(history) :
        \/ i <= LoadNewestSnapshot.seq
        \/ [seq |-> i, cmd |-> history[i]] \in ToSet(AllRecords)

\* A snapshot holds exactly the commands up to its sequence number, the ones
\* kept as a hedge included.
SnapshotsExact ==
    \A s \in DOMAIN snaps : s <= Len(history) /\ snaps[s] = Replay(SubSeq(history, 1, s))

\* The store is a durable map: an acknowledged change survives every crash,
\* and only a change in doubt may join it, at recovery.  A change answered
\* with an error is in doubt, which Put denies: see ErrorMeansNotStored.
Durable == INSTANCE DurableMap WITH
               serving <- state = "open",
               data <- IF state = "open" THEN mem ELSE Replay(history),
               doubt <- {ApplyCommand(Replay(history), c) : c \in refused \cup inflight}
Promise == Durable!Spec

\* An error from Put means "not stored", never "maybe stored": a recovery
\* brings back what was acknowledged, plus at most the command whose caller
\* had no answer yet.
ErrorMeansNotStored ==
    [][state = "down" /\ state' = "open" =>
          mem' \in {Replay(history)} \cup {ApplyCommand(Replay(history), c) : c \in inflight}]_vars

=============================================================================
