----------------------------- MODULE RaftSafety -----------------------------
(***************************************************************************)
(* What the core of Raft promises about logs and deliveries across nodes:  *)
(* the safety properties that compare one node's log with another's or     *)
(* with what was delivered, and the refinement of ReplicatedLog.  They are *)
(* apart from Raft so that proofs about Raft do not carry SequencesExt.    *)
(***************************************************************************)
EXTENDS Raft, SequencesExt

\* The leader of the latest term won so far holds everything any state
\* machine was ever given (logUpToDate and the current-term commit rule).
LeaderCompleteness ==
    \A n \in Node :
        role[n] = "leader" /\ (\A e \in elected : e[1] <= term[n]) => IsPrefix(chosen, entries[n])

\* What was once delivered anywhere is in the log files of a majority at
\* every later moment, so no minority of lost disks can take it back.
Durability ==
    IsMajority({n \in Node : IsPrefix(chosen, file[n])})

\* The nodes' state machines behave as replicas of one growing sequence: a
\* delivery never contradicts what any node was ever given, and nothing
\* delivered is forgotten by the cluster.
Log == INSTANCE ReplicatedLog
OneHistory == Log!Spec

\* What a leader believes stored on a peer is there: up to matchIndex the
\* peer's file equals the leader's log, until a newer leader is recognized.
MatchIndexSound ==
    \A n, p \in Node :
        role[n] = "leader" /\ p # n /\ term[p] = term[n] =>
            /\ matchIndex[n][p] <= Len(entries[n])
            /\ IsPrefix(SubSeq(entries[n], 1, matchIndex[n][p]), file[p])

=============================================================================
