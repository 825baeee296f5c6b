----------------------------- MODULE RaftTypes ------------------------------
(***************************************************************************)
(* Type correctness of Raft for every cluster, bound and input set: the    *)
(* steps of replication and crashes keep the invariant, and so do all.     *)
(***************************************************************************)
EXTENDS RaftElectionTypes

-----------------------------------------------------------------------------
(* Replication. *)

LEMMA RecognizeLeaderType ==
    ASSUME TypeInv, NEW n \in Node, NEW m, m.from \in Node, m.term \in Nat,
           RecognizeLeader(n, m)
    PROVE  /\ VotingType' /\ OfficeType' /\ role'[n] = "follower"
           /\ \A p \in Node : p # n => role'[p] = role[p] /\ term'[p] = term[p]
<1> DEFINE v == IF m.term > term[n] THEN None ELSE votedFor[n]
<1>1. v \in Node \cup {None} /\ SaveState(n, m.term, v)
    BY DEF RecognizeLeader, TypeInv, VotingType
<1> HIDE DEF v
<1>2. VotingType' /\ \A p \in Node : p # n => term'[p] = term[p]
    BY <1>1, SaveStateType DEF TypeInv
<1>3. /\ OfficeType' /\ role'[n] = "follower"
      /\ \A p \in Node : p # n => role'[p] = role[p]
    BY DEF RecognizeLeader, TypeInv, OfficeType
<1> QED
    BY <1>2, <1>3

LEMMA HandleAppendEntriesType ==
    ASSUME TypeInv, NEW m \in msgs, NEW n \in Node, HandleAppendEntries(n, m)
    PROVE  TypeInv'
<1> DEFINE lg == entries[n]
           hint == IF m.prevLogIndex > Len(lg) THEN Len(lg) + 1
                   ELSE FirstIndexOfTerm(lg, m.prevLogIndex)
           after == LogAfter(lg, m, Len(m.entries))
           commit == CommitAfter(m, commitIndex[n])
<1>1. /\ m \in Messages /\ m.type = "AppendRequest"
      /\ LeaderType' /\ nextIndex' = nextIndex /\ elected' = elected
    BY LeaderUnchanged DEF HandleAppendEntries, TypeInv, NetType
<1>2. /\ m.from \in Node /\ m.to \in Node /\ m.term \in Nat
      /\ m.prevLogIndex \in Nat /\ m.entries \in Seq(Entry) /\ m.leaderCommit \in Nat
    BY <1>1, MessageFields
<1>3. /\ term[n] \in Nat /\ lg \in Seq(Entry) /\ Len(lg) \in Nat
    BY DEF TypeInv, VotingType, LogInv, LogType
<1>4. \A q, r \in Node : role[q] = "leader" => nextIndex[q][r] >= 1
    BY DEF TypeInv, NextPositive
<1>5. CASE /\ Send({AppendReject(m, term[n], 0, 0)})
           /\ UNCHANGED <<votingVars, officeVars, logVars, commitVars>>
  <2>1. {AppendReject(m, term[n], 0, 0)} \in SUBSET Messages
    BY <1>1, <1>3, AppendAnswerType
  <2>2. LogInv' /\ NetType'
    BY <1>1, <1>5, <2>1, LogUnchanged, NetStep
  <2>3. transferTarget' \in [Node -> Node \cup {None}]
    BY <1>5 DEF TypeInv, OfficeType, officeVars
  <2>4. UNCHANGED <<votingVars, role, leaderID, votes, preVotes>>
    BY <1>5 DEF officeVars
  <2> QED
    BY <1>1, <1>4, <2>2, <2>3, <2>4, OfficeUnchanged
<1>6. CASE /\ ~PrevMatches(lg, m) /\ RecognizeLeader(n, m)
           /\ Send({AppendReject(m, m.term, hint, TermAt(lg, m.prevLogIndex))})
           /\ UNCHANGED <<logVars, commitVars>>
  <2>1. m.prevLogIndex \in Nat \ {0}
    BY <1>2, <1>6 DEF PrevMatches
  <2>2. hint \in Nat /\ TermAt(lg, m.prevLogIndex) \in Nat
    <3>1. FirstIndexOfTerm(lg, m.prevLogIndex) \in Nat
      BY <1>3, <2>1, FirstIndexOfTermType
    <3>2. TermAt(lg, m.prevLogIndex) \in Nat
      BY <1>2, <1>3, TermAtType, Zenon
    <3> QED
      BY <1>3, <3>1, <3>2
  <2> HIDE DEF hint
  <2>3. {AppendReject(m, m.term, hint, TermAt(lg, m.prevLogIndex))} \in SUBSET Messages
    BY <1>1, <1>2, <2>2, AppendAnswerType
  <2>4. LogInv' /\ NetType'
    BY <1>1, <1>6, <2>3, LogUnchanged, NetStep
  <2>5. /\ VotingType' /\ OfficeType' /\ role'[n] = "follower"
        /\ \A p \in Node : p # n => role'[p] = role[p] /\ term'[p] = term[p]
    BY <1>2, <1>6, RecognizeLeaderType
  <2> QED
    BY <1>1, <2>4, <2>5, NodeStepType
<1>7. CASE /\ PrevMatches(lg, m) /\ ~Contradicts(n, m) /\ RecognizeLeader(n, m)
           /\ StoreLog(n, after) /\ Deliver(n, after, commit)
           /\ Send({AppendSuccess(m)})
  <2>1. Len(m.entries) \in 0..Len(m.entries)
    BY <1>2
  <2>2. after \in Seq(Entry)
    BY <1>2, <1>3, <1>7, <2>1, LogAfterType
  <2>3. commit \in Nat /\ commit <= Len(after)
    BY <1>2, <1>7, CommitAfterType DEF TypeInv
  <2> HIDE DEF after, commit
  <2>4. LogInv'
    BY <1>7, <2>2, <2>3, StoreAndDeliverType DEF TypeInv
  <2>5. {AppendSuccess(m)} \in SUBSET Messages
    BY <1>1, AppendAnswerType
  <2>6. NetType'
    BY <1>1, <1>7, <2>5, NetStep
  <2>7. /\ VotingType' /\ OfficeType' /\ role'[n] = "follower"
        /\ \A p \in Node : p # n => role'[p] = role[p] /\ term'[p] = term[p]
    BY <1>2, <1>7, RecognizeLeaderType
  <2> QED
    BY <1>1, <2>4, <2>6, <2>7, NodeStepType
<1> QED
    BY <1>5, <1>6, <1>7 DEF HandleAppendEntries

\* A leader's bookkeeping about one peer keeps its frontiers positive.
LEMMA FrontierType ==
    ASSUME TypeInv, NEW n \in Node, NEW p \in Node, NEW next \in Nat \ {0},
           nextIndex' = [nextIndex EXCEPT ![n][p] = next]
    PROVE  /\ nextIndex' \in [Node -> [Node -> Nat]]
           /\ \A q, r \in Node : role[q] = "leader" => nextIndex'[q][r] >= 1
<1>1. /\ nextIndex \in [Node -> [Node -> Nat]]
      /\ \A q, r \in Node : role[q] = "leader" => nextIndex[q][r] >= 1
    BY DEF TypeInv, LeaderType, NextPositive
<1>2. nextIndex' \in [Node -> [Node -> Nat]]
    BY <1>1
<1>3. \A q, r \in Node : nextIndex'[q][r] = IF q = n /\ r = p THEN next ELSE nextIndex[q][r]
    BY <1>1
<1> QED
    BY <1>1, <1>2, <1>3

LEMMA HandleAppendResponseType ==
    ASSUME TypeInv, NEW m \in msgs, NEW n \in Node, HandleAppendResponse(n, m)
    PROVE  TypeInv'
<1>1. m \in Messages /\ m.type = "AppendResponse" /\ matchIndex \in [Node -> [Node -> Nat]]
    BY DEF HandleAppendResponse, TypeInv, NetType, LeaderType
<1>2. /\ m.from \in Node /\ m.term \in Nat /\ m.matched \in Nat
      /\ m.conflictIndex \in Nat /\ m.conflictTerm \in Nat
    BY <1>1, MessageFields
<1>3. CASE StepDown(n, m.term)
    BY <1>2, <1>3, StepDownType
<1>4. CASE /\ ~(m.term > term[n]) /\ m.success
  <2> DEFINE p      == m.from
             ahead  == m.matched > matchIndex[n][p]
             match  == [matchIndex[n] EXCEPT ![p] = IF ahead THEN m.matched ELSE @]
             next   == IF ahead THEN m.matched + 1 ELSE nextIndex[n][p]
             commit == IF ahead THEN CommitFrontier(n, term[n], entries[n], match)
                                ELSE commitIndex[n]
             last   == Len(entries[n])
  <2>1. /\ matchIndex' = [matchIndex EXCEPT ![n] = match]
        /\ nextIndex' = [nextIndex EXCEPT ![n][p] = next]
        /\ Deliver(n, entries[n], commit)
        /\ Send((IF p = transferTarget[n] /\ match[p] = last
                 THEN {TimeoutNow(n, p)} ELSE {}) \cup
                (IF next <= last
                 THEN {AppendRequest(n, p, term[n], entries[n], next, commit)}
                 ELSE {}))
        /\ UNCHANGED <<votingVars, officeVars, logVars, elected>>
        /\ role[n] = "leader"
    BY <1>2, <1>4 DEF HandleAppendResponse
  <2>2. /\ term[n] \in Nat \ {0} /\ commitIndex[n] \in Nat
        /\ entries[n] \in Seq(Entry) /\ Len(entries[n]) \in Nat
        /\ commitIndex[n] <= Len(entries[n])
        /\ nextIndex[n][p] \in Nat \ {0} /\ matchIndex[n] \in [Node -> Nat]
    BY <1>1, <1>2, <2>1, LeaderFields
  <2>3. next \in Nat \ {0} /\ match \in [Node -> Nat]
    <3>1. m.matched + 1 \in Nat \ {0}
      BY <1>2
    <3>2. (IF ahead THEN m.matched ELSE matchIndex[n][p]) \in Nat
      BY <1>1, <1>2
    <3> HIDE DEF ahead
    <3> QED
      BY <2>2, <3>1, <3>2, Zenon
  <2> HIDE DEF next, match
  <2>4. commit \in Nat /\ commit <= Len(entries[n])
    BY <2>2, CommitFrontierType
  <2> HIDE DEF commit, ahead
  <2>5. StoreLog(n, entries[n])
    BY <2>1 DEF TypeInv, LogInv, LogType, logVars, StoreLog
  <2>6. LogInv'
    BY <2>1, <2>2, <2>4, <2>5, StoreAndDeliverType DEF TypeInv
  <2>7. /\ nextIndex' \in [Node -> [Node -> Nat]]
        /\ \A q, r \in Node : role[q] = "leader" => nextIndex'[q][r] >= 1
    BY <1>2, <2>1, <2>3, FrontierType, Zenon
  <2>8. LeaderType'
    BY <1>1, <2>1, <2>3, <2>7 DEF LeaderType
  <2>9. /\ AppendRequest(n, p, term[n], entries[n], next, commit) \in Messages
        /\ TimeoutNow(n, p) \in Messages
    BY <1>2, <2>2, <2>3, <2>4, AppendRequestType, TimeoutNowType DEF TypeInv
  <2>10. NetType'
    BY <2>1, <2>9 DEF TypeInv, NetType, Send
  <2>11. /\ UNCHANGED <<votingVars, role, leaderID, votes, preVotes>>
         /\ transferTarget' \in [Node -> Node \cup {None}]
    BY <2>1 DEF TypeInv, OfficeType, officeVars
  <2> QED
    BY <2>6, <2>7, <2>8, <2>10, <2>11, OfficeUnchanged
<1>5. CASE /\ ~(m.term > term[n]) /\ ~m.success
  <2> DEFINE p    == m.from
             next == NextAfterReject(entries[n], m, nextIndex[n][p])
  <2>1. /\ nextIndex' = [nextIndex EXCEPT ![n][p] = next]
        /\ Send({AppendRequest(n, p, term[n], entries[n], next, commitIndex[n])})
        /\ UNCHANGED <<votingVars, officeVars, logVars, commitVars, matchIndex, elected>>
        /\ role[n] = "leader"
    BY <1>2, <1>5 DEF HandleAppendResponse
  <2>2. /\ term[n] \in Nat \ {0} /\ commitIndex[n] \in Nat /\ entries[n] \in Seq(Entry)
        /\ nextIndex[n][p] \in Nat \ {0}
    BY <1>2, <2>1, LeaderFields
  <2>3. next \in Nat \ {0}
    BY <1>2, <2>2, NextAfterRejectType
  <2> HIDE DEF next
  <2>4. /\ nextIndex' \in [Node -> [Node -> Nat]]
        /\ \A q, r \in Node : role[q] = "leader" => nextIndex'[q][r] >= 1
    BY <1>2, <2>1, <2>3, FrontierType, Zenon
  <2>5. AppendRequest(n, p, term[n], entries[n], next, commitIndex[n]) \in Messages
    BY <1>2, <2>2, <2>3, AppendRequestType
  <2>6. LogInv' /\ NetType'
    BY <2>1, <2>5, LogUnchanged, NetStep
  <2>7. /\ UNCHANGED <<votingVars, role, leaderID, votes, preVotes>>
        /\ transferTarget' \in [Node -> Node \cup {None}] /\ LeaderType'
    BY <1>1, <2>1, <2>4 DEF TypeInv, OfficeType, officeVars, LeaderType
  <2> QED
    BY <2>4, <2>6, <2>7, OfficeUnchanged
<1>6. m.term > term[n] => StepDown(n, m.term)
  <2>1. term[n] \in Nat
    BY DEF TypeInv, VotingType
  <2>2. m.term > term[n] => ~(m.term <= term[n])
    BY <1>2, <2>1
  <2> QED
    BY <2>2, Zenon DEF HandleAppendResponse
<1> QED
    BY <1>3, <1>4, <1>5, <1>6

-----------------------------------------------------------------------------
(* Crashes. *)

LEMMA RebootType ==
    ASSUME TypeInv, NEW n \in Node, NEW hs \in [term : Nat, votedFor : Node \cup {None}],
           NEW lg \in Seq(Entry), Reboot(n, hs, lg)
    PROVE  TypeInv'
<1>1. VotingType' /\ \A p \in Node : p # n => term'[p] = term[p]
  <2>1. hs.term \in Nat /\ hs.votedFor \in Node \cup {None}
    OBVIOUS
  <2> QED
    BY <2>1, SaveStateType DEF Reboot, TypeInv
<1>2. OfficeType' /\ role'[n] = "follower" /\ \A p \in Node : p # n => role'[p] = role[p]
    BY LeaveOfficeType DEF Reboot, TypeInv
<1>3. LogType' /\ \A p \in Node : entries'[p] = IF p = n THEN lg ELSE entries[p]
    BY DEF Reboot, StoreLog, TypeInv, LogInv, LogType
<1>4. /\ CommitType'
      /\ \A p \in Node : commitIndex'[p] = IF p = n THEN 0 ELSE commitIndex[p]
  <2>1. <<>> \in Seq(Entry)
    OBVIOUS
  <2> QED
    BY <2>1 DEF Reboot, TypeInv, LogInv, CommitType
<1>5. Len(lg) >= 0
    OBVIOUS
<1>6. CommitBound'
    BY <1>3, <1>4, <1>5 DEF TypeInv, LogInv, CommitBound
<1>7. LeaderType' /\ \A p \in Node : p # n => nextIndex'[p] = nextIndex[p]
    BY DEF Reboot, TypeInv, LeaderType
<1>8. NetType'
    BY DEF Reboot, TypeInv, NetType
<1>9. LogInv'
    BY <1>3, <1>4, <1>6 DEF LogInv
<1> QED
    BY <1>1, <1>2, <1>7, <1>8, <1>9, NodeStepType

LEMMA CrashType ==
    ASSUME TypeInv, NEW n \in Node, Crash(n)
    PROVE  TypeInv'
<1>1. /\ saved[n] \in [term : Nat, votedFor : Node \cup {None}]
      /\ entries[n] \in Seq(Entry) /\ file[n] = entries[n]
    BY DEF TypeInv, VotingType, LogInv, LogType
<1>2. CASE Restart(n)
    BY <1>1, <1>2, RebootType DEF Restart
<1>3. ASSUME NEW m \in msgs, CrashInStepDown(n, m)
      PROVE  TypeInv'
  <2>1. m.term \in Nat
    BY MessageFields DEF TypeInv, NetType
  <2>2. [term |-> m.term, votedFor |-> None] \in [term : Nat, votedFor : Node \cup {None}]
    BY <2>1
  <2> QED
    BY <1>1, <1>3, <2>2, RebootType DEF CrashInStepDown
<1>4. ASSUME NEW m \in msgs, NEW k \in 1..(MaxLog + MaxTerm), CrashInAppend(n, m, k)
      PROVE  TypeInv'
  <2> DEFINE hs == IF m.term > term[n] THEN [term |-> m.term, votedFor |-> None] ELSE saved[n]
  <2>1. /\ m.type = "AppendRequest" /\ PrevMatches(entries[n], m) /\ k <= Len(m.entries)
        /\ Reboot(n, hs, LogAfter(file[n], m, k))
    BY <1>4 DEF CrashInAppend
  <2>2. m.term \in Nat /\ m.prevLogIndex \in Nat /\ m.entries \in Seq(Entry)
    BY <2>1, MessageFields DEF TypeInv, NetType
  <2>3. hs \in [term : Nat, votedFor : Node \cup {None}]
    BY <1>1, <2>2
  <2> HIDE DEF hs
  <2>4. k \in 0..Len(m.entries)
    BY <2>1, <2>2, BoundAssumption
  <2>5. LogAfter(file[n], m, k) \in Seq(Entry)
    BY <1>1, <2>1, <2>2, <2>4, LogAfterType
  <2> QED
    BY <2>1, <2>3, <2>5, RebootType
<1> QED
    BY <1>2, <1>3, <1>4 DEF Crash

-----------------------------------------------------------------------------
LEMMA InitType ==
    Init => TypeInv
<1> SUFFICES ASSUME Init PROVE TypeInv
    OBVIOUS
<1>1. VotingType
    BY DEF Init, VotingType
<1>2. OfficeType
    BY DEF Init, OfficeType
<1>3. LogInv
  <2>1. <<>> \in Seq(Entry) /\ Len(<<>>) = 0
    OBVIOUS
  <2>2. LogType /\ CommitType
    BY <2>1 DEF Init, LogType, CommitType
  <2>3. CommitBound
    BY <2>1 DEF Init, CommitBound
  <2> QED
    BY <2>2, <2>3 DEF LogInv
<1>4. LeaderType /\ NetType
    BY DEF Init, LeaderType, NetType
<1>5. NextPositive /\ TermPositive
    BY DEF Init, NextPositive, TermPositive
<1> QED
    BY <1>1, <1>2, <1>3, <1>4, <1>5 DEF TypeInv

LEMMA NextType ==
    TypeInv /\ [Next]_vars => TypeInv'
<1> SUFFICES ASSUME TypeInv, [Next]_vars PROVE TypeInv'
    OBVIOUS
<1>1. ASSUME NEW n \in CanTimeOut, ElectionTimeout(n) PROVE TypeInv'
    BY <1>1, ElectionTimeoutType, InputAssumption
<1>2. ASSUME NEW n \in CanBeat, LeaderTick(n) PROVE TypeInv'
    BY <1>2, LeaderTickType, InputAssumption
<1>3. ASSUME NEW n \in Node, NEW v \in Commands, Propose(n, v) PROVE TypeInv'
    BY <1>3, ProposeType
<1>4. ASSUME NEW n \in Node, NEW p \in TransferTargets, TransferLeadership(n, p)
      PROVE  TypeInv'
    BY <1>4, TransferLeadershipType, InputAssumption
<1>5. ASSUME NEW m \in msgs, Receive(m.to, m) PROVE TypeInv'
  <2>1. m.to \in Node
    BY MessageFields DEF TypeInv, NetType
  <2> QED
    BY <1>5, <2>1, HandlePreVoteType, HandleRequestVoteType, HandleVoteResponseType,
       HandlePreVoteResponseType, HandleTimeoutNowType, HandleAppendEntriesType,
       HandleAppendResponseType DEF Receive
<1>6. ASSUME NEW n \in Crashable, Crash(n) PROVE TypeInv'
    BY <1>6, CrashType, InputAssumption
<1>7. CASE UNCHANGED vars
  <2>1. /\ UNCHANGED <<votingVars, role, leaderID, votes, preVotes>> /\ UNCHANGED transferTarget
        /\ UNCHANGED <<logVars, commitVars>> /\ UNCHANGED leaderVars
        /\ UNCHANGED <<msgs, elected>>
    BY <1>7 DEF vars, officeVars
  <2>2. LogInv' /\ LeaderType' /\ nextIndex' = nextIndex
    BY <2>1, LogUnchanged, LeaderUnchanged
  <2>3. NetType' /\ transferTarget' \in [Node -> Node \cup {None}]
    BY <2>1 DEF TypeInv, NetType, OfficeType
  <2>4. \A q, r \in Node : role[q] = "leader" => nextIndex[q][r] >= 1
    BY DEF TypeInv, NextPositive
  <2> QED
    BY <2>1, <2>2, <2>3, <2>4, OfficeUnchanged
<1> QED
    BY <1>1, <1>2, <1>3, <1>4, <1>5, <1>6, <1>7 DEF Next

\* Whatever is received, lost or crashed, every field of the core, both files
\* and every RPC keep their types: in particular a node knows of no commitment
\* beyond its own log, a leader never sends an append that starts before the
\* first entry, and what nodes deliver are entries of positive terms.
THEOREM TypeCorrect == Spec => [](TypeOK /\ CommitBound /\ NextPositive /\ TermPositive)
<1>1. TypeInv => TypeOK /\ CommitBound /\ NextPositive /\ TermPositive
    BY Zenon DEF TypeInv, VotingType, OfficeType, LogInv, LogType, CommitType, LeaderType,
           NetType, TypeOK
<1> QED
    BY InitType, NextType, <1>1, PTL DEF Spec
=============================================================================
