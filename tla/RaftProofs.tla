----------------------------- MODULE RaftProofs -----------------------------
(***************************************************************************)
(* Elections are safe for every cluster, bound and input set: at most one  *)
(* leader per term, votes that survive crashes, and leader hints that name *)
(* a real winner.  The argument needs nothing of the logs: every vote is   *)
(* counted by its candidate only after it is in the voter's state file     *)
(* (ballots), the file holds one vote per term, and majorities meet.       *)
(***************************************************************************)
EXTENDS RaftVoting, FiniteSetTheorems, TLAPS

LEMMA HandlePreVoteStep ==
    ASSUME VoteInv, NEW n \in Node, NEW m \in msgs, HandlePreVote(n, m)
    PROVE  VoteStep(n)
<1>1. PICK granted : msgs' = msgs \cup {VoteResponse(m, term[n], granted)}
    BY DEF HandlePreVote, Send
<1>2. UNCHANGED <<votingVars, role, leaderID, votes, elected>> /\ m.preVote
    BY DEF HandlePreVote, officeVars
<1>3. LET r == VoteResponse(m, term[n], granted)
      IN  /\ r.from \in Node /\ r.to \in Node /\ r.term \in Nat
          /\ r.type = "VoteResponse" /\ r.preVote
    BY <1>2 DEF VoteResponse, VoteInv, VoteTypeOK
<1> QED
    BY <1>1, <1>2, <1>3, QuietStep

\* A vote is granted to one candidate per term and is on disk when it leaves.
LEMMA HandleRequestVoteStep ==
    ASSUME VoteInv, NEW n \in Node, NEW m \in msgs, HandleRequestVote(n, m)
    PROVE  VoteStep(n)
<1> DEFINE newer   == m.term > term[n]
           now     == IF newer THEN m.term ELSE term[n]
           ballot  == IF newer THEN None ELSE votedFor[n]
           granted == /\ m.term >= term[n]
                      /\ ballot \in {None, m.from}
                      /\ LogUpToDate(entries[n], m)
           vote    == IF granted THEN m.from ELSE ballot
           r       == VoteResponse(m, now, granted)
<1>1. /\ m.to = n
      /\ SaveState(n, now, vote)
      /\ \/ newer /\ LeaveOffice(n)
         \/ ~newer /\ UNCHANGED officeVars
      /\ msgs' = msgs \cup {r}
      /\ elected' = elected
    BY DEF HandleRequestVote, Send
<1> USE DEF VoteInv, VoteTypeOK
<1>2. m.from \in Node /\ m.term \in Nat /\ term[n] \in Nat /\ votedFor[n] \in Node \cup {None}
    OBVIOUS
<1>3. /\ now \in Nat /\ vote \in Node \cup {None}
      /\ now >= term[n]
      /\ now = term[n] => votedFor[n] \in {None, vote}
      /\ granted => now = m.term /\ vote = m.from
  <2>1. CASE newer
    BY <1>2, <2>1
  <2>2. CASE ~newer
    BY <1>2, <2>2
  <2> QED
    BY <2>1, <2>2, Zenon
<1>4. r.from = n /\ r.to = m.from /\ r.term = now /\ r.type = "VoteResponse"
      /\ r.granted = granted /\ r.campaignTerm = m.term
    BY <1>1 DEF VoteResponse
<1> HIDE DEF granted, ballot
<1>5. /\ term'[n] = now
      /\ granted => <<m.term, n, m.from>> \in ballots'
      /\ ballots \subseteq ballots'
    BY <1>1, <1>2, <1>3, NodeAssumption DEF SaveState
<1> HIDE DEF r, vote
<1>6. CASE newer
  <2>1. /\ role' = [role EXCEPT ![n] = "follower"]
        /\ leaderID' = [leaderID EXCEPT ![n] = None]
        /\ votes' = [votes EXCEPT ![n] = {}]
    BY <1>1, <1>6 DEF LeaveOffice
  <2> QED
    BY <1>1, <1>2, <1>3, <1>4, <1>5, <2>1 DEF VoteStep
<1>7. CASE ~newer
  <2>1. role' = role /\ leaderID' = leaderID /\ votes' = votes /\ now = term[n]
    BY <1>1, <1>7 DEF officeVars
  <2> HIDE DEF now
  <2> QED
    BY <1>1, <1>2, <1>3, <1>4, <1>5, <2>1, Zenon DEF VoteStep, CountInv, LeaderInv, LeaderHintSound
<1> QED
    BY <1>6, <1>7

LEMMA HandleVoteResponseStep ==
    ASSUME VoteInv, NEW n \in Node, NEW m \in msgs, HandleVoteResponse(n, m)
    PROVE  VoteStep(n)
<1>1. m.from \in Node /\ m.term \in Nat /\ term[n] \in Nat /\ votes[n] \in SUBSET Node
    BY DEF VoteInv, VoteTypeOK
<1>2. CASE m.term > term[n]
    BY <1>1, <1>2, StepDownStep DEF HandleVoteResponse
<1>3. CASE ~(m.term > term[n])
  <2>1. /\ m.type = "VoteResponse" /\ m.to = n /\ ~m.preVote /\ m.granted
        /\ role[n] = "candidate" /\ m.campaignTerm = term[n]
        /\ MaybeWinElection(n, term[n], votes[n] \cup {m.from}, preVotes[n], {})
        /\ UNCHANGED votingVars
    BY <1>3 DEF HandleVoteResponse
  <2>2. term' = term /\ ballots' = ballots
    BY <2>1 DEF votingVars
  <2>3. \A v \in votes[n] \cup {m.from} : <<term[n], v, n>> \in ballots'
    BY <2>1, <2>2 DEF VoteInv, CountInv
  <2>4. votes[n] \cup {m.from} \in SUBSET Node
    BY <1>1
  <2> QED
    BY <1>1, <2>1, <2>2, <2>3, <2>4, MaybeWinElectionStep
<1> QED
    BY <1>2, <1>3

LEMMA HandlePreVoteResponseStep ==
    ASSUME VoteInv, NEW n \in Node, NEW m \in msgs, HandlePreVoteResponse(n, m)
    PROVE  VoteStep(n)
<1>1. m.term \in Nat /\ term[n] \in Nat
    BY DEF VoteInv, VoteTypeOK
<1>2. CASE m.term > term[n]
    BY <1>1, <1>2, StepDownStep DEF HandlePreVoteResponse
<1>3. CASE ~(m.term > term[n])
  <2>1. MaybeWinPreVote(n, preVotes[n] \cup {m.from}, {})
    BY <1>3 DEF HandlePreVoteResponse
  <2> QED
    BY <2>1, MaybeWinPreVoteStep
<1> QED
    BY <1>2, <1>3

LEMMA HandleTimeoutNowStep ==
    ASSUME VoteInv, NEW n \in Node, NEW m \in msgs, HandleTimeoutNow(n, m)
    PROVE  VoteStep(n)
<1>1. m.term \in Nat /\ m.term >= term[n]
    BY DEF VoteInv, VoteTypeOK, HandleTimeoutNow
<1>2. \E probes : StartCampaign(n, m.term, probes, {})
    BY DEF HandleTimeoutNow
<1> QED
    BY <1>1, <1>2, StartCampaignStep

\* A leader that ticks, hands over or proposes only speaks for its own term.
LEMMA LeaderStep ==
    ASSUME VoteInv, NEW n \in Node,
           LeaderTick(n) \/ (\E p \in TransferTargets : TransferLeadership(n, p))
                         \/ (\E v \in Commands : Propose(n, v))
    PROVE  VoteStep(n)
<1>1. /\ role[n] = "leader"
      /\ UNCHANGED <<votingVars, role, leaderID, votes, elected>>
    BY Zenon DEF LeaderTick, TransferLeadership, Propose, officeVars
<1>2. term[n] \in Nat /\ <<term[n], n>> \in elected
    BY <1>1 DEF VoteInv, VoteTypeOK, LeaderInv
<1>3. ASSUME NEW m \in msgs' \ msgs
      PROVE  /\ m.from = n /\ m.to \in Node /\ m.term = term[n]
             /\ m.type # "VoteResponse"
  <2>1. CASE LeaderTick(n)
    <3>1. m \in Broadcast(n, term[n], entries[n], nextIndex[n], commitIndex[n])
      BY <1>3, <2>1 DEF LeaderTick, Send
    <3> QED
      BY <3>1, BroadcastHeads
  <2>2. ASSUME NEW p \in TransferTargets, TransferLeadership(n, p)
        PROVE  /\ m.from = n /\ m.to \in Node /\ m.term = term[n]
               /\ m.type # "VoteResponse"
    <3>1. \/ m = TimeoutNow(n, p)
          \/ m = AppendRequest(n, p, term[n], entries[n], nextIndex[n][p], commitIndex[n])
      BY <1>3, <2>2, Zenon DEF TransferLeadership, Send
    <3>2. p \in Node
      BY InputAssumption
    <3>3. CASE m = TimeoutNow(n, p)
      BY <3>2, <3>3 DEF TimeoutNow
    <3>4. CASE m = AppendRequest(n, p, term[n], entries[n], nextIndex[n][p], commitIndex[n])
      <4>1. m.type = "AppendRequest" /\ m.from = n /\ m.to = p /\ m.term = term[n]
        BY <3>4, AppendRequestHead
      <4> QED
        BY <3>2, <4>1
    <3> QED
      BY <3>1, <3>3, <3>4, Zenon
  <2>3. ASSUME NEW v \in Commands, Propose(n, v)
        PROVE  /\ m.from = n /\ m.to \in Node /\ m.term = term[n]
               /\ m.type # "VoteResponse"
    <3>1. PICK lg : m \in Broadcast(n, term[n], lg, nextIndex[n], commitIndex[n])
      BY <1>3, <2>3, Zenon DEF Propose, Send
    <3> QED
      BY <3>1, BroadcastHeads
  <2> QED
    BY <2>1, <2>2, <2>3
<1> QED
    BY <1>1, <1>2, <1>3, QuietStep

\* An append is proof of a winner, so whoever it deposes or redirects learns
\* the truth, and no vote of the current term is lost.
LEMMA HandleAppendEntriesStep ==
    ASSUME VoteInv, NEW n \in Node, NEW m \in msgs, HandleAppendEntries(n, m)
    PROVE  VoteStep(n)
<1>1. /\ m.from \in Node /\ m.to = n /\ m.term \in Nat /\ term[n] \in Nat
      /\ votedFor[n] \in Node \cup {None}
      /\ <<m.term, m.from>> \in elected
      /\ elected' = elected
    BY DEF VoteInv, VoteTypeOK, LeaderInv, HandleAppendEntries
<1>2. \A x \in msgs' \ msgs : /\ x.from \in Node /\ x.to \in Node /\ x.term \in Nat
                              /\ x.type = "AppendResponse"
  <2>1. \/ Send({AppendSuccess(m)})
        \/ \E t \in {term[n], m.term} : \E i, c : Send({AppendReject(m, t, i, c)})
    BY Zenon DEF HandleAppendEntries
  <2> QED
    BY <1>1, <2>1 DEF Send, AppendReject, AppendSuccess
<1>3. CASE m.term < term[n]
  <2>1. UNCHANGED <<votingVars, role, leaderID, votes, elected>>
    <3>1. ~(m.term >= term[n])
      BY <1>1, <1>3
    <3>2. UNCHANGED votingVars /\ UNCHANGED officeVars /\ UNCHANGED elected
      BY <3>1, Zenon DEF HandleAppendEntries
    <3> QED
      BY <3>2 DEF officeVars
  <2> QED
    BY <1>2, <2>1, QuietStep, Zenon
<1>4. CASE ~(m.term < term[n])
  <2> DEFINE v == IF m.term > term[n] THEN None ELSE votedFor[n]
  <2>1. RecognizeLeader(n, m)
    BY <1>4, Zenon DEF HandleAppendEntries
  <2>2. /\ SaveState(n, m.term, v)
        /\ role' = [role EXCEPT ![n] = "follower"]
        /\ leaderID' = [leaderID EXCEPT ![n] = m.from]
        /\ votes' = [votes EXCEPT ![n] = {}]
    BY <2>1 DEF RecognizeLeader
  <2>3. /\ v \in Node \cup {None}
        /\ m.term >= term[n]
        /\ m.term = term[n] => votedFor[n] \in {None, v}
    BY <1>1, <1>4
  <2> HIDE DEF v
  <2>4. term'[n] = m.term
    BY <2>2 DEF SaveState, VoteInv, VoteTypeOK
  <2> QED
    BY <1>1, <1>2, <2>2, <2>3, <2>4, Zenon DEF VoteStep, VoteInv, VoteTypeOK
<1> QED
    BY <1>3, <1>4

LEMMA HandleAppendResponseStep ==
    ASSUME VoteInv, NEW n \in Node, NEW m \in msgs, HandleAppendResponse(n, m)
    PROVE  VoteStep(n)
<1>1. m.from \in Node /\ m.term \in Nat /\ term[n] \in Nat
    BY DEF VoteInv, VoteTypeOK
<1>2. CASE m.term > term[n]
  <2>1. ~(m.term <= term[n])
    BY <1>1, <1>2
  <2>2. StepDown(n, m.term)
    BY <2>1, Zenon DEF HandleAppendResponse
  <2> QED
    BY <1>1, <1>2, <2>2, StepDownStep
<1>3. CASE ~(m.term > term[n])
  <2>1. /\ role[n] = "leader"
        /\ UNCHANGED <<votingVars, role, leaderID, votes, elected>>
    BY <1>3 DEF HandleAppendResponse, officeVars
  <2>2. <<term[n], n>> \in elected
    BY <2>1 DEF VoteInv, LeaderInv
  <2>3. ASSUME NEW x \in msgs' \ msgs
        PROVE  /\ x.from = n /\ x.to \in Node /\ x.term = term[n]
               /\ x.type # "VoteResponse"
    <3>1. \/ x = TimeoutNow(n, m.from)
          \/ \E next, commit : x = AppendRequest(n, m.from, term[n], entries[n], next, commit)
      <4>1. CASE m.success
        <5> DEFINE ahead  == m.matched > matchIndex[n][m.from]
                   match  == [matchIndex[n] EXCEPT ![m.from] = IF ahead THEN m.matched ELSE @]
                   next   == IF ahead THEN m.matched + 1 ELSE nextIndex[n][m.from]
                   commit == IF ahead THEN CommitFrontier(n, term[n], entries[n], match)
                                      ELSE commitIndex[n]
                   fire   == m.from = transferTarget[n] /\ match[m.from] = Len(entries[n])
        <5>1. Send((IF fire THEN {TimeoutNow(n, m.from)} ELSE {}) \cup
                   (IF next <= Len(entries[n])
                    THEN {AppendRequest(n, m.from, term[n], entries[n], next, commit)}
                    ELSE {}))
          BY <1>3, <4>1, Zenon DEF HandleAppendResponse
        <5> HIDE DEF next, commit, fire
        <5> QED
          BY <2>3, <5>1, Zenon DEF Send
      <4>2. CASE ~m.success
        <5>1. \E next :
                Send({AppendRequest(n, m.from, term[n], entries[n], next, commitIndex[n])})
          BY <1>3, <4>2, Zenon DEF HandleAppendResponse
        <5> QED
          BY <2>3, <5>1, Zenon DEF Send
      <4> QED
        BY <4>1, <4>2
    <3>2. CASE x = TimeoutNow(n, m.from)
      BY <1>1, <3>2 DEF TimeoutNow
    <3>3. ASSUME NEW next, NEW commit,
                 x = AppendRequest(n, m.from, term[n], entries[n], next, commit)
          PROVE  x.type = "AppendRequest" /\ x.from = n /\ x.to = m.from /\ x.term = term[n]
      BY <3>3, AppendRequestHead
    <3> QED
      BY <1>1, <3>1, <3>2, <3>3
  <2> QED
    BY <1>1, <2>1, <2>2, <2>3, QuietStep, Zenon
<1> QED
    BY <1>2, <1>3

\* Every crash point leaves the state file at its old content or at a newer
\* term without a vote.
LEMMA CrashStep ==
    ASSUME VoteInv, NEW n \in Node, Crash(n)
    PROVE  VoteStep(n)
<1>1. PICK hs, lg :
          /\ Reboot(n, hs, lg)
          /\ \/ hs = saved[n]
             \/ \E m \in msgs : m.term > term[n] /\ hs = [term |-> m.term, votedFor |-> None]
  <2>1. CASE Restart(n)
    BY <2>1 DEF Restart
  <2>2. CASE \E m \in msgs : CrashInStepDown(n, m)
    BY <2>2 DEF CrashInStepDown
  <2>3. CASE \E m \in msgs : \E k \in 1..(MaxLog + MaxTerm) : CrashInAppend(n, m, k)
    <3>1. PICK m \in msgs, k \in 1..(MaxLog + MaxTerm) : CrashInAppend(n, m, k)
      BY <2>3
    <3>2. CASE m.term > term[n]
      BY <3>1, <3>2 DEF CrashInAppend
    <3>3. CASE ~(m.term > term[n])
      BY <3>1, <3>3 DEF CrashInAppend
    <3> QED
      BY <3>2, <3>3
  <2> QED
    BY <2>1, <2>2, <2>3, Zenon DEF Crash
<1> USE DEF VoteInv, VoteTypeOK
<1>2. /\ hs.term \in Nat /\ hs.votedFor \in Node \cup {None}
      /\ hs.term >= term[n]
      /\ hs.term = term[n] => hs.votedFor = votedFor[n]
  <2>1. CASE hs = saved[n]
    BY <2>1 DEF SavedInv
  <2>2. CASE \E m \in msgs : m.term > term[n] /\ hs = [term |-> m.term, votedFor |-> None]
    <3>1. PICK m \in msgs : m.term > term[n] /\ hs = [term |-> m.term, votedFor |-> None]
      BY <2>2
    <3>2. m.term \in Nat /\ term[n] \in Nat
      OBVIOUS
    <3> QED
      BY <3>1, <3>2
  <2> QED
    BY <1>1, <2>1, <2>2
<1>3. /\ SaveState(n, hs.term, hs.votedFor)
      /\ role' = [role EXCEPT ![n] = "follower"]
      /\ leaderID' = [leaderID EXCEPT ![n] = None]
      /\ votes' = [votes EXCEPT ![n] = {}]
      /\ elected' = elected /\ msgs' = msgs
    BY <1>1 DEF Reboot, LeaveOffice
<1> QED
    BY <1>2, <1>3, Zenon DEF VoteStep

-----------------------------------------------------------------------------
LEMMA NextIsVoteStep ==
    ASSUME VoteInv, Next
    PROVE  \E n \in Node : VoteStep(n)
<1> USE InputAssumption
<1>1. ASSUME NEW n \in CanTimeOut, ElectionTimeout(n) PROVE VoteStep(n)
    BY <1>1, ElectionTimeoutStep
<1>2. ASSUME NEW n \in CanBeat, LeaderTick(n) PROVE VoteStep(n)
    BY <1>2, LeaderStep
<1>3. ASSUME NEW n \in Node, NEW v \in Commands, Propose(n, v) PROVE VoteStep(n)
    BY <1>3, LeaderStep
<1>4. ASSUME NEW n \in Node, NEW p \in TransferTargets, TransferLeadership(n, p) PROVE VoteStep(n)
    BY <1>4, LeaderStep
<1>5. ASSUME NEW n \in Node, NEW m \in msgs, Receive(n, m) PROVE VoteStep(n)
    BY <1>5, HandlePreVoteStep, HandleRequestVoteStep, HandleVoteResponseStep,
       HandlePreVoteResponseStep, HandleTimeoutNowStep, HandleAppendEntriesStep,
       HandleAppendResponseStep DEF Receive
<1>6. ASSUME NEW n \in Crashable, Crash(n) PROVE VoteStep(n)
    BY <1>6, CrashStep
<1>7. \A m \in msgs : m.to \in Node
    BY DEF VoteInv, VoteTypeOK
<1> QED
    BY <1>1, <1>2, <1>3, <1>4, <1>5, <1>6, <1>7 DEF Next

\* The invariant of the election argument holds throughout.
THEOREM VoteInvariant == Spec => []VoteInv
<1>1. Init => VoteInv
    BY NodeAssumption
    DEF Init, VoteInv, VoteTypeOK, SavedInv, BallotInv, CountInv, WinnerInv, LeaderInv,
        LeaderHintSound
<1>2. VoteInv /\ [Next]_vars => VoteInv'
  <2> SUFFICES ASSUME VoteInv, [Next]_vars
               PROVE  VoteInv'
    OBVIOUS
  <2>1. CASE Next
    BY <2>1, NextIsVoteStep, VoteStepPreserves
  <2>2. CASE UNCHANGED vars
    <3>1. /\ UNCHANGED <<term, votedFor, saved, ballots, elected, msgs>>
          /\ UNCHANGED <<role, leaderID, votes>>
      BY <2>2 DEF vars, votingVars, officeVars
    <3>2. (VoteTypeOK /\ SavedInv /\ BallotInv)'
      BY <3>1 DEF VoteInv, VoteTypeOK, SavedInv, BallotInv
    <3>3. (CountInv /\ WinnerInv)'
      BY <3>1 DEF VoteInv, CountInv, WinnerInv, IsMajority
    <3>4. LeaderInv'
      BY <3>1 DEF VoteInv, LeaderInv, LeaderHintSound
    <3> QED
      BY <3>2, <3>3, <3>4, Zenon DEF VoteInv
  <2> QED
    BY <2>1, <2>2
<1> QED
    BY <1>1, <1>2, PTL DEF Spec

\* At most one node wins the election of a term, for any cluster size, any
\* number of terms, and any loss, delay, reordering, duplication or crash.
THEOREM ElectionSafetyTheorem == Spec => []ElectionSafety
<1>1. VoteInv => ElectionSafety
  <2> SUFFICES ASSUME VoteInv, NEW e \in elected, NEW f \in elected, e[1] = f[1]
               PROVE  e[2] = f[2]
    BY DEF ElectionSafety
  <2>1. /\ e[1] \in Nat /\ e[2] \in Node /\ e = <<e[1], e[2]>>
        /\ f[2] \in Node /\ f = <<e[1], f[2]>>
    BY DEF VoteInv, VoteTypeOK
  <2>2. PICK P \in SUBSET Node : IsMajority(P) /\ \A v \in P : <<e[1], v, e[2]>> \in ballots
    BY <2>1 DEF VoteInv, WinnerInv
  <2>3. PICK Q \in SUBSET Node : IsMajority(Q) /\ \A v \in Q : <<e[1], v, f[2]>> \in ballots
    BY <2>1 DEF VoteInv, WinnerInv
  <2>4. PICK v \in Node : v \in P /\ v \in Q
    BY <2>2, <2>3, QuorumsMeet
  <2>5. <<e[1], v, e[2]>> \in ballots /\ <<e[1], v, f[2]>> \in ballots
    BY <2>2, <2>3, <2>4
  <2>6. BallotInv
    BY DEF VoteInv
  <2> QED
    BY <2>1, <2>5, <2>6 DEF BallotInv
<1> QED
    BY <1>1, VoteInvariant, PTL

\* The leader a node redirects clients to has won the node's term.
THEOREM LeaderHintTheorem == Spec => []LeaderHintSound
<1>1. VoteInv => LeaderHintSound
    BY DEF VoteInv, LeaderInv
<1> QED
    BY <1>1, VoteInvariant, PTL

\* No step, a crash inside a handler included, takes a state file back to an
\* earlier term or changes a vote within a term.
THEOREM VotesAreDurableTheorem == Spec => VotesAreDurable
<1> DEFINE Kept == \A n \in Node :
          \/ saved'[n].term > saved[n].term
          \/ saved'[n].term = saved[n].term
             /\ saved[n].votedFor \in {None, saved'[n].votedFor}
<1>1. VoteInv /\ [Next]_vars => [Kept]_vars
  <2> SUFFICES ASSUME VoteInv, Next PROVE Kept
    OBVIOUS
  <2>1. PICK n \in Node : VoteStep(n)
    BY NextIsVoteStep
  <2>2. CASE UNCHANGED votingVars
    BY <2>2 DEF votingVars
  <2>3. CASE ~UNCHANGED votingVars
    <3>1. PICK t \in Nat, v \in Node \cup {None} :
              /\ t >= term[n]
              /\ t = term[n] => votedFor[n] \in {None, v}
              /\ SaveState(n, t, v)
      BY <2>1, <2>3 DEF VoteStep
    <3>2. saved' = [saved EXCEPT ![n] = [term |-> t, votedFor |-> v]]
      BY <3>1 DEF SaveState
    <3>3. saved[n].term = term[n] /\ saved[n].votedFor = votedFor[n] /\ term[n] \in Nat
      BY DEF VoteInv, VoteTypeOK, SavedInv
    <3>4. saved'[n].term = t /\ saved'[n].votedFor = v
          /\ \A p \in Node \ {n} : saved'[p] = saved[p]
      BY <3>2 DEF VoteInv, VoteTypeOK
    <3> QED
      BY <3>1, <3>3, <3>4
  <2> QED
    BY <2>2, <2>3
<1> QED
    BY <1>1, VoteInvariant, PTL DEF Spec, VotesAreDurable

=============================================================================
