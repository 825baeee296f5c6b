----------------------------- MODULE RaftVoting -----------------------------
(***************************************************************************)
(* The voting invariant of Raft, what a step may do to it (VoteStep), and  *)
(* that the parts the handlers are made of do no more: campaigning,        *)
(* winning, stepping down, keeping still.  RaftProofs has the handlers and *)
(* the theorems.                                                           *)
(***************************************************************************)
EXTENDS Raft, FiniteSetTheorems, TLAPS

\* The types of the variables the argument is about.
VoteTypeOK ==
    /\ term \in [Node -> Nat]
    /\ votedFor \in [Node -> Node \cup {None}]
    /\ saved \in [Node -> [term : Nat, votedFor : Node \cup {None}]]
    /\ role \in [Node -> {"follower", "candidate", "leader"}]
    /\ leaderID \in [Node -> Node \cup {None}]
    /\ votes \in [Node -> SUBSET Node]
    /\ ballots \in SUBSET (Nat \X Node \X Node)
    /\ elected \in SUBSET (Nat \X Node)
    /\ \A m \in msgs : m.from \in Node /\ m.to \in Node /\ m.term \in Nat

\* A state file holds exactly what its node believes.
SavedInv ==
    \A n \in Node : saved[n].term = term[n] /\ saved[n].votedFor = votedFor[n]

\* A node has voted in no term beyond its own, and for one candidate in each.
BallotInv ==
    \A t \in Nat, v, c \in Node : <<t, v, c>> \in ballots =>
        /\ t <= term[v]
        /\ t = term[v] => votedFor[v] = c
        /\ \A d \in Node : <<t, v, d>> \in ballots => c = d

\* Votes on their way to a candidate, and votes it has counted, are real.
CountInv ==
    /\ \A m \in msgs : m.type = "VoteResponse" /\ m.granted /\ ~m.preVote =>
          <<m.campaignTerm, m.from, m.to>> \in ballots
    /\ \A n \in Node : role[n] # "follower" =>
          \A v \in votes[n] : <<term[n], v, n>> \in ballots

\* Whoever won had a majority.
WinnerInv ==
    \A t \in Nat, n \in Node : <<t, n>> \in elected =>
        \E Q \in SUBSET Node : IsMajority(Q) /\ \A v \in Q : <<t, v, n>> \in ballots

\* Only winners lead, append or are followed.
LeaderInv ==
    /\ \A n \in Node : role[n] = "leader" => <<term[n], n>> \in elected
    /\ \A m \in msgs : m.type = "AppendRequest" => <<m.term, m.from>> \in elected
    /\ LeaderHintSound

\* What every step of a node n does about votes and offices, whatever its
\* action: n's state file keeps its promises; n wins only with a majority of
\* real votes; and what n sends is true.
VoteStep(n) ==
    /\ \/ UNCHANGED votingVars
       \/ \E t \in Nat, v \in Node \cup {None} :
              /\ t >= term[n]
              /\ t = term[n] => votedFor[n] \in {None, v}
              /\ SaveState(n, t, v)
    /\ role' \in [Node -> {"follower", "candidate", "leader"}]
    /\ leaderID' \in [Node -> Node \cup {None}]
    /\ votes' \in [Node -> SUBSET Node]
    /\ \A p \in Node \ {n} :
          role'[p] = role[p] /\ leaderID'[p] = leaderID[p] /\ votes'[p] = votes[p]
    /\ \/ elected' = elected
       \/ /\ elected' = elected \cup {<<term'[n], n>>}
          /\ role'[n] = "leader" /\ IsMajority(votes'[n])
    /\ role'[n] # "follower" => \A v \in votes'[n] : <<term'[n], v, n>> \in ballots'
    /\ role'[n] = "leader" => <<term'[n], n>> \in elected'
    /\ leaderID'[n] # None => <<term'[n], leaderID'[n]>> \in elected'
    /\ \A m \in msgs' \ msgs :
          /\ m.from \in Node /\ m.to \in Node /\ m.term \in Nat
          /\ m.type = "VoteResponse" /\ m.granted /\ ~m.preVote =>
                 <<m.campaignTerm, m.from, m.to>> \in ballots'
          /\ m.type = "AppendRequest" => <<m.term, m.from>> \in elected'

VoteInv == VoteTypeOK /\ SavedInv /\ BallotInv /\ CountInv /\ WinnerInv /\ LeaderInv

-----------------------------------------------------------------------------
\* Any two majorities of the configuration share a node.
LEMMA QuorumsMeet ==
    ASSUME NEW P \in SUBSET Node, NEW Q \in SUBSET Node, IsMajority(P), IsMajority(Q)
    PROVE  P \cap Q # {}
<1>1. IsFiniteSet(Node) /\ Cardinality(Node) \in Nat
    BY NodeAssumption, FS_CardinalityType
<1>2. /\ IsFiniteSet(P) /\ Cardinality(P) \in Nat
      /\ IsFiniteSet(Q) /\ Cardinality(Q) \in Nat
    BY <1>1, FS_Subset, FS_CardinalityType
<1>3. Cardinality(P) + Cardinality(Q) > Cardinality(Node)
    BY <1>1, <1>2 DEF IsMajority
<1> QED
    BY <1>1, <1>3, FS_MajoritiesIntersect

\* Writing the state file keeps one durable vote per term, provided the write
\* does not go back to an earlier term or change a vote within one.
LEMMA SaveStateKeepsBallots ==
    ASSUME VoteTypeOK, SavedInv, BallotInv,
           NEW n \in Node, NEW t \in Nat, NEW v \in Node \cup {None},
           SaveState(n, t, v),
           t >= term[n],
           t = term[n] => votedFor[n] \in {None, v}
    PROVE  /\ term' \in [Node -> Nat]
           /\ votedFor' \in [Node -> Node \cup {None}]
           /\ saved' \in [Node -> [term : Nat, votedFor : Node \cup {None}]]
           /\ ballots' \in SUBSET (Nat \X Node \X Node)
           /\ SavedInv' /\ BallotInv'
           /\ ballots \subseteq ballots'
           /\ v \in Node => <<t, n, v>> \in ballots'
           /\ term'[n] = t
           /\ \A p \in Node : p # n => term'[p] = term[p]
<1> USE NodeAssumption
<1>0. term[n] \in Nat
    BY DEF VoteTypeOK
<1>1. /\ term' = [term EXCEPT ![n] = t]
      /\ votedFor' = [votedFor EXCEPT ![n] = v]
      /\ saved' = [saved EXCEPT ![n] = [term |-> t, votedFor |-> v]]
      /\ ballots' = ballots \cup {<<t, n, c>> : c \in {v} \ {None}}
    BY DEF SaveState
<1>2. /\ term' \in [Node -> Nat]
      /\ votedFor' \in [Node -> Node \cup {None}]
      /\ saved' \in [Node -> [term : Nat, votedFor : Node \cup {None}]]
      /\ term'[n] = t
      /\ \A p \in Node : p # n => term'[p] = term[p]
    BY <1>1 DEF VoteTypeOK
<1>3. ballots' \in SUBSET (Nat \X Node \X Node)
    BY <1>1 DEF VoteTypeOK
<1>4. ballots \subseteq ballots' /\ (v \in Node => <<t, n, v>> \in ballots')
    BY <1>1
<1>5. SavedInv'
    BY <1>1 DEF SavedInv, VoteTypeOK
<1>6. ASSUME NEW b \in Nat, NEW w \in Node, NEW c \in Node, <<b, w, c>> \in ballots'
      PROVE  /\ b <= term'[w]
             /\ b = term'[w] => votedFor'[w] = c
             /\ \A d \in Node : <<b, w, d>> \in ballots' => c = d
  <2>1. CASE w # n
    BY <1>1, <1>6, <2>1 DEF BallotInv, VoteTypeOK
  <2>2. CASE w = n /\ b # t
    BY <1>1, <1>6, <2>2 DEF BallotInv, VoteTypeOK
  <2>3. CASE w = n /\ b = t
    <3>1. \A d \in Node : <<t, n, d>> \in ballots' => d = v
      <4> TAKE d \in Node
      <4> HAVE <<t, n, d>> \in ballots'
      <4>1. CASE <<t, n, d>> \in ballots
        <5>1. t <= term[n] /\ (t = term[n] => votedFor[n] = d)
          BY <4>1 DEF BallotInv
        <5>2. t = term[n]
          BY <1>0, <5>1
        <5> QED
          BY <5>1, <5>2
      <4>2. CASE <<t, n, d>> \notin ballots
        BY <1>1, <4>2
      <4> QED
        BY <4>1, <4>2
    <3> QED
      BY <1>1, <1>6, <2>3, <3>1 DEF VoteTypeOK
  <2> QED
    BY <2>1, <2>2, <2>3
<1>7. BallotInv'
    BY <1>6 DEF BallotInv
<1> QED
    BY <1>2, <1>3, <1>4, <1>5, <1>7


LEMMA VoteStepPreserves ==
    ASSUME VoteInv, NEW n \in Node, VoteStep(n)
    PROVE  VoteInv'
<1> USE DEF VoteInv
<1>1. /\ term' \in [Node -> Nat]
      /\ votedFor' \in [Node -> Node \cup {None}]
      /\ saved' \in [Node -> [term : Nat, votedFor : Node \cup {None}]]
      /\ ballots' \in SUBSET (Nat \X Node \X Node)
      /\ SavedInv' /\ BallotInv'
      /\ ballots \subseteq ballots'
      /\ \A p \in Node : p # n => term'[p] = term[p]
  <2>1. CASE UNCHANGED votingVars
    BY <2>1 DEF votingVars, VoteTypeOK, SavedInv, BallotInv
  <2>2. CASE ~UNCHANGED votingVars
    <3>1. PICK t \in Nat, v \in Node \cup {None} :
              /\ t >= term[n]
              /\ t = term[n] => votedFor[n] \in {None, v}
              /\ SaveState(n, t, v)
      BY <2>2 DEF VoteStep
    <3> QED
      BY <3>1, SaveStateKeepsBallots, Zenon
  <2> QED
    BY <2>1, <2>2
<1>2. elected \subseteq elected' /\ elected' \in SUBSET (Nat \X Node)
    BY <1>1 DEF VoteStep, VoteTypeOK
<1>3. VoteTypeOK'
    BY <1>1, <1>2, Zenon DEF VoteStep, VoteTypeOK
<1>4. CountInv'
  <2>1. ASSUME NEW m \in msgs', m.type = "VoteResponse", m.granted, ~m.preVote
        PROVE  <<m.campaignTerm, m.from, m.to>> \in ballots'
    BY <1>1, <2>1, Zenon DEF CountInv, VoteStep
  <2>2. ASSUME NEW p \in Node, role'[p] # "follower", NEW v \in votes'[p]
        PROVE  <<term'[p], v, p>> \in ballots'
    BY <1>1, <2>2 DEF CountInv, VoteStep
  <2> QED
    BY <2>1, <2>2 DEF CountInv
<1>5. WinnerInv'
  <2> SUFFICES ASSUME NEW t \in Nat, NEW w \in Node, <<t, w>> \in elected'
               PROVE  \E Q \in SUBSET Node : IsMajority(Q) /\ \A v \in Q : <<t, v, w>> \in ballots'
    BY DEF WinnerInv
  <2>1. CASE <<t, w>> \in elected
    BY <1>1, <2>1 DEF WinnerInv
  <2>2. CASE <<t, w>> \notin elected
    <3>1. t = term'[n] /\ w = n /\ role'[n] = "leader" /\ IsMajority(votes'[n])
      BY <2>2 DEF VoteStep
    <3>2. \A v \in votes'[n] : <<t, v, w>> \in ballots'
      BY <3>1 DEF VoteStep
    <3> QED
      BY <3>1, <3>2 DEF VoteStep
  <2> QED
    BY <2>1, <2>2
<1>6. LeaderInv'
  <2>1. ASSUME NEW p \in Node
        PROVE  /\ role'[p] = "leader" => <<term'[p], p>> \in elected'
               /\ leaderID'[p] # None => <<term'[p], leaderID'[p]>> \in elected'
    BY <1>1, <1>2, Zenon DEF LeaderInv, LeaderHintSound, VoteStep
  <2>2. ASSUME NEW m \in msgs', m.type = "AppendRequest"
        PROVE  <<m.term, m.from>> \in elected'
    BY <1>2, <2>2, Zenon DEF LeaderInv, VoteStep
  <2> QED
    BY <2>1, <2>2, Zenon DEF LeaderInv, LeaderHintSound
<1> QED
    BY <1>1, <1>3, <1>4, <1>5, <1>6

\* An append request carries the sender's name and term, whatever it holds.
LEMMA AppendRequestHead ==
    ASSUME NEW n, NEW p, NEW t, NEW lg, NEW next, NEW commit, NEW m,
           m = AppendRequest(n, p, t, lg, next, commit)
    PROVE  m.type = "AppendRequest" /\ m.from = n /\ m.to = p /\ m.term = t
BY DEF AppendRequest

\* Whatever log a broadcast is cut from, its requests carry the sender's name
\* and term.
LEMMA BroadcastHeads ==
    ASSUME NEW n \in Node, NEW t, NEW lg, NEW next, NEW commit,
           NEW m \in Broadcast(n, t, lg, next, commit)
    PROVE  m.type = "AppendRequest" /\ m.from = n /\ m.to \in Node /\ m.term = t
BY DEF Broadcast, AppendRequest, Peers

\* A node that wins does so with votes it may count.
LEMMA MaybeWinElectionStep ==
    ASSUME VoteInv, NEW n \in Node, NEW t \in Nat, NEW vs \in SUBSET Node,
           NEW probes, NEW out,
           MaybeWinElection(n, t, vs, probes, out),
           \/ UNCHANGED votingVars
           \/ \E u \in Nat, v \in Node \cup {None} :
                 /\ u >= term[n]
                 /\ u = term[n] => votedFor[n] \in {None, v}
                 /\ SaveState(n, u, v),
           term'[n] = t,
           \A v \in vs : <<t, v, n>> \in ballots',
           \A m \in out : /\ m.from \in Node /\ m.to \in Node /\ m.term \in Nat
                          /\ m.type = "VoteRequest"
    PROVE  VoteStep(n)
<1>h. \A lg, next, commit : \A m \in Broadcast(n, t, lg, next, commit) :
         m.type = "AppendRequest" /\ m.from = n /\ m.to \in Node /\ m.term = t
    BY BroadcastHeads
<1> USE DEF VoteInv, VoteTypeOK
<1>0. votes' = [votes EXCEPT ![n] = vs] /\ votes' \in [Node -> SUBSET Node]
    BY DEF MaybeWinElection
<1>1. CASE ~IsMajority(vs)
  <2>1. /\ role' = [role EXCEPT ![n] = "candidate"]
        /\ leaderID' = [leaderID EXCEPT ![n] = None]
        /\ msgs' = msgs \cup out
        /\ elected' = elected
    BY <1>1 DEF MaybeWinElection, Send
  <2> QED
    BY <1>0, <2>1 DEF VoteStep
<1>2. CASE IsMajority(vs)
  <2> DEFINE ms == Broadcast(n, t, Append(entries[n], [term |-> t, cmd |-> Noop]),
                             [p \in Node |-> Len(entries[n]) + 1], commitIndex[n])
  <2>1. /\ role' = [role EXCEPT ![n] = "leader"]
        /\ leaderID' = [leaderID EXCEPT ![n] = n]
        /\ elected' = elected \cup {<<t, n>>}
        /\ msgs' = msgs \cup (out \cup ms)
    BY <1>2, Zenon DEF MaybeWinElection, BecomeLeader, Send
  <2>2. \A m \in ms : m.type = "AppendRequest" /\ m.from = n /\ m.to \in Node /\ m.term = t
    BY <1>h, Zenon
  <2> HIDE DEF ms
  <2> QED
    BY <1>0, <1>2, <2>1, <2>2 DEF VoteStep
<1> QED
    BY <1>1, <1>2

\* A campaign starts with a new term and the candidate's own vote on disk.
LEMMA StartCampaignStep ==
    ASSUME VoteInv, NEW n \in Node, NEW t \in Nat, t >= term[n], NEW probes, NEW out,
           \A m \in out : /\ m.from \in Node /\ m.to \in Node /\ m.term \in Nat
                          /\ m.type = "VoteRequest",
           StartCampaign(n, t, probes, out)
    PROVE  VoteStep(n)
<1> DEFINE ask == out \cup {VoteRequest(n, p, t + 1, FALSE) : p \in Peers(n)}
<1>1. /\ SaveState(n, t + 1, n)
      /\ MaybeWinElection(n, t + 1, {n}, probes, ask)
    BY DEF StartCampaign
<1>2. \A m \in ask : /\ m.from \in Node /\ m.to \in Node /\ m.term \in Nat
                     /\ m.type = "VoteRequest"
    BY DEF VoteRequest, Peers
<1>3. t + 1 \in Nat /\ t + 1 >= term[n] /\ t + 1 # term[n]
    BY DEF VoteInv, VoteTypeOK
<1>4. term'[n] = t + 1 /\ <<t + 1, n, n>> \in ballots'
    BY <1>1, NodeAssumption DEF SaveState, VoteInv, VoteTypeOK
<1>5. \E u \in Nat, v \in Node \cup {None} :
          /\ u >= term[n]
          /\ u = term[n] => votedFor[n] \in {None, v}
          /\ SaveState(n, u, v)
    BY <1>1, <1>3
<1> HIDE DEF ask
<1> QED
    BY <1>1, <1>2, <1>3, <1>4, <1>5, MaybeWinElectionStep

\* Stepping down to a newer term forgets the vote of an older one only.
LEMMA StepDownStep ==
    ASSUME VoteInv, NEW n \in Node, NEW t \in Nat, t > term[n], StepDown(n, t)
    PROVE  VoteStep(n)
<1> USE DEF VoteInv, VoteTypeOK
<1>1. t >= term[n] /\ t # term[n] /\ SaveState(n, t, None)
    BY DEF StepDown
<1>2. /\ role' = [role EXCEPT ![n] = "follower"]
      /\ leaderID' = [leaderID EXCEPT ![n] = None]
      /\ votes' = [votes EXCEPT ![n] = {}]
      /\ elected' = elected /\ msgs' = msgs
    BY DEF StepDown, LeaveOffice
<1> QED
    BY <1>1, <1>2 DEF VoteStep

\* A step that leaves votes and offices alone need only send true messages.
LEMMA QuietStep ==
    ASSUME VoteInv, NEW n \in Node,
           UNCHANGED <<votingVars, role, leaderID, votes, elected>>,
           \A m \in msgs' \ msgs :
              /\ m.from \in Node /\ m.to \in Node /\ m.term \in Nat
              /\ m.type = "VoteResponse" => ~(m.granted /\ ~m.preVote)
              /\ m.type = "AppendRequest" => <<m.term, m.from>> \in elected
    PROVE  VoteStep(n)
<1>1. term' = term /\ ballots' = ballots
    BY DEF votingVars
<1> QED
    BY <1>1 DEF VoteStep, VoteInv, VoteTypeOK, CountInv, LeaderInv, LeaderHintSound

LEMMA MaybeWinPreVoteStep ==
    ASSUME VoteInv, NEW n \in Node, NEW vs, NEW out,
           \A m \in out : /\ m.from \in Node /\ m.to \in Node /\ m.term \in Nat
                          /\ m.type = "VoteRequest",
           MaybeWinPreVote(n, vs, out)
    PROVE  VoteStep(n)
<1>1. CASE IsMajority(vs)
  <2>1. StartCampaign(n, term[n], {}, out)
    BY <1>1 DEF MaybeWinPreVote
  <2>2. term[n] \in Nat /\ term[n] >= term[n]
    BY DEF VoteInv, VoteTypeOK
  <2> QED
    BY <2>1, <2>2, StartCampaignStep
<1>2. CASE ~IsMajority(vs)
  <2>1. UNCHANGED <<votingVars, role, leaderID, votes, elected>> /\ msgs' = msgs \cup out
    BY <1>2 DEF MaybeWinPreVote, Send
  <2> QED
    BY <2>1, QuietStep
<1> QED
    BY <1>1, <1>2

LEMMA ElectionTimeoutStep ==
    ASSUME VoteInv, NEW n \in Node, ElectionTimeout(n)
    PROVE  VoteStep(n)
<1>1. term[n] \in Nat /\ term[n] >= term[n] /\ term[n] + 1 \in Nat
    BY DEF VoteInv, VoteTypeOK
<1>2. CASE n \in PreVote
  <2> DEFINE ask == {VoteRequest(n, p, term[n] + 1, TRUE) : p \in Peers(n)}
  <2>1. \A m \in ask : /\ m.from \in Node /\ m.to \in Node /\ m.term \in Nat
                       /\ m.type = "VoteRequest"
    BY <1>1 DEF VoteRequest, Peers
  <2>2. MaybeWinPreVote(n, {n}, ask)
    BY <1>2 DEF ElectionTimeout, StartPreCampaign
  <2> HIDE DEF ask
  <2> QED
    BY <2>1, <2>2, MaybeWinPreVoteStep
<1>3. CASE n \notin PreVote
  <2>1. StartCampaign(n, term[n], preVotes[n], {})
    BY <1>3 DEF ElectionTimeout
  <2> QED
    BY <1>1, <2>1, StartCampaignStep
<1> QED
    BY <1>2, <1>3
=============================================================================
