------------------------- MODULE RaftElectionTypes --------------------------
(***************************************************************************)
(* The steps of elections, leadership transfer, ticks and proposals keep   *)
(* the invariant of type correctness.                                      *)
(***************************************************************************)
EXTENDS RaftOperators

\* A step of one node keeps the invariant if the types and the log are right
\* after it and, should the node be in office, its term and frontiers are.
LEMMA NodeStepType ==
    ASSUME TypeInv, NEW n \in Node,
           VotingType', OfficeType', LogInv', LeaderType', NetType',
           \A p \in Node : p # n => /\ role'[p] = role[p] /\ term'[p] = term[p]
                                    /\ nextIndex'[p] = nextIndex[p],
           role'[n] = "leader" => \A q \in Node : nextIndex'[n][q] >= 1,
           role'[n] # "follower" => term'[n] > 0
    PROVE  TypeInv'
<1>1. NextPositive'
    BY DEF TypeInv, NextPositive
<1>2. TermPositive'
    BY DEF TypeInv, TermPositive
<1> QED
    BY <1>1, <1>2 DEF TypeInv

\* The parts of the state that a step leaves alone keep their types.
LEMMA LogUnchanged ==
    ASSUME TypeInv, UNCHANGED <<logVars, commitVars>>
    PROVE  LogInv'
BY DEF TypeInv, LogInv, LogType, CommitType, CommitBound, logVars, commitVars

LEMMA LeaderUnchanged ==
    ASSUME TypeInv, UNCHANGED leaderVars
    PROVE  LeaderType' /\ nextIndex' = nextIndex
BY DEF TypeInv, LeaderType, leaderVars

LEMMA NetStep ==
    ASSUME TypeInv, NEW ms \in SUBSET Messages, Send(ms), elected' = elected
    PROVE  NetType'
BY DEF TypeInv, NetType, Send

LEMMA LeaveOfficeType ==
    ASSUME OfficeType, NEW n \in Node, LeaveOffice(n)
    PROVE  /\ OfficeType' /\ role'[n] = "follower"
           /\ \A p \in Node : p # n => role'[p] = role[p]
BY DEF OfficeType, LeaveOffice

LEMMA StepDownType ==
    ASSUME TypeInv, NEW n \in Node, NEW t \in Nat, StepDown(n, t)
    PROVE  TypeInv'
<1>1. /\ VotingType' /\ \A p \in Node : p # n => term'[p] = term[p]
    BY SaveStateType DEF StepDown, TypeInv
<1>2. /\ OfficeType' /\ role'[n] = "follower" /\ \A p \in Node : p # n => role'[p] = role[p]
    BY LeaveOfficeType DEF StepDown, TypeInv
<1>3. LogInv'
    BY LogUnchanged DEF StepDown
<1>4. LeaderType' /\ nextIndex' = nextIndex
    BY LeaderUnchanged DEF StepDown
<1>5. NetType'
    BY DEF StepDown, TypeInv, NetType
<1> QED
    BY <1>1, <1>2, <1>3, <1>4, <1>5, NodeStepType

-----------------------------------------------------------------------------
(* Elections. *)

LEMMA BecomeLeaderType ==
    ASSUME TypeInv, NEW n \in Node, NEW t \in Nat \ {0}, NEW out \in SUBSET Messages,
           BecomeLeader(n, t, out)
    PROVE  /\ LogInv' /\ LeaderType' /\ NetType'
           /\ \A q \in Node : nextIndex'[n][q] >= 1
           /\ \A p \in Node : p # n => nextIndex'[p] = nextIndex[p]
<1> DEFINE lg   == Append(entries[n], [term |-> t, cmd |-> Noop])
           next == [p \in Node |-> Len(entries[n]) + 1]
           none == [p \in Node |-> 0]
           commit == CommitFrontier(n, t, lg, none)
<1>1. /\ nextIndex' = [nextIndex EXCEPT ![n] = next]
      /\ matchIndex' = [matchIndex EXCEPT ![n] = none]
      /\ StoreLog(n, lg) /\ Deliver(n, lg, commit)
      /\ Send(out \cup Broadcast(n, t, lg, next, commitIndex[n]))
      /\ elected' = elected \cup {<<t, n>>}
    BY DEF BecomeLeader
<1>2. /\ entries[n] \in Seq(Entry) /\ Len(entries[n]) \in Nat
      /\ commitIndex[n] \in Nat /\ commitIndex[n] <= Len(entries[n])
    BY DEF TypeInv, LogInv, LogType, CommitType, CommitBound
<1>3. lg \in Seq(Entry) /\ Len(lg) = Len(entries[n]) + 1
  <2>1. [term |-> t, cmd |-> Noop] \in Entry
    BY DEF Entry
  <2> QED
    BY <1>2, <2>1, AppendProperties
<1>4. commitIndex[n] <= Len(lg)
    BY <1>2, <1>3
<1> HIDE DEF lg, none
<1>5. commit \in Nat /\ commit <= Len(lg)
    BY <1>2, <1>3, <1>4, CommitFrontierType
<1>6. LogInv'
    BY <1>1, <1>3, <1>5, StoreAndDeliverType DEF TypeInv
<1>7. next \in [Node -> Nat \ {0}] /\ none \in [Node -> Nat]
    BY <1>2 DEF none
<1> HIDE DEF next
<1>8. /\ LeaderType' /\ \A q \in Node : nextIndex'[n][q] >= 1
      /\ \A p \in Node : p # n => nextIndex'[p] = nextIndex[p]
  <2>1. /\ nextIndex \in [Node -> [Node -> Nat]]
        /\ matchIndex \in [Node -> [Node -> Nat]]
    BY DEF TypeInv, LeaderType
  <2>2. next \in [Node -> Nat] /\ \A q \in Node : next[q] >= 1
    BY <1>7
  <2>3. nextIndex'[n] = next /\ \A p \in Node : p # n => nextIndex'[p] = nextIndex[p]
    BY <1>1, <2>1
  <2>4. nextIndex' \in [Node -> [Node -> Nat]] /\ matchIndex' \in [Node -> [Node -> Nat]]
    BY <1>1, <1>7, <2>1, <2>2
  <2> QED
    BY <2>2, <2>3, <2>4 DEF LeaderType
<1>9. Broadcast(n, t, lg, next, commitIndex[n]) \in SUBSET Messages
    BY <1>2, <1>3, <1>7, BroadcastType
<1>10. NetType'
    BY <1>1, <1>9 DEF TypeInv, NetType, Send
<1> QED
    BY <1>6, <1>8, <1>10

LEMMA MaybeWinElectionType ==
    ASSUME TypeInv, NEW n \in Node, NEW t \in Nat \ {0},
           NEW vs \in SUBSET Node, NEW probes \in SUBSET Node, NEW out \in SUBSET Messages,
           VotingType', term'[n] = t, \A p \in Node : p # n => term'[p] = term[p],
           MaybeWinElection(n, t, vs, probes, out)
    PROVE  TypeInv'
<1>0. OfficeType
    BY DEF TypeInv
<1>1. CASE ~IsMajority(vs)
  <2>1. /\ role' = [role EXCEPT ![n] = "candidate"] /\ leaderID' = [leaderID EXCEPT ![n] = None]
        /\ votes' = [votes EXCEPT ![n] = vs] /\ preVotes' = [preVotes EXCEPT ![n] = probes]
        /\ transferTarget' = [transferTarget EXCEPT ![n] = None]
        /\ Send(out) /\ UNCHANGED <<logVars, commitVars>> /\ UNCHANGED leaderVars
        /\ elected' = elected
    BY <1>1 DEF MaybeWinElection
  <2>2. OfficeType' /\ role'[n] = "candidate" /\ \A p \in Node : p # n => role'[p] = role[p]
    BY <1>0, <2>1 DEF OfficeType
  <2>3. LogInv' /\ LeaderType' /\ nextIndex' = nextIndex /\ NetType'
    BY <2>1, LogUnchanged, LeaderUnchanged, NetStep
  <2> QED
    BY <2>2, <2>3, NodeStepType
<1>2. CASE IsMajority(vs)
  <2>1. BecomeLeader(n, t, out)
    BY <1>2 DEF MaybeWinElection
  <2>2. /\ role' = [role EXCEPT ![n] = "leader"] /\ leaderID' = [leaderID EXCEPT ![n] = n]
        /\ votes' = [votes EXCEPT ![n] = vs] /\ preVotes' = [preVotes EXCEPT ![n] = {}]
        /\ transferTarget' = [transferTarget EXCEPT ![n] = None]
    BY <2>1 DEF MaybeWinElection, BecomeLeader
  <2>3. OfficeType' /\ role'[n] = "leader" /\ \A p \in Node : p # n => role'[p] = role[p]
    BY <1>0, <2>2 DEF OfficeType
  <2>4. /\ LogInv' /\ LeaderType' /\ NetType'
        /\ \A q \in Node : nextIndex'[n][q] >= 1
        /\ \A p \in Node : p # n => nextIndex'[p] = nextIndex[p]
    BY <2>1, BecomeLeaderType
  <2> QED
    BY <2>3, <2>4, NodeStepType
<1> QED
    BY <1>1, <1>2

LEMMA StartCampaignType ==
    ASSUME TypeInv, NEW n \in Node, NEW t \in Nat, NEW probes \in SUBSET Node,
           NEW out \in SUBSET Messages, StartCampaign(n, t, probes, out)
    PROVE  TypeInv'
<1> DEFINE asks == {VoteRequest(n, p, t + 1, FALSE) : p \in Peers(n)}
<1>1. SaveState(n, t + 1, n) /\ MaybeWinElection(n, t + 1, {n}, probes, out \cup asks)
    BY DEF StartCampaign
<1>2. VotingType' /\ term'[n] = t + 1 /\ \A p \in Node : p # n => term'[p] = term[p]
    BY <1>1, SaveStateType DEF TypeInv
<1>3. asks \in SUBSET Messages
  <2>1. LogType /\ t + 1 \in Nat /\ \A p \in Peers(n) : p \in Node
    BY DEF TypeInv, LogInv, Peers
  <2>2. \A p \in Peers(n) : VoteRequest(n, p, t + 1, FALSE) \in Messages
    BY <2>1, VoteRequestType, Zenon
  <2> QED
    BY <2>2, Zenon
<1> HIDE DEF asks
<1>4. t + 1 \in Nat \ {0} /\ {n} \in SUBSET Node /\ (out \cup asks) \in SUBSET Messages
    BY <1>3
<1> QED
    BY <1>1, <1>2, <1>4, MaybeWinElectionType

LEMMA MaybeWinPreVoteType ==
    ASSUME TypeInv, NEW n \in Node, NEW vs \in SUBSET Node, NEW out \in SUBSET Messages,
           MaybeWinPreVote(n, vs, out)
    PROVE  TypeInv'
<1>1. CASE ~IsMajority(vs)
  <2>1. /\ preVotes' = [preVotes EXCEPT ![n] = vs] /\ Send(out)
        /\ UNCHANGED <<term, votedFor, saved, ballots>>
        /\ UNCHANGED <<role, leaderID, votes, transferTarget>>
        /\ UNCHANGED <<logVars, commitVars>> /\ UNCHANGED leaderVars /\ elected' = elected
    BY <1>1 DEF MaybeWinPreVote, StartCampaign, votingVars
  <2>2. VotingType' /\ OfficeType'
    BY <2>1 DEF TypeInv, VotingType, OfficeType
  <2>3. LogInv' /\ LeaderType' /\ nextIndex' = nextIndex /\ NetType'
    BY <2>1, LogUnchanged, LeaderUnchanged, NetStep
  <2>4. /\ role[n] = "leader" => \A q \in Node : nextIndex[n][q] >= 1
        /\ role[n] # "follower" => term[n] > 0
    BY DEF TypeInv, NextPositive, TermPositive
  <2> QED
    BY <2>1, <2>2, <2>3, <2>4, NodeStepType
<1>2. CASE IsMajority(vs)
  <2>1. StartCampaign(n, term[n], {}, out) /\ term[n] \in Nat
    BY <1>2 DEF MaybeWinPreVote, TypeInv, VotingType
  <2> QED
    BY <2>1, StartCampaignType
<1> QED
    BY <1>1, <1>2

LEMMA ElectionTimeoutType ==
    ASSUME TypeInv, NEW n \in Node, ElectionTimeout(n)
    PROVE  TypeInv'
<1>1. term[n] \in Nat /\ term[n] + 1 \in Nat /\ preVotes[n] \in SUBSET Node
    BY DEF TypeInv, VotingType, OfficeType
<1>2. CASE StartPreCampaign(n)
  <2> DEFINE asks == {VoteRequest(n, p, term[n] + 1, TRUE) : p \in Peers(n)}
  <2>1. \A p \in Peers(n) : VoteRequest(n, p, term[n] + 1, TRUE) \in Messages
    BY <1>1, VoteRequestType, Zenon DEF TypeInv, LogInv, Peers
  <2>2. asks \in SUBSET Messages /\ MaybeWinPreVote(n, {n}, asks)
    BY <1>2, <2>1, Zenon DEF StartPreCampaign
  <2> HIDE DEF asks
  <2> QED
    BY <2>2, MaybeWinPreVoteType
<1>3. CASE StartCampaign(n, term[n], preVotes[n], {})
    BY <1>1, <1>3, StartCampaignType
<1> QED
    BY <1>2, <1>3 DEF ElectionTimeout

\* A step that leaves the office and the voting state of everyone alone.
LEMMA OfficeUnchanged ==
    ASSUME TypeInv, UNCHANGED <<votingVars, role, leaderID, votes, preVotes>>,
           transferTarget' \in [Node -> Node \cup {None}],
           LogInv', LeaderType', NetType',
           \A n, p \in Node : role[n] = "leader" => nextIndex'[n][p] >= 1
    PROVE  TypeInv'
<1>1. VotingType' /\ OfficeType'
    BY DEF TypeInv, VotingType, OfficeType, votingVars
<1>2. NextPositive' /\ TermPositive'
    BY DEF TypeInv, NextPositive, TermPositive, votingVars
<1> QED
    BY <1>1, <1>2 DEF TypeInv

LEMMA HandlePreVoteType ==
    ASSUME TypeInv, NEW m \in msgs, NEW n \in Node, HandlePreVote(n, m)
    PROVE  TypeInv'
<1>1. /\ m \in Messages /\ term[n] \in Nat
      /\ transferTarget \in [Node -> Node \cup {None}]
    BY DEF TypeInv, NetType, VotingType, OfficeType
<1>2. m.from \in Node /\ m.to \in Node /\ m.term \in Nat /\ m.preVote \in BOOLEAN
    BY <1>1, MessageFields DEF HandlePreVote
<1>3. PICK granted \in BOOLEAN : Send({VoteResponse(m, term[n], granted)})
    BY Zenon DEF HandlePreVote, LogUpToDate
<1>4. {VoteResponse(m, term[n], granted)} \in SUBSET Messages
    BY <1>1, <1>2, VoteResponseType
<1>5. /\ UNCHANGED <<votingVars, role, leaderID, votes, preVotes>>
      /\ UNCHANGED transferTarget /\ UNCHANGED <<logVars, commitVars>>
      /\ UNCHANGED leaderVars /\ elected' = elected
    BY DEF HandlePreVote, officeVars
<1>6. LogInv' /\ LeaderType' /\ nextIndex' = nextIndex /\ NetType'
    BY <1>3, <1>4, <1>5, LogUnchanged, LeaderUnchanged, NetStep
<1>7. \A q, p \in Node : role[q] = "leader" => nextIndex[q][p] >= 1
    BY DEF TypeInv, NextPositive
<1> QED
    BY <1>1, <1>5, <1>6, <1>7, OfficeUnchanged

LEMMA HandleRequestVoteType ==
    ASSUME TypeInv, NEW m \in msgs, NEW n \in Node, HandleRequestVote(n, m)
    PROVE  TypeInv'
<1> DEFINE newer   == m.term > term[n]
           now     == IF newer THEN m.term ELSE term[n]
           ballot  == IF newer THEN None ELSE votedFor[n]
           granted == /\ m.term >= term[n]
                      /\ ballot \in {None, m.from}
                      /\ LogUpToDate(entries[n], m)
           v       == IF granted THEN m.from ELSE ballot
<1>1. m \in Messages /\ term[n] \in Nat /\ votedFor[n] \in Node \cup {None} /\ OfficeType
    BY DEF TypeInv, NetType, VotingType
<1>2. m.from \in Node /\ m.to \in Node /\ m.term \in Nat /\ m.preVote \in BOOLEAN
    BY <1>1, MessageFields DEF HandleRequestVote
<1>3. /\ SaveState(n, now, v)
      /\ \/ newer /\ LeaveOffice(n)
         \/ ~newer /\ UNCHANGED officeVars
      /\ Send({VoteResponse(m, now, granted)})
      /\ UNCHANGED <<logVars, commitVars>> /\ UNCHANGED leaderVars /\ elected' = elected
    BY DEF HandleRequestVote
<1>4. now \in Nat /\ v \in Node \cup {None} /\ granted \in BOOLEAN
  <2>1. now \in Nat /\ ballot \in Node \cup {None}
    BY <1>1, <1>2
  <2>2. granted \in BOOLEAN
    BY DEF LogUpToDate
  <2> HIDE DEF granted, ballot
  <2> QED
    BY <1>2, <2>1, <2>2
<1>5. ~newer => now = term[n]
    OBVIOUS
<1> HIDE DEF newer, now, v, granted
<1>6. VotingType' /\ term'[n] = now /\ \A p \in Node : p # n => term'[p] = term[p]
    BY <1>3, <1>4, SaveStateType DEF TypeInv
<1>7. {VoteResponse(m, now, granted)} \in SUBSET Messages
    BY <1>2, <1>4, VoteResponseType
<1>8. LogInv' /\ LeaderType' /\ nextIndex' = nextIndex /\ NetType'
    BY <1>3, <1>7, LogUnchanged, LeaderUnchanged, NetStep
<1>9. CASE newer /\ LeaveOffice(n)
  <2>1. OfficeType' /\ role'[n] = "follower" /\ \A p \in Node : p # n => role'[p] = role[p]
    BY <1>1, <1>9, LeaveOfficeType
  <2> QED
    BY <1>6, <1>8, <2>1, NodeStepType
<1>10. CASE ~newer /\ UNCHANGED officeVars
  <2>1. OfficeType' /\ role' = role
    BY <1>1, <1>10 DEF OfficeType, officeVars
  <2>2. /\ role[n] = "leader" => \A q \in Node : nextIndex[n][q] >= 1
        /\ role[n] # "follower" => term'[n] > 0
    BY <1>5, <1>6, <1>10 DEF TypeInv, NextPositive, TermPositive
  <2> QED
    BY <1>6, <1>8, <2>1, <2>2, NodeStepType
<1> QED
    BY <1>3, <1>9, <1>10

LEMMA HandleVoteResponseType ==
    ASSUME TypeInv, NEW m \in msgs, NEW n \in Node, HandleVoteResponse(n, m)
    PROVE  TypeInv'
<1>1. m.from \in Node /\ m.term \in Nat
    BY MessageFields DEF TypeInv, NetType
<1>2. CASE StepDown(n, m.term)
    BY <1>1, <1>2, StepDownType
<1>3. CASE /\ role[n] = "candidate" /\ UNCHANGED votingVars
           /\ MaybeWinElection(n, term[n], votes[n] \cup {m.from}, preVotes[n], {})
  <2>1. term[n] \in Nat \ {0} /\ votes[n] \in SUBSET Node /\ preVotes[n] \in SUBSET Node
    BY <1>3 DEF TypeInv, VotingType, OfficeType, TermPositive
  <2>2. VotingType' /\ term' = term
    BY <1>3 DEF TypeInv, VotingType, votingVars
  <2>3. (votes[n] \cup {m.from}) \in SUBSET Node
    BY <1>1, <2>1
  <2> QED
    BY <1>3, <2>1, <2>2, <2>3, MaybeWinElectionType
<1> QED
    BY <1>2, <1>3 DEF HandleVoteResponse

LEMMA HandlePreVoteResponseType ==
    ASSUME TypeInv, NEW m \in msgs, NEW n \in Node, HandlePreVoteResponse(n, m)
    PROVE  TypeInv'
<1>1. m.from \in Node /\ m.term \in Nat /\ preVotes[n] \in SUBSET Node
    BY MessageFields DEF TypeInv, NetType, OfficeType
<1>2. CASE StepDown(n, m.term)
    BY <1>1, <1>2, StepDownType
<1>3. CASE MaybeWinPreVote(n, preVotes[n] \cup {m.from}, {})
  <2>1. (preVotes[n] \cup {m.from}) \in SUBSET Node
    BY <1>1
  <2> QED
    BY <1>3, <2>1, MaybeWinPreVoteType
<1> QED
    BY <1>2, <1>3 DEF HandlePreVoteResponse

-----------------------------------------------------------------------------
(* Leadership transfer, ticks and proposals. *)

\* What a leader builds its messages from.
LEMMA LeaderFields ==
    ASSUME TypeInv, NEW n \in Node, role[n] = "leader"
    PROVE  /\ term[n] \in Nat \ {0} /\ commitIndex[n] \in Nat
           /\ entries[n] \in Seq(Entry) /\ Len(entries[n]) \in Nat
           /\ commitIndex[n] <= Len(entries[n])
           /\ \A p \in Node : nextIndex[n][p] \in Nat \ {0}
<1>1. term[n] \in Nat \ {0}
    BY DEF TypeInv, VotingType, TermPositive
<1>2. /\ entries[n] \in Seq(Entry) /\ Len(entries[n]) \in Nat
      /\ commitIndex[n] \in Nat /\ commitIndex[n] <= Len(entries[n])
    BY DEF TypeInv, LogInv, LogType, CommitType, CommitBound
<1>3. \A p \in Node : nextIndex[n][p] \in Nat \ {0}
    BY DEF TypeInv, LeaderType, NextPositive
<1> QED
    BY <1>1, <1>2, <1>3

LEMMA TransferLeadershipType ==
    ASSUME TypeInv, NEW n \in Node, NEW p \in Node, TransferLeadership(n, p)
    PROVE  TypeInv'
<1>1. /\ role[n] = "leader" /\ transferTarget' = [transferTarget EXCEPT ![n] = p]
      /\ UNCHANGED <<votingVars, role, leaderID, votes, preVotes>>
      /\ UNCHANGED <<logVars, commitVars>> /\ UNCHANGED leaderVars /\ elected' = elected
    BY DEF TransferLeadership
<1>2. TimeoutNow(n, p) \in Messages
    BY TimeoutNowType DEF TypeInv
<1>3. AppendRequest(n, p, term[n], entries[n], nextIndex[n][p], commitIndex[n]) \in Messages
    BY <1>1, LeaderFields, AppendRequestType
<1>4. PICK m \in Messages : Send({m})
    BY <1>2, <1>3, Zenon DEF TransferLeadership
<1>5. LogInv' /\ LeaderType' /\ nextIndex' = nextIndex /\ NetType'
    BY <1>1, <1>4, LogUnchanged, LeaderUnchanged, NetStep
<1>6. transferTarget' \in [Node -> Node \cup {None}]
    BY <1>1 DEF TypeInv, OfficeType
<1>7. \A q, r \in Node : role[q] = "leader" => nextIndex[q][r] >= 1
    BY DEF TypeInv, NextPositive
<1> QED
    BY <1>1, <1>5, <1>6, <1>7, OfficeUnchanged

LEMMA LeaderTickType ==
    ASSUME TypeInv, NEW n \in Node, LeaderTick(n)
    PROVE  TypeInv'
<1>1. /\ role[n] = "leader"
      /\ UNCHANGED <<votingVars, role, leaderID, votes, preVotes>>
      /\ UNCHANGED <<logVars, commitVars>> /\ UNCHANGED leaderVars /\ elected' = elected
    BY DEF LeaderTick
<1>2. Broadcast(n, term[n], entries[n], nextIndex[n], commitIndex[n]) \in SUBSET Messages
    BY <1>1, LeaderFields, BroadcastType
<1>3. NetType'
    BY <1>1, <1>2 DEF LeaderTick, Send, TypeInv, NetType
<1>4. LogInv' /\ LeaderType' /\ nextIndex' = nextIndex
    BY <1>1, LogUnchanged, LeaderUnchanged
<1>5. transferTarget' \in [Node -> Node \cup {None}]
    BY DEF LeaderTick, TypeInv, OfficeType
<1>6. \A q, r \in Node : role[q] = "leader" => nextIndex[q][r] >= 1
    BY DEF TypeInv, NextPositive
<1> QED
    BY <1>1, <1>3, <1>4, <1>5, <1>6, OfficeUnchanged

LEMMA HandleTimeoutNowType ==
    ASSUME TypeInv, NEW m \in msgs, NEW n \in Node, HandleTimeoutNow(n, m)
    PROVE  TypeInv'
<1> DEFINE probes == IF m.term > term[n] THEN {} ELSE preVotes[n]
<1>1. m.term \in Nat /\ preVotes[n] \in SUBSET Node
    BY MessageFields DEF TypeInv, NetType, OfficeType
<1>2. probes \in SUBSET Node /\ StartCampaign(n, m.term, probes, {})
    BY <1>1 DEF HandleTimeoutNow
<1> HIDE DEF probes
<1> QED
    BY <1>1, <1>2, StartCampaignType

LEMMA ProposeType ==
    ASSUME TypeInv, NEW n \in Node, NEW v \in Commands, Propose(n, v)
    PROVE  TypeInv'
<1> DEFINE lg == Append(entries[n], [term |-> term[n], cmd |-> v])
           commit == CommitFrontier(n, term[n], lg, matchIndex[n])
<1>1. /\ role[n] = "leader" /\ StoreLog(n, lg) /\ Deliver(n, lg, commit)
      /\ Send(Broadcast(n, term[n], lg, nextIndex[n], commitIndex[n]))
      /\ UNCHANGED <<votingVars, role, leaderID, votes, preVotes>>
      /\ UNCHANGED transferTarget /\ UNCHANGED leaderVars /\ elected' = elected
    BY DEF Propose, officeVars
<1>2. /\ term[n] \in Nat \ {0} /\ commitIndex[n] \in Nat
      /\ entries[n] \in Seq(Entry) /\ Len(entries[n]) \in Nat
      /\ commitIndex[n] <= Len(entries[n])
      /\ \A p \in Node : nextIndex[n][p] \in Nat \ {0}
    BY <1>1, LeaderFields
<1>3. lg \in Seq(Entry) /\ Len(lg) = Len(entries[n]) + 1
  <2>1. [term |-> term[n], cmd |-> v] \in Entry
    BY <1>2 DEF Entry
  <2> QED
    BY <1>2, <2>1, AppendProperties
<1>4. commitIndex[n] <= Len(lg)
    BY <1>2, <1>3
<1> HIDE DEF lg
<1>5. commit \in Nat /\ commit <= Len(lg)
    BY <1>2, <1>3, <1>4, CommitFrontierType
<1>6. LogInv'
    BY <1>1, <1>3, <1>5, StoreAndDeliverType DEF TypeInv
<1>7. Broadcast(n, term[n], lg, nextIndex[n], commitIndex[n]) \in SUBSET Messages
    BY <1>2, <1>3, BroadcastType
<1>8. LeaderType' /\ nextIndex' = nextIndex /\ NetType'
    BY <1>1, <1>7, LeaderUnchanged, NetStep
<1>9. transferTarget' \in [Node -> Node \cup {None}]
    BY <1>1 DEF TypeInv, OfficeType
<1>10. \A q, r \in Node : role[q] = "leader" => nextIndex[q][r] >= 1
    BY DEF TypeInv, NextPositive
<1> QED
    BY <1>1, <1>6, <1>8, <1>9, <1>10, OfficeUnchanged

=============================================================================
