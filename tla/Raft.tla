-------------------------------- MODULE Raft --------------------------------
(***************************************************************************)
(* The consensus core of internal/raft: elections, pre-vote, log           *)
(* replication, commitment, delivery to the state machine, leadership      *)
(* transfer, and crash/restart from the two durable files.                 *)
(*                                                                         *)
(* One action is one event of the node's single-threaded loop (node.go,    *)
(* run): the core handles the event, persists what it must, and only then  *)
(* do its messages leave.  A handler is therefore atomic for every other   *)
(* node; what is not atomic is a crash inside it, modelled by the two      *)
(* CrashIn... actions, which keep the part of the handler already on disk. *)
(*                                                                         *)
(* Here the membership is fixed and the log is never compacted (its length *)
(* stays below CompactionThreshold).  Read barriers never touch this state.*)
(***************************************************************************)
EXTENDS Naturals, FiniteSets, Sequences, FiniteSetsExt

CONSTANTS
    Node,             \* the members of the cluster
    None,             \* node id 0: no vote, no known leader, no target
    Commands,         \* client commands
    Noop,             \* the term-start entry of a new leader
    Big,              \* commands whose payload alone fills an append batch
    PreVote,          \* nodes without Config.DisablePreVote
    CanTimeOut,       \* nodes whose election timer may run out
    CanBeat,          \* nodes whose timers of office may run out
    TransferTargets,  \* peers an operator may hand the lead to
    Crashable,        \* nodes that may crash and restart
    MaxTerm,          \* bound: no campaign beyond this term
    MaxLog            \* bound: no proposal on a log this long

ASSUME NodeAssumption == IsFiniteSet(Node) /\ Node # {} /\ None \notin Node
ASSUME CommandAssumption == Noop \notin Commands /\ Big \subseteq Commands
ASSUME InputAssumption ==
    /\ PreVote \subseteq Node
    /\ CanTimeOut \subseteq Node /\ CanBeat \subseteq Node
    /\ TransferTargets \subseteq Node
    /\ Crashable \subseteq Node
ASSUME BoundAssumption == MaxTerm \in Nat /\ MaxLog \in Nat

VARIABLES
    \* fields of type core
    term, votedFor, role, leaderID, votes, preVotes, transferTarget,
    entries, commitIndex, nextIndex, matchIndex,
    applied,   \* applied[n]: what n has delivered to its state machine
    \* the durable files
    saved,     \* saved[n]: the term and vote in n's state file
    file,      \* file[n]: the entries a replay of n's log file yields
    \* the network, and history variables
    msgs,      \* every RPC request and response ever sent
    ballots,   \* <<t, v, c>>: v's state file has held a vote for c in term t
    elected,   \* <<t, n>>: n won the election of term t
    chosen     \* the longest sequence any node has ever delivered

votingVars == <<term, votedFor, saved, ballots>>
officeVars == <<role, leaderID, votes, preVotes, transferTarget>>
logVars    == <<entries, file>>
commitVars == <<commitIndex, applied, chosen>>
leaderVars == <<nextIndex, matchIndex>>
vars == <<votingVars, officeVars, logVars, commitVars, leaderVars, msgs, elected>>

-----------------------------------------------------------------------------
(* Logs and quorums. *)

Entry == [term : Nat \ {0}, cmd : Commands \cup {Noop}]

Peers(n) == Node \ {n}

\* More than half of the configuration.
IsMajority(S) == Cardinality(S) >= Cardinality(Node) \div 2 + 1

\* The term of the entry at i, and 0 where there is none.
TermAt(lg, i) == IF i \in 1..Len(lg) THEN lg[i].term ELSE 0

LastLogTerm(lg) == TermAt(lg, Len(lg))

\* Faulty variant: any log will do.
LogUpToDateAlways(lg, m) == TRUE

\* The election restriction: a candidate's log is at least as complete.
LogUpToDate(lg, m) ==
    \/ m.lastLogTerm > LastLogTerm(lg)
    \/ m.lastLogTerm = LastLogTerm(lg) /\ m.lastLogIndex >= Len(lg)

\* Where the run of entries of the term at i begins.
FirstIndexOfTerm(lg, i) ==
    Min({j \in 1..i : \A k \in j..i : TermAt(lg, k) = TermAt(lg, i)})

\* The last entry of term t, and 0 when there is none.
LastIndexOfTerm(lg, t) == Max({0} \cup {i \in 1..Len(lg) : lg[i].term = t})

\* One append carries the log from next on, cut after the first entry that
\* fills the batch.
Batch(lg, next) ==
    SubSeq(lg, next, Min({Len(lg)} \cup {i \in next..Len(lg) : lg[i].cmd \in Big}))

-----------------------------------------------------------------------------
(* Messages.  A response carries the fields of its own request that the    *)
(* sender's closure hands back to the core (campaignTerm, reqTerm,         *)
(* matched).  A message stays in msgs, so it may be received late, out of  *)
(* order, again, or never.                                                 *)

\* Faulty variant: the last index counts from zero.
VoteRequestFromZero(n, p, t, pre) ==
    [type |-> "VoteRequest", from |-> n, to |-> p, term |-> t, preVote |-> pre,
     lastLogIndex |-> Len(entries[n]) - 1, lastLogTerm |-> LastLogTerm(entries[n])]

VoteRequest(n, p, t, pre) ==
    [type |-> "VoteRequest", from |-> n, to |-> p, term |-> t, preVote |-> pre,
     lastLogIndex |-> Len(entries[n]), lastLogTerm |-> LastLogTerm(entries[n])]

VoteResponse(m, t, granted) ==
    [type |-> "VoteResponse", from |-> m.to, to |-> m.from, term |-> t,
     campaignTerm |-> m.term, preVote |-> m.preVote, granted |-> granted]

AppendRequest(n, p, t, lg, next, commit) ==
    [type |-> "AppendRequest", from |-> n, to |-> p, term |-> t,
     prevLogIndex |-> next - 1, prevLogTerm |-> TermAt(lg, next - 1),
     entries |-> Batch(lg, next), leaderCommit |-> commit]

AppendSuccess(m) ==
    [type |-> "AppendResponse", from |-> m.to, to |-> m.from, term |-> m.term,
     reqTerm |-> m.term, success |-> TRUE,
     matched |-> m.prevLogIndex + Len(m.entries),
     conflictIndex |-> 0, conflictTerm |-> 0]

AppendReject(m, t, index, conflict) ==
    [type |-> "AppendResponse", from |-> m.to, to |-> m.from, term |-> t,
     reqTerm |-> m.term, success |-> FALSE, matched |-> 0,
     conflictIndex |-> index, conflictTerm |-> conflict]

TimeoutNow(n, p) ==
    [type |-> "TimeoutNow", from |-> n, to |-> p, term |-> term[n]]

Send(ms) == msgs' = msgs \cup ms

Broadcast(n, t, lg, next, commit) ==
    {AppendRequest(n, p, t, lg, next[p], commit) : p \in Peers(n)}

-----------------------------------------------------------------------------
Init ==
    /\ term = [n \in Node |-> 0]
    /\ votedFor = [n \in Node |-> None]
    /\ saved = [n \in Node |-> [term |-> 0, votedFor |-> None]]
    /\ role = [n \in Node |-> "follower"]
    /\ leaderID = [n \in Node |-> None]
    /\ votes = [n \in Node |-> {}]
    /\ preVotes = [n \in Node |-> {}]
    /\ transferTarget = [n \in Node |-> None]
    /\ entries = [n \in Node |-> <<>>]
    /\ file = [n \in Node |-> <<>>]
    /\ commitIndex = [n \in Node |-> 0]
    /\ applied = [n \in Node |-> <<>>]
    /\ nextIndex = [n \in Node |-> [p \in Node |-> 0]]
    /\ matchIndex = [n \in Node |-> [p \in Node |-> 0]]
    /\ msgs = {}
    /\ ballots = {}
    /\ elected = {}
    /\ chosen = <<>>

\* Faulty variant: the vote is kept in memory only.
SaveStateTermOnly(n, t, v) ==
    /\ term' = [term EXCEPT ![n] = t]
    /\ votedFor' = [votedFor EXCEPT ![n] = v]
    /\ saved' = [saved EXCEPT ![n] = [term |-> t, votedFor |-> None]]
    /\ ballots' = ballots \cup {<<t, n, c>> : c \in {v} \ {None}}

\* The state file is rewritten (and synced) before the handler returns; where
\* the code skips the write, it would write what the file already holds.
SaveState(n, t, v) ==
    /\ term' = [term EXCEPT ![n] = t]
    /\ votedFor' = [votedFor EXCEPT ![n] = v]
    /\ saved' = [saved EXCEPT ![n] = [term |-> t, votedFor |-> v]]
    /\ ballots' = ballots \cup {<<t, n, c>> : c \in {v} \ {None}}

\* Faulty variant: the log file is not written.
StoreLogInMemory(n, lg) ==
    /\ entries' = [entries EXCEPT ![n] = lg]
    /\ UNCHANGED file

\* The log file takes the appended entries before the handler returns.
StoreLog(n, lg) ==
    /\ entries' = [entries EXCEPT ![n] = lg]
    /\ file' = [file EXCEPT ![n] = lg]

\* Everything committed and not yet delivered goes to the state machine.
\* Deliveries are never repeated or taken back: a lower commit delivers
\* nothing.
Deliver(n, lg, commit) ==
    LET done == applied[n] \o SubSeq(lg, Len(applied[n]) + 1, commit)
    IN  /\ commitIndex' = [commitIndex EXCEPT ![n] = commit]
        /\ applied' = [applied EXCEPT ![n] = done]
        /\ chosen' = IF Len(done) > Len(chosen) THEN done ELSE chosen

\* Faulty variant: an entry of any term commits by counting copies.
CommitFrontierAnyTerm(n, t, lg, match) ==
    Max({commitIndex[n]} \cup
        {i \in (commitIndex[n] + 1)..Len(lg) :
            IsMajority({n} \cup {p \in Peers(n) : match[p] >= i})})

\* Faulty variant: a peer counts for the entry after the last one it has.
CommitFrontierEarly(n, t, lg, match) ==
    Max({commitIndex[n]} \cup
        {i \in (commitIndex[n] + 1)..Len(lg) :
            /\ lg[i].term = t
            /\ IsMajority({n} \cup {p \in Peers(n) : match[p] + 1 >= i})})

\* The highest entry of the current term t that a majority stores, the
\* leader itself counted in.
CommitFrontier(n, t, lg, match) ==
    Max({commitIndex[n]} \cup
        {i \in (commitIndex[n] + 1)..Len(lg) :
            /\ lg[i].term = t
            /\ IsMajority({n} \cup {p \in Peers(n) : match[p] >= i})})

\* A node learns of a higher term: follower again, no vote, no leader.
LeaveOffice(n) ==
    /\ role' = [role EXCEPT ![n] = "follower"]
    /\ leaderID' = [leaderID EXCEPT ![n] = None]
    /\ votes' = [votes EXCEPT ![n] = {}]
    /\ preVotes' = [preVotes EXCEPT ![n] = {}]
    /\ transferTarget' = [transferTarget EXCEPT ![n] = None]

StepDown(n, t) ==
    /\ SaveState(n, t, None)
    /\ LeaveOffice(n)
    /\ UNCHANGED <<logVars, commitVars, leaderVars, msgs, elected>>

-----------------------------------------------------------------------------
(* Elections. *)

\* A node that holds a majority of the votes of term t leads it.  It assumes
\* every peer has its whole log, appends the no-op of its term, announces
\* itself, and (alone in its cluster) commits at once.
BecomeLeader(n, t, out) ==
    LET lg   == Append(entries[n], [term |-> t, cmd |-> Noop])
        next == [p \in Node |-> Len(entries[n]) + 1]
        none == [p \in Node |-> 0]
    IN  /\ role' = [role EXCEPT ![n] = "leader"]
        /\ leaderID' = [leaderID EXCEPT ![n] = n]
        /\ preVotes' = [preVotes EXCEPT ![n] = {}]
        /\ nextIndex' = [nextIndex EXCEPT ![n] = next]
        /\ matchIndex' = [matchIndex EXCEPT ![n] = none]
        /\ StoreLog(n, lg)
        /\ Send(out \cup Broadcast(n, t, lg, next, commitIndex[n]))
        /\ Deliver(n, lg, CommitFrontier(n, t, lg, none))
        /\ elected' = elected \cup {<<t, n>>}

\* maybeWinElection: n holds the votes vs in term t, and its handler has put
\* out into the outbox.  Only a leader has a transfer target, so clearing it
\* on both branches is what the code does.
MaybeWinElection(n, t, vs, probes, out) ==
    /\ votes' = [votes EXCEPT ![n] = vs]
    /\ transferTarget' = [transferTarget EXCEPT ![n] = None]
    /\ \/ /\ ~IsMajority(vs)
          /\ role' = [role EXCEPT ![n] = "candidate"]
          /\ leaderID' = [leaderID EXCEPT ![n] = None]
          /\ preVotes' = [preVotes EXCEPT ![n] = probes]
          /\ Send(out)
          /\ UNCHANGED <<logVars, commitVars, leaderVars, elected>>
       \/ /\ IsMajority(vs)
          /\ BecomeLeader(n, t, out)

\* A new election from term t: new term, own vote, on disk before anyone is
\* asked.
StartCampaign(n, t, probes, out) ==
    /\ t < MaxTerm
    /\ SaveState(n, t + 1, n)
    /\ MaybeWinElection(n, t + 1, {n}, probes,
           out \cup {VoteRequest(n, p, t + 1, FALSE) : p \in Peers(n)})

\* maybeWinPreVote: a majority of the probes vs turns into a campaign.
MaybeWinPreVote(n, vs, out) ==
    \/ /\ ~IsMajority(vs)
       /\ preVotes' = [preVotes EXCEPT ![n] = vs]
       /\ Send(out)
       /\ UNCHANGED <<votingVars, role, leaderID, votes, transferTarget,
                      logVars, commitVars, leaderVars, elected>>
    \/ /\ IsMajority(vs)
       /\ StartCampaign(n, term[n], {}, out)

StartPreCampaign(n) ==
    MaybeWinPreVote(n, {n},
        {VoteRequest(n, p, term[n] + 1, TRUE) : p \in Peers(n)})

\* tick on a follower or candidate whose randomized timeout has run out.
ElectionTimeout(n) ==
    /\ role[n] # "leader"
    /\ term[n] < MaxTerm
    /\ \/ n \in PreVote /\ StartPreCampaign(n)
       \/ n \notin PreVote /\ StartCampaign(n, term[n], preVotes[n], {})

\* A probe changes nothing at the voter.  How long the voter's leader has
\* been silent is time, so with a leader known both outcomes are possible.
HandlePreVote(n, m) ==
    /\ m.type = "VoteRequest" /\ m.to = n /\ m.preVote
    /\ LET electable == m.term > term[n] /\ LogUpToDate(entries[n], m)
       IN  \E granted \in {electable} \cup (IF leaderID[n] = None THEN {} ELSE {FALSE}) :
               Send({VoteResponse(m, term[n], granted)})
    /\ UNCHANGED <<votingVars, officeVars, logVars, commitVars, leaderVars, elected>>

\* The voter adopts a newer term, then answers; the vote is on disk before
\* the response exists.
HandleRequestVote(n, m) ==
    LET newer   == m.term > term[n]
        now     == IF newer THEN m.term ELSE term[n]
        ballot  == IF newer THEN None ELSE votedFor[n]
        granted == /\ m.term >= term[n]
                   /\ ballot \in {None, m.from}
                   /\ LogUpToDate(entries[n], m)
    IN  /\ m.type = "VoteRequest" /\ m.to = n /\ ~m.preVote
        /\ SaveState(n, now, IF granted THEN m.from ELSE ballot)
        /\ \/ newer /\ LeaveOffice(n)
           \/ ~newer /\ UNCHANGED officeVars
        /\ Send({VoteResponse(m, now, granted)})
        /\ UNCHANGED <<logVars, commitVars, leaderVars, elected>>

\* An answer to a campaign.  Only a candidate still in that campaign counts
\* it; other answers are dropped, which changes nothing.
HandleVoteResponse(n, m) ==
    /\ m.type = "VoteResponse" /\ m.to = n /\ ~m.preVote
    /\ \/ /\ m.term > term[n]
          /\ StepDown(n, m.term)
       \/ /\ m.term <= term[n]
          /\ role[n] = "candidate" /\ m.campaignTerm = term[n] /\ m.granted
          /\ MaybeWinElection(n, term[n], votes[n] \cup {m.from}, preVotes[n], {})
          /\ UNCHANGED votingVars

\* Faulty variant: an answer to an older probe counts too.
HandlePreVoteResponseAny(n, m) ==
    /\ m.type = "VoteResponse" /\ m.to = n /\ m.preVote
    /\ \/ /\ m.term > term[n]
          /\ StepDown(n, m.term)
       \/ /\ m.term <= term[n]
          /\ role[n] = "follower" /\ preVotes[n] # {} /\ m.granted
          /\ MaybeWinPreVote(n, preVotes[n] \cup {m.from}, {})

\* An answer to a probe, counted only by a follower still probing that term.
HandlePreVoteResponse(n, m) ==
    /\ m.type = "VoteResponse" /\ m.to = n /\ m.preVote
    /\ \/ /\ m.term > term[n]
          /\ StepDown(n, m.term)
       \/ /\ m.term <= term[n]
          /\ role[n] = "follower" /\ m.campaignTerm = term[n] + 1
          /\ preVotes[n] # {} /\ m.granted
          /\ MaybeWinPreVote(n, preVotes[n] \cup {m.from}, {})

-----------------------------------------------------------------------------
(* Leadership transfer. *)

\* The leader promises its office away; it fires at once if the target's
\* log is complete, and otherwise feeds it first.
TransferLeadership(n, p) ==
    /\ role[n] = "leader" /\ p # n
    /\ transferTarget' = [transferTarget EXCEPT ![n] = p]
    /\ \/ /\ matchIndex[n][p] = Len(entries[n])
          /\ Send({TimeoutNow(n, p)})
       \/ /\ matchIndex[n][p] # Len(entries[n])
          /\ Send({AppendRequest(n, p, term[n], entries[n], nextIndex[n][p], commitIndex[n])})
    /\ UNCHANGED <<votingVars, role, leaderID, votes, preVotes, logVars,
                   commitVars, leaderVars, elected>>

\* tick on a leader.  Counting is time: a transfer may have waited an
\* election timeout and is dropped, a heartbeat may be due and goes out.
LeaderTick(n) ==
    /\ role[n] = "leader"
    /\ \/ transferTarget' = [transferTarget EXCEPT ![n] = None]
       \/ UNCHANGED transferTarget
    /\ \/ Send(Broadcast(n, term[n], entries[n], nextIndex[n], commitIndex[n]))
       \/ UNCHANGED msgs
    /\ UNCHANGED <<votingVars, role, leaderID, votes, preVotes, logVars,
                   commitVars, leaderVars, elected>>

\* The sanctioned successor campaigns without a pre-vote round.
HandleTimeoutNow(n, m) ==
    /\ m.type = "TimeoutNow" /\ m.to = n
    /\ m.term >= term[n]
    /\ StartCampaign(n, m.term, IF m.term > term[n] THEN {} ELSE preVotes[n], {})

-----------------------------------------------------------------------------
(* Replication. *)

\* The leader's own copy is on disk before any append leaves.  The appends
\* are built before the commit index moves.
Propose(n, v) ==
    /\ role[n] = "leader" /\ transferTarget[n] = None
    /\ Len(entries[n]) < MaxLog
    /\ LET lg == Append(entries[n], [term |-> term[n], cmd |-> v])
       IN  /\ StoreLog(n, lg)
           /\ Send(Broadcast(n, term[n], lg, nextIndex[n], commitIndex[n]))
           /\ Deliver(n, lg, CommitFrontier(n, term[n], lg, matchIndex[n]))
    /\ UNCHANGED <<votingVars, officeVars, leaderVars, elected>>

\* The receiver shares the entry just before the ones in m.
PrevMatches(lg, m) ==
    \/ m.prevLogIndex = 0
    \/ m.prevLogIndex <= Len(lg) /\ TermAt(lg, m.prevLogIndex) = m.prevLogTerm

\* The position in m of the first entry the receiver does not hold yet, one
\* past the end when it holds them all.
NewFrom(lg, m) ==
    Min({Len(m.entries) + 1} \cup
        {i \in 1..Len(m.entries) :
            TermAt(lg, m.prevLogIndex + i) # m.entries[i].term})

\* Faulty variant: everything after prevLogIndex is replaced, new or not.
LogAfterReplace(lg, m, k) == SubSeq(lg, 1, m.prevLogIndex) \o SubSeq(m.entries, 1, k)

\* Faulty variant: what conflicts is not cut off.
LogAfterKeep(lg, m, k) == lg \o SubSeq(m.entries, NewFrom(lg, m), k)

\* truncateAndAppend: the log after the entries of m up to the k-th are
\* written.  What the receiver already holds is never rewritten.
LogAfter(lg, m, k) ==
    LET new == NewFrom(lg, m)
    IN  IF k < new THEN lg
        ELSE SubSeq(lg, 1, m.prevLogIndex + new - 1) \o SubSeq(m.entries, new, k)

\* truncateAndAppend refuses to go on (and the node halts): m contradicts an
\* entry the receiver knows to be committed.
Contradicts(n, m) ==
    /\ NewFrom(entries[n], m) <= Len(m.entries)
    /\ m.prevLogIndex + NewFrom(entries[n], m) <= commitIndex[n]

\* The follower's commit index: what the leader says, but no further than the
\* last entry this request shows they share.
CommitAfter(m, commit) ==
    IF m.leaderCommit > commit
    THEN Min({m.leaderCommit, m.prevLogIndex + Len(m.entries)})
    ELSE commit

\* Faulty variant: the sender is followed into no newer term.
RecognizeLeaderOldTerm(n, m) ==
    /\ SaveState(n, term[n], votedFor[n])
    /\ role' = [role EXCEPT ![n] = "follower"]
    /\ leaderID' = [leaderID EXCEPT ![n] = m.from]
    /\ votes' = [votes EXCEPT ![n] = {}]
    /\ UNCHANGED <<preVotes, transferTarget>>

\* An append of the receiver's term or a newer one comes from the leader of
\* that term, whatever becomes of its entries.
RecognizeLeader(n, m) ==
    LET newer == m.term > term[n]
    IN  /\ SaveState(n, m.term, IF newer THEN None ELSE votedFor[n])
        /\ role' = [role EXCEPT ![n] = "follower"]
        /\ leaderID' = [leaderID EXCEPT ![n] = m.from]
        /\ votes' = [votes EXCEPT ![n] = {}]
        /\ preVotes' = [preVotes EXCEPT ![n] = IF newer THEN {} ELSE @]
        /\ transferTarget' = [transferTarget EXCEPT ![n] = IF newer THEN None ELSE @]

\* The three ways handleAppendEntries ends: a deposed leader is told so, a
\* log that does not match answers with a hint where to retry, and a log
\* that does takes the entries and the commit index they vouch for.
HandleAppendEntries(n, m) ==
    /\ m.type = "AppendRequest" /\ m.to = n
    /\ \/ /\ m.term < term[n]
          /\ Send({AppendReject(m, term[n], 0, 0)})
          /\ UNCHANGED <<votingVars, officeVars, logVars, commitVars>>
       \/ /\ m.term >= term[n]
          /\ ~PrevMatches(entries[n], m)
          /\ RecognizeLeader(n, m)
          /\ LET i == m.prevLogIndex
             IN  Send({AppendReject(m, m.term,
                           IF i > Len(entries[n]) THEN Len(entries[n]) + 1
                                                  ELSE FirstIndexOfTerm(entries[n], i),
                           TermAt(entries[n], i))})
          /\ UNCHANGED <<logVars, commitVars>>
       \/ /\ m.term >= term[n]
          /\ PrevMatches(entries[n], m)
          /\ ~Contradicts(n, m)
          /\ RecognizeLeader(n, m)
          /\ LET lg == LogAfter(entries[n], m, Len(m.entries))
             IN  /\ StoreLog(n, lg)
                 /\ Deliver(n, lg, CommitAfter(m, commitIndex[n]))
          /\ Send({AppendSuccess(m)})
    /\ UNCHANGED <<leaderVars, elected>>

\* Where a rejection sends the leader's next probe: past its own entries of
\* the conflicting term if it has any, else to the start of the conflict; a
\* rejection that points no lower than the frontier backs it up by one.
NextAfterReject(lg, m, next) ==
    LET last == LastIndexOfTerm(lg, m.conflictTerm)
        hint == IF m.conflictTerm # 0 /\ last # 0 THEN last + 1 ELSE Max({1, m.conflictIndex})
    IN  IF hint < next THEN hint ELSE Max({1, next - 1})

\* The leader's side.  Answers to an earlier leadership are dropped.
HandleAppendResponse(n, m) ==
    /\ m.type = "AppendResponse" /\ m.to = n
    /\ \/ /\ m.term > term[n]
          /\ StepDown(n, m.term)
       \/ /\ m.term <= term[n]
          /\ role[n] = "leader" /\ m.reqTerm = term[n]
          /\ m.success
          /\ LET p      == m.from
                 last   == Len(entries[n])
                 ahead  == m.matched > matchIndex[n][p]
                 match  == [matchIndex[n] EXCEPT ![p] = IF ahead THEN m.matched ELSE @]
                 next   == IF ahead THEN m.matched + 1 ELSE nextIndex[n][p]
                 commit == IF ahead THEN CommitFrontier(n, term[n], entries[n], match)
                                    ELSE commitIndex[n]
             IN  /\ matchIndex' = [matchIndex EXCEPT ![n] = match]
                 /\ nextIndex' = [nextIndex EXCEPT ![n][p] = next]
                 /\ Deliver(n, entries[n], commit)
                 /\ Send((IF p = transferTarget[n] /\ match[p] = last
                          THEN {TimeoutNow(n, p)} ELSE {}) \cup
                         (IF next <= last
                          THEN {AppendRequest(n, p, term[n], entries[n], next, commit)}
                          ELSE {}))
          /\ UNCHANGED <<votingVars, officeVars, logVars, elected>>
       \/ /\ m.term <= term[n]
          /\ role[n] = "leader" /\ m.reqTerm = term[n]
          /\ ~m.success
          /\ LET p    == m.from
                 next == NextAfterReject(entries[n], m, nextIndex[n][p])
             IN  /\ nextIndex' = [nextIndex EXCEPT ![n][p] = next]
                 /\ Send({AppendRequest(n, p, term[n], entries[n], next, commitIndex[n])})
          /\ UNCHANGED <<votingVars, officeVars, logVars, commitVars, matchIndex, elected>>

-----------------------------------------------------------------------------
(* Crash and restart.  Memory is lost, the two files are read back, and the *)
(* state machine starts empty.                                              *)

Reboot(n, hs, lg) ==
    /\ SaveState(n, hs.term, hs.votedFor)
    /\ LeaveOffice(n)
    /\ StoreLog(n, lg)
    /\ commitIndex' = [commitIndex EXCEPT ![n] = 0]
    /\ applied' = [applied EXCEPT ![n] = <<>>]
    /\ nextIndex' = [nextIndex EXCEPT ![n] = [p \in Node |-> 0]]
    /\ matchIndex' = [matchIndex EXCEPT ![n] = [p \in Node |-> 0]]
    /\ UNCHANGED <<msgs, elected, chosen>>

\* Faulty variant: the vote is not read back.
RestartVoteless(n) == Reboot(n, [term |-> saved[n].term, votedFor |-> None], file[n])

\* Between two events.
Restart(n) == Reboot(n, saved[n], file[n])

\* After stepDown reached the disk, before the rest of the handler did.
CrashInStepDown(n, m) ==
    /\ m.to = n /\ m.term > term[n]
    /\ m.type = "VoteRequest" => ~m.preVote
    /\ Reboot(n, [term |-> m.term, votedFor |-> None], file[n])

\* While the entries of m were being written: the first k of them are whole,
\* and replay drops the torn rest.
CrashInAppend(n, m, k) ==
    /\ m.type = "AppendRequest" /\ m.to = n /\ m.term >= term[n]
    /\ PrevMatches(entries[n], m) /\ ~Contradicts(n, m)
    /\ k >= NewFrom(entries[n], m) /\ k <= Len(m.entries)
    /\ Reboot(n, IF m.term > term[n] THEN [term |-> m.term, votedFor |-> None]
                                     ELSE saved[n],
              LogAfter(file[n], m, k))

-----------------------------------------------------------------------------
Receive(n, m) ==
    \/ HandlePreVote(n, m)
    \/ HandleRequestVote(n, m)
    \/ HandleVoteResponse(n, m)
    \/ HandlePreVoteResponse(n, m)
    \/ HandleTimeoutNow(n, m)
    \/ HandleAppendEntries(n, m)
    \/ HandleAppendResponse(n, m)

Crash(n) ==
    \/ Restart(n)
    \/ \E m \in msgs : CrashInStepDown(n, m)
    \/ \E m \in msgs : \E k \in 1..(MaxLog + MaxTerm) : CrashInAppend(n, m, k)

Next ==
    \/ \E n \in CanTimeOut : ElectionTimeout(n)
    \/ \E n \in CanBeat : LeaderTick(n)
    \/ \E n \in Node, v \in Commands : Propose(n, v)
    \/ \E n \in Node, p \in TransferTargets : TransferLeadership(n, p)
    \/ \E m \in msgs : Receive(m.to, m)
    \/ \E n \in Crashable : Crash(n)

Spec == Init /\ [][Next]_vars

\* The event loop keeps running: timers run out again and again, and an event
\* that stays ready is handled.  Nothing forces a proposal, a transfer or a
\* crash.
FairSpec ==
    /\ Spec
    /\ \A n \in Node :
        /\ WF_vars(n \in CanTimeOut /\ ElectionTimeout(n))
        /\ WF_vars(n \in CanBeat /\ LeaderTick(n))
        /\ WF_vars(\E m \in msgs : Receive(n, m))

-----------------------------------------------------------------------------
(* Properties. *)

Messages ==
    [type : {"VoteRequest"}, from : Node, to : Node, term : Nat, preVote : BOOLEAN,
     lastLogIndex : Nat, lastLogTerm : Nat]
    \cup [type : {"VoteResponse"}, from : Node, to : Node, term : Nat,
          campaignTerm : Nat, preVote : BOOLEAN, granted : BOOLEAN]
    \cup [type : {"AppendRequest"}, from : Node, to : Node, term : Nat,
          prevLogIndex : Nat, prevLogTerm : Nat, entries : Seq(Entry), leaderCommit : Nat]
    \cup [type : {"AppendResponse"}, from : Node, to : Node, term : Nat, reqTerm : Nat,
          success : BOOLEAN, matched : Nat, conflictIndex : Nat, conflictTerm : Nat]
    \cup [type : {"TimeoutNow"}, from : Node, to : Node, term : Nat]

\* The types of the fields of core, of its two files and of the RPCs.
TypeOK ==
    /\ term \in [Node -> Nat]
    /\ votedFor \in [Node -> Node \cup {None}]
    /\ saved \in [Node -> [term : Nat, votedFor : Node \cup {None}]]
    /\ role \in [Node -> {"follower", "candidate", "leader"}]
    /\ leaderID \in [Node -> Node \cup {None}]
    /\ votes \in [Node -> SUBSET Node]
    /\ preVotes \in [Node -> SUBSET Node]
    /\ transferTarget \in [Node -> Node \cup {None}]
    /\ entries \in [Node -> Seq(Entry)]
    /\ file \in [Node -> Seq(Entry)]
    /\ commitIndex \in [Node -> Nat]
    /\ applied \in [Node -> Seq(Entry)]
    /\ nextIndex \in [Node -> [Node -> Nat]]
    /\ matchIndex \in [Node -> [Node -> Nat]]
    /\ msgs \in SUBSET Messages
    /\ ballots \in SUBSET (Nat \X Node \X Node)
    /\ elected \in SUBSET (Nat \X Node)
    /\ chosen \in Seq(Entry)

\* At most one node ever wins the election of a term, however votes are
\* delayed, repeated or lost and whoever crashes while voting (the vote is
\* on disk before handleRequestVote answers).
ElectionSafety ==
    \A e, f \in elected : e[1] = f[1] => e[2] = f[2]

\* The leader a node follows or redirects clients to (leaderID) did win the
\* election of the node's term.
LeaderHintSound ==
    \A n \in Node : leaderID[n] # None => <<term[n], leaderID[n]>> \in elected

\* Two logs that have an entry of the same term at the same index are equal
\* up to it (the check on prevLogIndex, and truncation of what conflicts).
LogMatching ==
    \A n, p \in Node : \A i \in 1..Len(file[n]) :
        TermAt(file[p], i) = file[n][i].term => SubSeq(file[n], 1, i) = SubSeq(file[p], 1, i)

\* truncateAndAppend's refusal is dead code: no append that a node may
\* receive contradicts an entry below its commit index.
NeverContradicted ==
    \A n \in Node, m \in msgs :
        /\ m.type = "AppendRequest" /\ m.to = n /\ m.term >= term[n]
        /\ PrevMatches(entries[n], m)
        => ~Contradicts(n, m)

\* A node's state file never goes back to an earlier term, and within a term
\* a vote once written stays.
VotesAreDurable ==
    [][\A n \in Node :
          \/ saved'[n].term > saved[n].term
          \/ saved'[n].term = saved[n].term
             /\ saved[n].votedFor \in {None, saved'[n].votedFor}]_vars

\* With pre-vote on, a node raises its own term only after a majority answered
\* its probe for exactly that term, or when the leader of the term before told
\* it to: a node that was cut off cannot come back with an inflated term and
\* depose a healthy leader.
PreVoteGatesCampaigns ==
    [][\A n \in Node :
          n \in PreVote /\ votedFor'[n] = n /\ term'[n] > term[n] =>
              \/ IsMajority({n} \cup {m.from : m \in
                     {r \in msgs : /\ r.type = "VoteResponse" /\ r.preVote /\ r.granted
                                   /\ r.to = n /\ r.campaignTerm = term'[n]}})
              \/ \E m \in msgs : /\ m.type = "TimeoutNow" /\ m.to = n
                                 /\ m.term + 1 = term'[n]]_vars

\* A candidate that neither wins nor hears of a winner campaigns again when
\* its timer runs out (startCampaign is the split-vote retry path).
SplitVoteRetried ==
    \A n \in Node : \A t \in 1..(MaxTerm - 1) :
        (role[n] = "candidate" /\ term[n] = t) ~> (role[n] # "candidate" \/ term[n] > t)

=============================================================================
