----------------------------- MODULE RaftMembers -----------------------------
(***************************************************************************)
(* The core of internal/raft with the two features Raft leaves out: single-*)
(* server membership changes (membership.go), where every node counts      *)
(* majorities over the configuration in its own log, and linearizable read *)
(* barriers (readindex.go), confirmed by acknowledgements of appends sent  *)
(* after the read was registered.                                          *)
(*                                                                         *)
(* What does not depend on the configuration is Raft's, used through R.    *)
(* Pre-vote, leadership transfer, heartbeats and ordinary proposals are    *)
(* left to Raft: a change is a proposal, and a barrier broadcasts what a   *)
(* heartbeat does.  A handler ends with its files written, so between      *)
(* handlers the files hold what memory does, and Restart reads it back.    *)
(* A message is received at most once (no RPC is sent again), late, out of *)
(* order or never.  Addresses are left out: adding a member again is the   *)
(* code's change of its address.                                           *)
(***************************************************************************)
EXTENDS Naturals, Integers, FiniteSets, SequencesExt

CONSTANTS
    Node, None, Noop,
    Founders,     \* Founders[n]: Config.Members, given to n at start-up
    Changes,      \* the membership changes an operator may ask for
    CanTimeOut,   \* nodes whose election timer may run out
    Proposers,    \* nodes that are asked for changes
    Readers,      \* nodes that get reads
    Crashable,    \* nodes that may crash and restart
    Width,        \* indexes are unsigned integers of this many bits
    MaxTerm,      \* bound: no campaign beyond this term
    MaxLog,       \* bound: no proposal on a log this long
    MaxReads      \* bound: reads a leader registers

ConfChange == [op : {"add", "remove"}, id : Node]

ASSUME ChangeAssumption == Founders \in [Node -> SUBSET Node] /\ Changes \subseteq ConfChange
ASSUME WidthAssumption == 2 ^ Width > MaxLog + MaxTerm + 2

VARIABLES
    term, votedFor, role, leaderID, votes, entries, commitIndex, applied,
    nextIndex, matchIndex,  \* 0: the peer has no entry in the leader's map
    members,          \* members[n]: the configuration n acts on
    lastConfigIndex,  \* lastConfigIndex[n]: where n's log last changed it
    pendingReads,     \* pendingReads[n]: barriers n has not resolved yet
    readCounter,      \* readCounter[n]: barriers n has registered
    msgs, ballots, elected, chosen,
    confirmed,        \* history: the barriers that were confirmed
    early             \* history: a leader changed the configuration before it
                      \* had committed an entry of its own term

R == INSTANCE Raft WITH
        Commands <- ConfChange, CanBeat <- {}, PreVote <- {}, Big <- {}, TransferTargets <- {},
        preVotes <- [n \in Node |-> {}], transferTarget <- [n \in Node |-> None],
        msgs <- {}, file <- entries,
        saved <- [n \in Node |-> [term |-> term[n], votedFor |-> votedFor[n]]]

configVars == <<members, lastConfigIndex>>
readVars   == <<pendingReads, readCounter, confirmed>>
votingVars == <<term, votedFor, ballots>>
officeVars == <<role, leaderID, votes>>
commitVars == <<commitIndex, applied, chosen>>
leaderVars == <<nextIndex, matchIndex>>
vars == <<votingVars, officeVars, entries, commitVars, leaderVars, msgs, elected,
          configVars, readVars, early>>

-----------------------------------------------------------------------------
(* Configurations. *)

Majority(cfg) == Cardinality(cfg) \div 2 + 1

Peers(n) == members[n] \ {n}

IsConfig(e) == e.cmd \in ConfChange

\* applyConfChange on the table of members.
Changed(cfg, cc) == IF cc.op = "add" THEN cfg \cup {cc.id} ELSE cfg \ {cc.id}

\* A configuration after the config entries of a piece of log.
After(cfg, lg) ==
    FoldLeft(LAMBDA c, e : IF IsConfig(e) THEN Changed(c, e.cmd) ELSE c, cfg, lg)

\* Where a piece of log that starts after index base last changes it, and
\* otherwise the index last.
LastConfig(last, base, lg) ==
    Max({last} \cup {base + i : i \in {j \in 1..Len(lg) : IsConfig(lg[j])}})

\* Faulty variant: a change that was cut off stays in force.
AdoptConfigNoRecalc(n, m, k, lg) ==
    LET new  == SubSeq(m.entries, k, Len(m.entries))
        base == m.prevLogIndex + k - 1
    IN  /\ members' = [members EXCEPT ![n] = After(@, new)]
        /\ lastConfigIndex' = [lastConfigIndex EXCEPT ![n] = LastConfig(@, base, new)]

\* The end of truncateAndAppend: lg is the log of n after it took the entries
\* of m from the k-th on.  If a change was cut off, the configuration is
\* rebuilt from the whole log; otherwise the new entries change it.
AdoptConfig(n, m, k, lg) ==
    LET new  == SubSeq(m.entries, k, Len(m.entries))
        base == m.prevLogIndex + k - 1
        cut  == IF new = <<>> THEN <<>> ELSE SubSeq(entries[n], base + 1, Len(entries[n]))
    IN  \/ /\ \E i \in 1..Len(cut) : IsConfig(cut[i])
           /\ members' = [members EXCEPT ![n] = After(Founders[n], lg)]
           /\ lastConfigIndex' = [lastConfigIndex EXCEPT ![n] = LastConfig(0, 0, lg)]
        \/ /\ \A i \in 1..Len(cut) : ~IsConfig(cut[i])
           /\ members' = [members EXCEPT ![n] = After(@, new)]
           /\ lastConfigIndex' = [lastConfigIndex EXCEPT ![n] = LastConfig(@, base, new)]

-----------------------------------------------------------------------------
(* Appends and their answers.  The code stamps every append with a counter *)
(* and a read with the next stamp.  All that is ever asked is whether an   *)
(* append left after a read was registered, so the stamp here is the number*)
(* of reads the leader had registered.                                     *)

AppendRequest(n, p, t, lg, next, commit, seq) ==
    LET from == IF next = 0 THEN 1 ELSE next
    IN  [type |-> "AppendRequest", from |-> n, to |-> p, term |-> t,
         prevLogIndex |-> from - 1, prevLogTerm |-> R!TermAt(lg, from - 1),
         entries |-> SubSeq(lg, from, Len(lg)), leaderCommit |-> commit, seq |-> seq]

AppendResponse(m, t, success, index, conflict) ==
    [type |-> "AppendResponse", from |-> m.to, to |-> m.from, term |-> t,
     reqTerm |-> m.term, success |-> success,
     matched |-> IF success THEN m.prevLogIndex + Len(m.entries) ELSE 0,
     conflictIndex |-> index, conflictTerm |-> conflict, seq |-> m.seq]

Broadcast(n, t, lg, next, seq) ==
    {AppendRequest(n, p, t, lg, next[p], commitIndex[n], seq) : p \in Peers(n)}

\* m is received and out is sent.
Reply(m, out) == msgs' = (msgs \ {m}) \cup out

AbortReads(n) == pendingReads' = [pendingReads EXCEPT ![n] = {}]

\* Faulty variant: reads survive the loss of the office.
StepDownKeepReads(n, t) ==
    R!StepDown(n, t) /\ UNCHANGED <<configVars, pendingReads, readCounter, confirmed, early>>

StepDown(n, t) ==
    /\ R!StepDown(n, t)
    /\ AbortReads(n)
    /\ UNCHANGED <<configVars, readCounter, confirmed, early>>

\* maybeAdvanceCommit: the leader counts itself only while it is a member.
CommitFrontier(n, t, lg, match) ==
    Max({commitIndex[n]} \cup
        {i \in (commitIndex[n] + 1)..Len(lg) :
            /\ lg[i].term = t
            /\ Cardinality({p \in members[n] : p = n \/ match[p] >= i}) >= Majority(members[n])})

\* deliverCommitted finds the removal of the leader itself committed.
Retires(n, lg, commit) ==
    /\ n \notin members[n]
    /\ \E i \in (Len(applied[n]) + 1)..commit : IsConfig(lg[i])

-----------------------------------------------------------------------------
Init ==
    /\ R!Init
    /\ members = Founders
    /\ lastConfigIndex = [n \in Node |-> 0]
    /\ pendingReads = [n \in Node |-> {}]
    /\ readCounter = [n \in Node |-> 0]
    /\ confirmed = {}
    /\ early = FALSE

(* Elections. *)

BecomeLeader(n, t, net) ==
    LET lg   == Append(entries[n], [term |-> t, cmd |-> Noop])
        next == [p \in Node |-> IF p \in Peers(n) THEN Len(entries[n]) + 1 ELSE 0]
        none == [p \in Node |-> 0]
    IN  /\ role' = [role EXCEPT ![n] = "leader"]
        /\ leaderID' = [leaderID EXCEPT ![n] = n]
        /\ nextIndex' = [nextIndex EXCEPT ![n] = next]
        /\ matchIndex' = [matchIndex EXCEPT ![n] = none]
        /\ entries' = [entries EXCEPT ![n] = lg]
        /\ msgs' = net \cup Broadcast(n, t, lg, next, readCounter[n])
        /\ R!Deliver(n, lg, CommitFrontier(n, t, lg, none))
        /\ elected' = elected \cup {<<t, n>>}

\* n holds the votes vs in term t and net is in transit.  Whoever granted a
\* vote counts, member or not.
MaybeWinElection(n, t, vs, net) ==
    /\ votes' = [votes EXCEPT ![n] = vs]
    /\ \/ /\ Cardinality(vs) < Majority(members[n])
          /\ role' = [role EXCEPT ![n] = "candidate"]
          /\ leaderID' = [leaderID EXCEPT ![n] = None]
          /\ msgs' = net
          /\ UNCHANGED <<entries, commitVars, leaderVars, elected>>
       \/ /\ Cardinality(vs) >= Majority(members[n])
          /\ BecomeLeader(n, t, net)
    /\ UNCHANGED <<configVars, readVars, early>>

\* Faulty variant: a removed node campaigns.
ElectionTimeoutRemoved(n) ==
    /\ role[n] # "leader" /\ term[n] < MaxTerm
    /\ R!SaveState(n, term[n] + 1, n)
    /\ MaybeWinElection(n, term[n] + 1, {n},
           msgs \cup {R!VoteRequest(n, p, term[n] + 1, FALSE) : p \in Peers(n)})

\* A node removed from the cluster lets its timer run out and does nothing.
ElectionTimeout(n) ==
    /\ role[n] # "leader" /\ term[n] < MaxTerm
    /\ n \in members[n]
    /\ R!SaveState(n, term[n] + 1, n)
    /\ MaybeWinElection(n, term[n] + 1, {n},
           msgs \cup {R!VoteRequest(n, p, term[n] + 1, FALSE) : p \in Peers(n)})

\* A voter asks neither whether the candidate is a member nor whether it is
\* one itself.
HandleRequestVote(n, m) ==
    LET newer   == m.term > term[n]
        now     == IF newer THEN m.term ELSE term[n]
        ballot  == IF newer THEN None ELSE votedFor[n]
        granted == /\ m.term >= term[n]
                   /\ ballot \in {None, m.from}
                   /\ R!LogUpToDate(entries[n], m)
    IN  /\ m.type = "VoteRequest" /\ m.to = n
        /\ R!SaveState(n, now, IF granted THEN m.from ELSE ballot)
        /\ \/ newer /\ R!LeaveOffice(n) /\ AbortReads(n)
           \/ ~newer /\ UNCHANGED <<officeVars, pendingReads>>
        /\ Reply(m, {R!VoteResponse(m, now, granted)})
        /\ UNCHANGED <<entries, commitVars, leaderVars, elected, configVars,
                       readCounter, confirmed, early>>

HandleVoteResponse(n, m) ==
    /\ m.type = "VoteResponse" /\ m.to = n
    /\ \/ /\ m.term > term[n]
          /\ StepDown(n, m.term)
          /\ Reply(m, {})
       \/ /\ m.term <= term[n]
          /\ role[n] = "candidate" /\ m.campaignTerm = term[n] /\ m.granted
          /\ MaybeWinElection(n, term[n], votes[n] \cup {m.from}, msgs \ {m})
          /\ UNCHANGED votingVars

-----------------------------------------------------------------------------
(* Changes of the configuration. *)

\* propose: append, broadcast, and count, all in the configuration so far.
Propose(n, v) ==
    LET lg     == Append(entries[n], [term |-> term[n], cmd |-> v])
        commit == CommitFrontier(n, term[n], lg, matchIndex[n])
    IN  /\ role[n] = "leader" /\ Len(entries[n]) < MaxLog
        /\ entries' = [entries EXCEPT ![n] = lg]
        /\ msgs' = msgs \cup Broadcast(n, term[n], lg, nextIndex[n], readCounter[n])
        /\ R!Deliver(n, lg, commit)
        /\ \/ /\ Retires(n, lg, commit)
              /\ role' = [role EXCEPT ![n] = "follower"]
              /\ leaderID' = [leaderID EXCEPT ![n] = None]
              /\ AbortReads(n)
           \/ /\ ~Retires(n, lg, commit)
              /\ UNCHANGED <<role, leaderID, pendingReads>>
    /\ UNCHANGED <<votingVars, votes, elected, readCounter, confirmed>>

\* Faulty variant: changes do not wait for one another.
ProposeConfChangeAny(n, cc) ==
    /\ cc.op = "remove" => cc.id \in members[n]
    /\ Propose(n, cc)
    /\ LET last == Len(entries[n]) + 1
       IN  /\ members' = [members EXCEPT ![n] = Changed(@, cc)]
           /\ lastConfigIndex' = [lastConfigIndex EXCEPT ![n] = last]
           /\ nextIndex' = [nextIndex EXCEPT ![n][cc.id] =
                  IF cc.op = "remove" THEN 0 ELSE IF @ = 0 THEN last + 1 ELSE @]
           /\ matchIndex' = [matchIndex EXCEPT ![n][cc.id] = IF cc.op = "remove" THEN 0 ELSE @]
    /\ early' = (early \/ R!TermAt(entries[n], commitIndex[n]) # term[n])

\* One change at a time: refused while the last one in the log is
\* uncommitted.  The new configuration is in force once propose returns; a
\* new peer is probed from the end of the log, a removed one is forgotten.
ProposeConfChange(n, cc) ==
    /\ lastConfigIndex[n] <= commitIndex[n]
    /\ cc.op = "remove" => cc.id \in members[n]
    /\ Propose(n, cc)
    /\ LET last == Len(entries[n]) + 1
       IN  /\ members' = [members EXCEPT ![n] = Changed(@, cc)]
           /\ lastConfigIndex' = [lastConfigIndex EXCEPT ![n] = last]
           /\ nextIndex' = [nextIndex EXCEPT ![n][cc.id] =
                  IF cc.op = "remove" THEN 0 ELSE IF @ = 0 THEN last + 1 ELSE @]
           /\ matchIndex' = [matchIndex EXCEPT ![n][cc.id] = IF cc.op = "remove" THEN 0 ELSE @]
    /\ early' = (early \/ R!TermAt(entries[n], commitIndex[n]) # term[n])

-----------------------------------------------------------------------------
(* Read barriers. *)

\* confirmReads: of the barriers rs, those acknowledged by enough nodes are
\* resolved and the others stay.
ConfirmReads(n, rs) ==
    LET done == {r \in rs : Cardinality(r.acks) >= Majority(members[n])}
    IN  /\ pendingReads' = [pendingReads EXCEPT ![n] = rs \ done]
        /\ confirmed' = confirmed \cup done

\* Only a leader that has committed an entry of its own term takes reads.
\* History keeps with a barrier who had a newer term when it was registered.
RequestRead(n) ==
    /\ role[n] = "leader" /\ readCounter[n] < MaxReads
    /\ R!TermAt(entries[n], commitIndex[n]) = term[n]
    /\ LET id == readCounter[n] + 1
           r  == [id |-> id, index |-> commitIndex[n], acks |-> {n},
                 gone |-> {p \in Node : term[p] > term[n]}]
       IN  /\ readCounter' = [readCounter EXCEPT ![n] = id]
           /\ ConfirmReads(n, pendingReads[n] \cup {r})
           /\ msgs' = IF pendingReads'[n] = {} THEN msgs
                      ELSE msgs \cup Broadcast(n, term[n], entries[n], nextIndex[n], id)
    /\ UNCHANGED <<votingVars, officeVars, entries, commitVars, leaderVars, elected,
                   configVars, early>>

\* Faulty variant: any acknowledgement counts, however old the append.
FreshForAny(n, m) == pendingReads[n]

\* The barriers registered before the append left that m answers.
FreshFor(n, m) == {r \in pendingReads[n] : m.seq >= r.id}

\* noteFreshAck: m counts for those, and if there are any, all pending
\* barriers are looked at again.
Acked(n, m) ==
    {IF r \in FreshFor(n, m) THEN [r EXCEPT !.acks = @ \cup {m.from}] ELSE r : r \in pendingReads[n]}

-----------------------------------------------------------------------------
(* Replication. *)

HandleAppendEntries(n, m) ==
    /\ m.type = "AppendRequest" /\ m.to = n
    /\ \/ /\ m.term < term[n]
          /\ Reply(m, {AppendResponse(m, term[n], FALSE, 0, 0)})
          /\ UNCHANGED <<votingVars, officeVars, entries, commitVars, configVars, pendingReads>>
       \/ /\ m.term >= term[n]
          /\ ~R!PrevMatches(entries[n], m)
          /\ R!RecognizeLeader(n, m)
          /\ LET i == m.prevLogIndex
             IN  Reply(m, {AppendResponse(m, m.term, FALSE,
                           IF i > Len(entries[n]) THEN Len(entries[n]) + 1
                                                  ELSE R!FirstIndexOfTerm(entries[n], i),
                           R!TermAt(entries[n], i))})
          /\ UNCHANGED <<entries, commitVars, configVars>>
       \/ /\ m.term >= term[n]
          /\ R!PrevMatches(entries[n], m)
          /\ ~R!Contradicts(n, m)
          /\ R!RecognizeLeader(n, m)
          /\ LET lg == R!LogAfter(entries[n], m, Len(m.entries))
             IN  /\ entries' = [entries EXCEPT ![n] = lg]
                 /\ AdoptConfig(n, m, R!NewFrom(entries[n], m), lg)
                 /\ R!Deliver(n, lg, R!CommitAfter(m, commitIndex[n]))
          /\ Reply(m, {AppendResponse(m, m.term, TRUE, 0, 0)})
    /\ \/ m.term > term[n] /\ AbortReads(n)
       \/ m.term <= term[n] /\ UNCHANGED pendingReads
    /\ UNCHANGED <<leaderVars, elected, readCounter, confirmed, early>>

\* A peer that was removed has no frontier; backing it up wraps around.
NextAfterReject(lg, m, next) ==
    IF next = 0 THEN (next - 1) % 2 ^ Width ELSE R!NextAfterReject(lg, m, next)

HandleAppendSuccess(n, m) ==
    LET p      == m.from
        last   == Len(entries[n])
        ahead  == m.matched > matchIndex[n][p]
        match  == [matchIndex[n] EXCEPT ![p] = IF ahead THEN m.matched ELSE @]
        next   == IF ahead THEN m.matched + 1 ELSE nextIndex[n][p]
        commit == IF ahead THEN CommitFrontier(n, term[n], entries[n], match)
                           ELSE commitIndex[n]
        retire == Retires(n, entries[n], commit)
    IN  /\ m.success
        /\ matchIndex' = [matchIndex EXCEPT ![n] = match]
        /\ nextIndex' = [nextIndex EXCEPT ![n][p] = next]
        /\ R!Deliver(n, entries[n], commit)
        /\ role' = [role EXCEPT ![n] = IF retire THEN "follower" ELSE @]
        /\ leaderID' = [leaderID EXCEPT ![n] = IF retire THEN None ELSE @]
        /\ LET rs   == Acked(n, m)
               done == {r \in rs : /\ FreshFor(n, m) # {}
                               /\ Cardinality(r.acks) >= Majority(members[n])}
           IN  /\ pendingReads' = [pendingReads EXCEPT ![n] = IF retire THEN {} ELSE rs \ done]
               /\ confirmed' = confirmed \cup done
        /\ Reply(m, IF next > last THEN {}
                  ELSE {AppendRequest(n, p, term[n], entries[n], next, commit, readCounter[n])})

HandleAppendReject(n, m) ==
    LET p    == m.from
        next == NextAfterReject(entries[n], m, nextIndex[n][p])
    IN  /\ ~m.success
        /\ nextIndex' = [nextIndex EXCEPT ![n][p] = next]
        /\ Reply(m, {AppendRequest(n, p, term[n], entries[n], next, commitIndex[n], readCounter[n])})
        /\ UNCHANGED <<role, leaderID, commitVars, matchIndex, pendingReads, confirmed>>

\* The leader's side.  A peer that was removed is still answered.
HandleAppendResponse(n, m) ==
    /\ m.type = "AppendResponse" /\ m.to = n
    /\ \/ /\ m.term > term[n]
          /\ StepDown(n, m.term)
          /\ Reply(m, {})
       \/ /\ m.term <= term[n]
          /\ role[n] = "leader" /\ m.reqTerm = term[n]
          /\ HandleAppendSuccess(n, m) \/ HandleAppendReject(n, m)
          /\ UNCHANGED <<votingVars, votes, entries, elected, configVars, readCounter, early>>

-----------------------------------------------------------------------------
\* newCore: memory is lost, the configuration is rebuilt from the log.
Restart(n) ==
    /\ R!Reboot(n, [term |-> term[n], votedFor |-> votedFor[n]], entries[n])
    /\ members' = [members EXCEPT ![n] = After(Founders[n], entries[n])]
    /\ lastConfigIndex' = [lastConfigIndex EXCEPT ![n] = LastConfig(0, 0, entries[n])]
    /\ AbortReads(n)
    /\ readCounter' = [readCounter EXCEPT ![n] = 0]
    /\ UNCHANGED <<msgs, confirmed, early>>

Receive(n, m) ==
    \/ HandleRequestVote(n, m)
    \/ HandleVoteResponse(n, m)
    \/ HandleAppendEntries(n, m)
    \/ HandleAppendResponse(n, m)

Next ==
    \/ \E n \in CanTimeOut : ElectionTimeout(n)
    \/ \E n \in Proposers, cc \in Changes : ProposeConfChange(n, cc)
    \/ \E n \in Readers : RequestRead(n)
    \/ \E m \in msgs : Receive(m.to, m)
    \/ \E n \in Crashable : Restart(n)

Spec == Init /\ [][Next]_vars

-----------------------------------------------------------------------------
(* Properties. *)

\* A node acts on the configuration its own log says, whatever was appended,
\* cut off or read back after a crash (recalcConfig and applyConfChange keep
\* the table and lastConfigIndex in step with the log).
MembersMatchLog ==
    \A n \in Node :
        /\ members[n] = After(Founders[n], entries[n])
        /\ lastConfigIndex[n] = LastConfig(0, 0, entries[n])

\* Past what was delivered anywhere no log holds two changes: whoever leads
\* next starts from a configuration one change away from an agreed one
\* (proposeConfChange refuses while a change is in flight).
OneChangeInFlight ==
    \A n \in Node :
        LET agreed == Max({i \in 0..Min({Len(chosen), Len(entries[n])}) :
                              SubSeq(chosen, 1, i) = SubSeq(entries[n], 1, i)})
        IN  Cardinality({i \in (agreed + 1)..Len(entries[n]) : IsConfig(entries[n][i])}) <= 1

\* The leader of the latest term won so far holds everything any state
\* machine was ever given, across changes of the configuration.
LeaderCompleteness ==
    \A n \in Node :
        role[n] = "leader" /\ (\A e \in elected : e[1] <= term[n]) => IsPrefix(chosen, entries[n])

\* At most one node wins the election of a term, across changes.
ElectionSafety == R!ElectionSafety

\* As long as every leader has committed an entry of its own term before it
\* changes the configuration, changes are safe: one winner per term, and a
\* leader that holds everything delivered.
SafeUnlessEarly == early \/ (ElectionSafety /\ LeaderCompleteness)

\* An acknowledgement that a barrier counts proves that its sender still
\* followed the leader when the barrier was registered: no node counts that
\* had moved on to a newer term before, however late its answer comes
\* (noteFreshAck and minSeq tell fresh answers from those in flight).
CountedAcksAreFresh ==
    \A r \in confirmed \cup UNION {pendingReads[n] : n \in Node} : r.acks \cap r.gone = {}

\* Only a leader has barriers pending, so no caller of ReadBarrier is left
\* waiting by a node that lost its office (stepDown and deliverCommitted
\* abort them).
OnlyLeadersHoldReads ==
    \A n \in Node : pendingReads[n] # {} => role[n] = "leader"

=============================================================================
