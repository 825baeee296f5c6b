---------------------------- MODULE MCRaftMembers ----------------------------
(***************************************************************************)
(* Instances of RaftMembers for TLC, continued from the moment n1 leads    *)
(* term 1 and its first entry is delivered everywhere.                     *)
(***************************************************************************)
EXTENDS RaftMembers

CONSTANTS n1, n2, n3

Removal(n) == [op |-> "remove", id |-> n]
Addition(n) == [op |-> "add", id |-> n]

\* Two founders and a node that waits to join them: it must list itself among
\* its peers to start at all.
Pair == [n \in Node |-> {n1, n2, n}]
PairChanges == {Addition(n3), Removal(n1), Removal(n2), Removal(n3)}

\* Everyone is a founder, and two leaders would remove each other.
Everyone == [n \in Node |-> Node]
RivalChanges == {Removal(n1), Removal(n2)}

First == <<[term |-> 1, cmd |-> Noop]>>

\* A candidate stops counting at a majority.
Voters == CHOOSE S \in SUBSET Founders[n1] : n1 \in S /\ Cardinality(S) = Majority(Founders[n1])

LedInit ==
    LET led == Founders[n1]
    IN  /\ term = [n \in Node |-> IF n \in led THEN 1 ELSE 0]
        /\ votedFor = [n \in Node |-> IF n \in led THEN n1 ELSE None]
        /\ role = [n \in Node |-> IF n = n1 THEN "leader" ELSE "follower"]
        /\ leaderID = [n \in Node |-> IF n \in led THEN n1 ELSE None]
        /\ votes = [n \in Node |-> IF n = n1 THEN Voters ELSE {}]
        /\ entries = [n \in Node |-> IF n \in led THEN First ELSE <<>>]
        /\ commitIndex = [n \in Node |-> IF n \in led THEN 1 ELSE 0]
        /\ applied = entries
        /\ nextIndex = [n \in Node |-> [p \in Node |-> IF n = n1 /\ p \in led \ {n} THEN 2 ELSE 0]]
        /\ matchIndex = [n \in Node |-> [p \in Node |-> IF n = n1 /\ p \in led \ {n} THEN 1 ELSE 0]]
        /\ msgs = {}
        /\ ballots = {1} \X led \X {n1}
        /\ elected = {<<1, n1>>}
        /\ chosen = First
        /\ members = Founders
        /\ lastConfigIndex = [n \in Node |-> 0]
        /\ pendingReads = [n \in Node |-> {}]
        /\ readCounter = [n \in Node |-> 0]
        /\ confirmed = {}
        /\ early = FALSE

LedSpec == LedInit /\ [][Next]_vars

\* The stamp of an append or of its answer is only compared with barriers
\* still pending; those to come are stamped higher than anything sent.
Unstamped(m) ==
    LET leader == IF m.type = "AppendRequest" THEN m.from ELSE m.to
    IN  IF pendingReads[leader] = {} THEN [m EXCEPT !.seq = 0] ELSE m

\* As in MCRaft, a message is dropped once it can do nothing more, an answer
\* of a newer term is only that term, and a request that will only be told
\* its receiver's term is only its two ends.
IsAnswer(m) == m.type = "AppendResponse" \/ m.type = "VoteResponse"

Deposing == {<<m.to, m.term>> : m \in {r \in msgs : IsAnswer(r) /\ r.term > term[r.to]}}

Refused ==
    {<<m.from, m.to>> : m \in {r \in msgs : /\ term[r.from] < MaxTerm /\ ~IsAnswer(r)
                                            /\ r.term < term[r.to]}}

Appends ==
    {m \in msgs : \/ m.type = "AppendRequest" /\ m.term >= term[m.to]
                  \/ /\ m.type = "AppendResponse" /\ m.reqTerm = term[m.to]
                     /\ role[m.to] = "leader" /\ m.term = term[m.to]}

Ballots ==
    {m \in msgs : \/ m.type = "VoteRequest" /\ m.term >= term[m.to]
                  \/ /\ m.type = "VoteResponse" /\ m.granted /\ m.campaignTerm = term[m.to]
                     /\ role[m.to] = "candidate" /\ m.from \notin votes[m.to]}

\* Of a barrier only who acknowledged it, and who must not, matters; the
\* frontiers of a node that does not lead are rebuilt before they are used.
View ==
    <<votingVars, officeVars, entries, commitVars, elected, configVars, early,
      [n \in Node |-> IF role[n] = "leader" THEN <<nextIndex[n], matchIndex[n]>> ELSE <<>>],
      [n \in Node |-> {<<r.id, r.acks, r.gone>> : r \in pendingReads[n]}],
      readCounter,
      \E r \in confirmed : r.acks \cap r.gone # {},
      Deposing, Refused, {Unstamped(m) : m \in Appends}, Ballots>>

=============================================================================
