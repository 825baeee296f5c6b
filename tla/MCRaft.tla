------------------------------- MODULE MCRaft -------------------------------
(***************************************************************************)
(* Instances of Raft for TLC.                                              *)
(*                                                                         *)
(* msgs only grows, and most of it can no longer do anything: View lets    *)
(* TLC identify two states that differ only there.  It is a bisimulation   *)
(* because terms never decrease (Raft's VotesAreDurable):                  *)
(*   - a response of a newer term makes its receiver step down to it and   *)
(*     does nothing else, before or after: only <<receiver, term>> matters;*)
(*   - any other response is dropped for good once its receiver has left   *)
(*     the campaign or the leadership it answers, or has counted it;       *)
(*   - a request of an old term is only ever answered with the receiver's  *)
(*     term: only <<sender, receiver>> matters, and not even that when the *)
(*     sender is at MaxTerm, which no term exceeds.                        *)
(* Every property but TypeOK is insensitive to what View hides; TypeOK is  *)
(* checked for the messages of one state of each class.                    *)
(***************************************************************************)
EXTENDS RaftSafety, TLC

\* The other sets of nodes in a configuration are unions of CanTimeOut and its
\* complement (at most one node), so permuting it changes no behaviour.
Symmetry == Permutations(CanTimeOut)

IsResponse(m) == m.type = "VoteResponse" \/ m.type = "AppendResponse"

Useless(m) ==
    IF m.type = "AppendResponse" THEN m.reqTerm < term[m.to]
    ELSE \/ ~m.granted
         \/ m.preVote /\ m.campaignTerm <= term[m.to]
         \/ /\ ~m.preVote
            /\ \/ m.campaignTerm < term[m.to]
               \/ role[m.to] # "candidate"
               \/ m.from \in votes[m.to]

Stale(m) ==
    \/ m.term < term[m.to]
    \/ m.type = "VoteRequest" /\ m.preVote /\ m.term = term[m.to]

\* What is left of a message that View remembers.
Trace(m) ==
    IF IsResponse(m)
    THEN IF m.term > term[m.to] THEN {[to |-> m.to, term |-> m.term]}
         ELSE IF Useless(m) THEN {} ELSE {m}
    ELSE IF ~Stale(m) THEN {m}
         ELSE IF m.type # "TimeoutNow" /\ term[m.from] < MaxTerm
              THEN {[from |-> m.from, to |-> m.to]} ELSE {}

View == <<votingVars, officeVars, logVars, commitVars, leaderVars, elected,
          UNION {Trace(m) : m \in msgs}>>

=============================================================================
