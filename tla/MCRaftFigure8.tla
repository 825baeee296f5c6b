---------------------------- MODULE MCRaftFigure8 ----------------------------
(***************************************************************************)
(* Raft continued from the middle of the history that makes the commit     *)
(* rule hard: n1 led term 1 and replicated nothing of its log, n3 led      *)
(* term 2 and replicated nothing either, both restarted, everything they   *)
(* sent was lost, n1 has won term 3 with the vote of n2, and n2 has        *)
(* rejected its announcement.  The entries of term 1 can now reach a       *)
(* majority and still be overwritten by n3 in term 4.  An answer of n2 to  *)
(* the probe with which n3 began its campaign of term 2 is still on its    *)
(* way.                                                                    *)
(***************************************************************************)
EXTENDS MCRaft

CONSTANTS n1, n2, n3, b

Figure8Logs ==
    [n \in Node |-> CASE n = n1 -> <<[term |-> 1, cmd |-> Noop], [term |-> 1, cmd |-> b],
                                     [term |-> 3, cmd |-> Noop]>>
                      [] n = n2 -> <<>>
                      [] n = n3 -> <<[term |-> 2, cmd |-> Noop]>>]

Figure8Init ==
    /\ term = [n \in Node |-> IF n = n3 THEN 2 ELSE 3]
    /\ votedFor = [n \in Node |-> IF n = n3 THEN n3 ELSE n1]
    /\ saved = [n \in Node |-> [term |-> term[n], votedFor |-> votedFor[n]]]
    /\ role = [n \in Node |-> IF n = n1 THEN "leader" ELSE "follower"]
    /\ leaderID = [n \in Node |-> IF n = n3 THEN None ELSE n1]
    /\ votes = [n \in Node |-> IF n = n1 THEN {n1, n2} ELSE {}]
    /\ preVotes = [n \in Node |-> {}]
    /\ transferTarget = [n \in Node |-> None]
    /\ entries = Figure8Logs
    /\ file = Figure8Logs
    /\ commitIndex = [n \in Node |-> 0]
    /\ applied = [n \in Node |-> <<>>]
    /\ nextIndex = [n \in Node |-> [p \in Node |->
                     CASE n # n1 -> 0 [] n = n1 /\ p = n2 -> 1 [] OTHER -> 3]]
    /\ matchIndex = [n \in Node |-> [p \in Node |-> 0]]
    /\ msgs = {AppendRequest(n1, n2, 3, entries[n1], 1, 0),
               VoteResponse(VoteRequest(n3, n2, 2, TRUE), 1, TRUE)}
    /\ ballots = {1} \X Node \X {n1} \cup {2} \X {n2, n3} \X {n3} \cup {3} \X {n1, n2} \X {n1}
    /\ elected = {<<1, n1>>, <<2, n3>>, <<3, n1>>}
    /\ chosen = <<>>

Figure8Spec == Figure8Init /\ [][Next]_vars

=============================================================================
