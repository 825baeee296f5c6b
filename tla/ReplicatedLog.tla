---------------------------- MODULE ReplicatedLog ----------------------------
(***************************************************************************)
(* What internal/raft promises its state machines, with no terms, leaders  *)
(* or messages in sight: there is one sequence of entries, it only grows,  *)
(* and each node applies a prefix of it in order.  A node that restarts    *)
(* starts over from the beginning of the same sequence.                    *)
(***************************************************************************)
EXTENDS Naturals, Sequences, SequencesExt

CONSTANTS Node, Entry

VARIABLES
    chosen,    \* the sequence agreed on so far
    applied    \* applied[n]: what n has given its state machine

Init ==
    /\ chosen = <<>>
    /\ applied = [n \in Node |-> <<>>]

\* n applies more of the sequence, which grows if n is the first to know.
Deliver(n) ==
    /\ chosen' \in Seq(Entry)
    /\ applied'[n] \in Seq(Entry)
    /\ IsPrefix(chosen, chosen')
    /\ IsPrefix(applied[n], applied'[n])
    /\ IsPrefix(applied'[n], chosen')
    /\ applied' = [applied EXCEPT ![n] = applied'[n]]

\* n lost its memory.
Forget(n) ==
    /\ applied' = [applied EXCEPT ![n] = <<>>]
    /\ UNCHANGED chosen

Next == \E n \in Node : Deliver(n) \/ Forget(n)

Spec == Init /\ [][Next]_<<chosen, applied>>

\* Any two state machines have seen the same commands up to the shorter of
\* the two histories.
Agreement ==
    \A n, p \in Node : IsPrefix(applied[n], applied[p]) \/ IsPrefix(applied[p], applied[n])

=============================================================================
