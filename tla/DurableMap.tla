----------------------------- MODULE DurableMap -----------------------------
(***************************************************************************)
(* What internal/storage promises its callers, with no files in sight: a   *)
(* map whose acknowledged changes survive any crash.  A change that was    *)
(* refused, or was under way when the process died, is in doubt: it may    *)
(* turn up, whole, when the store comes back, and at no other time.        *)
(***************************************************************************)
CONSTANTS Key, Value, Absent

VARIABLES
    serving,   \* the store is open
    data,      \* what the acknowledged changes add up to
    doubt      \* the contents that changes in doubt would lead to

Map == [Key -> Value \cup {Absent}]

Init ==
    /\ serving = FALSE
    /\ data = [k \in Key |-> Absent]
    /\ doubt = {}

\* A change is acknowledged.  A store with a change in doubt takes no other.
Acknowledge ==
    /\ serving /\ doubt = {}
    /\ \E k \in Key, v \in Value \cup {Absent} : data' = [data EXCEPT ![k] = v]
    /\ UNCHANGED <<serving, doubt>>

InDoubt ==
    \/ UNCHANGED doubt
    \/ \E k \in Key, v \in Value \cup {Absent} :
           doubt' = doubt \cup {[data EXCEPT ![k] = v]}

\* A change is refused.
Refuse ==
    /\ serving
    /\ InDoubt
    /\ UNCHANGED <<serving, data>>

Crash ==
    /\ serving' = FALSE
    /\ InDoubt
    /\ UNCHANGED data

Recover ==
    /\ ~serving
    /\ serving' = TRUE
    /\ data' \in {data} \cup doubt
    /\ doubt' = {}

Next == Acknowledge \/ Refuse \/ Crash \/ Recover

Spec == Init /\ [][Next]_<<serving, data, doubt>>

=============================================================================
