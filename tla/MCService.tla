------------------------------ MODULE MCService ------------------------------
(* A small instance of Service: the session s1, which retries, a client    *)
(* without a session on the same key, and three nodes of which two lead.   *)
EXTENDS Service

CONSTANTS n1, n2, n3, s1, s2

Trio     == {n1, n2, n3}
Sessions == {s1, s2}

Workload(ofW, ofR, node, k) ==
    [script |-> [c \in Sessions |-> IF c = s1 THEN ofW ELSE ofR],
     home |-> [c \in Sessions |-> IF c = s1 THEN n1 ELSE node], crashes |-> k]

\* Two writers; a writer alone; a reader of the new leader; a reader of the
\* old one.
Storms ==
    { Workload(<<"put">>, <<"put">>, n2, 1), Workload(<<"put", "put">>, <<>>, n1, 1),
      Workload(<<"put">>, <<"get">>, n2, 1), Workload(<<"put", "delete">>, <<"get">>, n1, 0) }

OnceOrTwice == [c \in Sessions |-> IF c = s1 THEN 2 ELSE 1]
=============================================================================
