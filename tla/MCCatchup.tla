------------------------------ MODULE MCCatchup ------------------------------
(***************************************************************************)
(* Instances of Catchup for TLC.                                           *)
(***************************************************************************)
EXTENDS Catchup

Put(t) == [term |-> t, change |-> [op |-> "none"]]
Add(t, id) == [term |-> t, change |-> [op |-> "add", id |-> id]]

\* The second leader lacks the last entry of the first.
TwoLogs ==
    <<<<Put(1), Add(1, "d"), Put(1), Put(1), Add(1, "e")>>,
      <<Put(1), Add(1, "d"), Put(1), Put(1), Put(2)>>>>

\* A new leader that knows of nothing, of a part with all of it compacted, of
\* everything with a part compacted, and with all of it compacted.
FourHeirs == {<<0, 0>>, <<2, 2>>, <<4, 2>>, <<4, 4>>}

Trio == {"a", "b", "c"}

=============================================================================
