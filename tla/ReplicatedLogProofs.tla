------------------------ MODULE ReplicatedLogProofs ------------------------
(***************************************************************************)
(* Agreement of the state machines follows from the abstract specification.*)
(***************************************************************************)
EXTENDS ReplicatedLog, TLAPS

\* What a node has applied is a prefix of the one sequence.
IInv ==
    /\ chosen \in Seq(Entry)
    /\ applied \in [Node -> Seq(Entry)]
    /\ \A n \in Node : IsPrefix(applied[n], chosen)

\* IsPrefix, entry by entry.
LEMMA PrefixPointwise ==
    ASSUME NEW S, NEW s \in Seq(S), NEW t \in Seq(S)
    PROVE  IsPrefix(s, t) <=> /\ Len(s) <= Len(t)
                              /\ \A i \in 1..Len(s) : s[i] = t[i]
BY DEF IsPrefix

LEMMA PrefixTransitive ==
    ASSUME NEW S, NEW s \in Seq(S), NEW t \in Seq(S), NEW u \in Seq(S),
           IsPrefix(s, t), IsPrefix(t, u)
    PROVE  IsPrefix(s, u)
<1>1. /\ Len(s) <= Len(t) /\ \A i \in 1..Len(s) : s[i] = t[i]
      /\ Len(t) <= Len(u) /\ \A i \in 1..Len(t) : t[i] = u[i]
  BY PrefixPointwise
<1>2. Len(s) \in Nat /\ Len(t) \in Nat /\ Len(u) \in Nat
  OBVIOUS
<1>3. Len(s) <= Len(u) /\ \A i \in 1..Len(s) : s[i] = u[i]
  BY <1>1, <1>2
<1> QED BY <1>3, PrefixPointwise

\* Two prefixes of one sequence are comparable.
LEMMA PrefixesComparable ==
    ASSUME NEW S, NEW s \in Seq(S), NEW t \in Seq(S), NEW u \in Seq(S),
           IsPrefix(s, u), IsPrefix(t, u)
    PROVE  IsPrefix(s, t) \/ IsPrefix(t, s)
<1>1. /\ \A i \in 1..Len(s) : s[i] = u[i]
      /\ \A i \in 1..Len(t) : t[i] = u[i]
  BY PrefixPointwise
<1>2. Len(s) \in Nat /\ Len(t) \in Nat
  OBVIOUS
<1>3. CASE Len(s) <= Len(t)
  <2>1. \A i \in 1..Len(s) : s[i] = t[i]
    BY <1>1, <1>2, <1>3
  <2> QED BY <2>1, <1>3, PrefixPointwise
<1>4. CASE Len(t) <= Len(s)
  <2>1. \A i \in 1..Len(t) : t[i] = s[i]
    BY <1>1, <1>2, <1>4
  <2> QED BY <2>1, <1>4, PrefixPointwise
<1> QED BY <1>2, <1>3, <1>4

LEMMA EmptyIsPrefix ==
    ASSUME NEW S, NEW s \in Seq(S)
    PROVE  << >> \in Seq(S) /\ IsPrefix(<< >>, s)
<1> DEFINE e == << >>
<1>1. e \in Seq(S) /\ Len(e) = 0 /\ Len(s) \in Nat
  OBVIOUS
<1> HIDE DEF e
<1>2. Len(e) <= Len(s) /\ \A i \in 1..Len(e) : e[i] = s[i]
  BY <1>1
<1>3. IsPrefix(e, s)
  BY <1>1, <1>2, PrefixPointwise
<1> QED BY <1>1, <1>3 DEF e

LEMMA InitIInv == Init => IInv
<1> SUFFICES ASSUME Init PROVE IInv
  OBVIOUS
<1>1. chosen \in Seq(Entry) /\ applied \in [Node -> Seq(Entry)]
  BY DEF Init
<1>2. \A n \in Node : IsPrefix(applied[n], chosen)
  BY EmptyIsPrefix, <1>1 DEF Init
<1> QED BY <1>1, <1>2 DEF IInv

LEMMA NextIInv == IInv /\ [Next]_<<chosen, applied>> => IInv'
<1> SUFFICES ASSUME IInv, [Next]_<<chosen, applied>> PROVE IInv'
  OBVIOUS
<1> USE DEF IInv
<1>1. ASSUME NEW n \in Node, Deliver(n) PROVE IInv'
  <2>1. chosen' \in Seq(Entry) /\ applied' \in [Node -> Seq(Entry)]
    BY <1>1 DEF Deliver
  <2>2. ASSUME NEW p \in Node PROVE IsPrefix(applied'[p], chosen')
    <3>1. CASE p = n
      BY <1>1, <3>1 DEF Deliver
    <3>2. CASE p # n
      <4>1. applied'[p] = applied[p]
        BY <1>1, <3>2 DEF Deliver
      <4>2. IsPrefix(applied[p], chosen) /\ IsPrefix(chosen, chosen')
        BY <1>1 DEF Deliver
      <4>3. applied[p] \in Seq(Entry) /\ chosen \in Seq(Entry)
        OBVIOUS
      <4> QED BY <4>1, <4>2, <4>3, <2>1, PrefixTransitive
    <3> QED BY <3>1, <3>2
  <2> QED BY <2>1, <2>2
<1>2. ASSUME NEW n \in Node, Forget(n) PROVE IInv'
  <2>1. chosen' = chosen /\ applied' \in [Node -> Seq(Entry)]
    BY <1>2 DEF Forget
  <2>2. ASSUME NEW p \in Node PROVE IsPrefix(applied'[p], chosen)
    <3>1. CASE p = n
      <4>1. applied'[p] = << >>
        BY <1>2, <3>1 DEF Forget
      <4> QED BY <4>1, EmptyIsPrefix
    <3>2. CASE p # n
      BY <1>2, <3>2 DEF Forget
    <3> QED BY <3>1, <3>2
  <2> QED BY <2>1, <2>2
<1>3. CASE UNCHANGED <<chosen, applied>>
  BY <1>3
<1> QED BY <1>1, <1>2, <1>3 DEF Next

\* State machines that follow the abstract specification never disagree: any
\* two have applied the same entries up to the shorter history.
THEOREM AgreementTheorem == Spec => []Agreement
<1>1. IInv => Agreement
  <2> SUFFICES ASSUME IInv, NEW n \in Node, NEW p \in Node
               PROVE  IsPrefix(applied[n], applied[p]) \/ IsPrefix(applied[p], applied[n])
    BY DEF Agreement
  <2>1. /\ applied[n] \in Seq(Entry) /\ applied[p] \in Seq(Entry) /\ chosen \in Seq(Entry)
        /\ IsPrefix(applied[n], chosen) /\ IsPrefix(applied[p], chosen)
    BY DEF IInv
  <2> QED BY <2>1, PrefixesComparable
<1> QED BY InitIInv, NextIInv, <1>1, PTL DEF Spec

=============================================================================
