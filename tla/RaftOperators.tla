--------------------------- MODULE RaftOperators ----------------------------
(***************************************************************************)
(* The types of what the operators of Raft return, for every log and       *)
(* message, and the inductive invariant behind type correctness.           *)
(*                                                                         *)
(* TypeOK alone is not inductive: what is delivered is a sequence of       *)
(* entries only if a commit index stays within the log, an append has a    *)
(* natural prevLogIndex only if a leader's nextIndex is never 0, an entry  *)
(* has a positive term only if nobody campaigns in term 0, and a crash     *)
(* inside an append starts from the log file as if it were memory.         *)
(***************************************************************************)
EXTENDS Raft, FiniteSetTheorems, SequenceTheorems, TLAPS

VotingType ==
    /\ term \in [Node -> Nat]
    /\ votedFor \in [Node -> Node \cup {None}]
    /\ saved \in [Node -> [term : Nat, votedFor : Node \cup {None}]]
    /\ ballots \in SUBSET (Nat \X Node \X Node)

OfficeType ==
    /\ role \in [Node -> {"follower", "candidate", "leader"}]
    /\ leaderID \in [Node -> Node \cup {None}]
    /\ votes \in [Node -> SUBSET Node]
    /\ preVotes \in [Node -> SUBSET Node]
    /\ transferTarget \in [Node -> Node \cup {None}]

\* Memory and file hold the same log.
LogType == entries \in [Node -> Seq(Entry)] /\ file = entries

CommitType ==
    /\ commitIndex \in [Node -> Nat]
    /\ applied \in [Node -> Seq(Entry)]
    /\ chosen \in Seq(Entry)

LeaderType ==
    /\ nextIndex \in [Node -> [Node -> Nat]]
    /\ matchIndex \in [Node -> [Node -> Nat]]

NetType == msgs \in SUBSET Messages /\ elected \in SUBSET (Nat \X Node)

\* A node knows of no commitment beyond its own log.
CommitBound == \A n \in Node : commitIndex[n] <= Len(entries[n])

\* A leader probes a peer from the first entry on, or later.
NextPositive ==
    \A n, p \in Node : role[n] = "leader" => nextIndex[n][p] >= 1

\* Term 0 has no candidates.
TermPositive == \A n \in Node : role[n] # "follower" => term[n] > 0

LogInv == LogType /\ CommitType /\ CommitBound

TypeInv ==
    /\ VotingType /\ OfficeType /\ LogInv /\ LeaderType /\ NetType
    /\ NextPositive /\ TermPositive

-----------------------------------------------------------------------------
(* Minima and maxima. *)

\* A non-empty set of naturals has a least element, and Min names it.  The
\* initial segments of the set are finite, so one of them has none below it.
LEMMA MinProperty ==
    ASSUME NEW S \in SUBSET Nat, S # {}
    PROVE  Min(S) \in S /\ \A x \in S : Min(S) <= x
<1> DEFINE Below(x) == S \cap (0..x)
           T == {Below(x) : x \in S}
           R == StrictSubsetOrdering(Nat)
<1>1. ASSUME NEW x \in S PROVE Below(x) \in FiniteSubsetsOf(Nat)
  <2>1. IsFiniteSet(0..x)
    BY FS_Interval
  <2>2. IsFiniteSet(Below(x))
    BY <2>1, FS_Subset
  <2> QED
    BY <2>2 DEF FiniteSubsetsOf
<1>2. T \subseteq FiniteSubsetsOf(Nat) /\ T # {}
    BY <1>1, Zenon
<1>3. IsWellFoundedOn(R, FiniteSubsetsOf(Nat))
    BY FS_StrictSubsetOrderingWellFounded
<1> HIDE DEF T, R
<1>4. PICK A \in T : \A B \in T : <<B, A>> \notin R
    BY <1>2, <1>3, WFMin
<1>5. PICK x \in S : A = Below(x)
    BY DEF T
<1>6. ASSUME NEW y \in S, y < x PROVE FALSE
  <2>1. Below(y) \in T
    BY DEF T
  <2>2. Below(y) \subseteq Below(x) /\ Below(y) # Below(x)
    <3>1. x \in Below(x) /\ x \notin Below(y)
      BY <1>6
    <3>2. Below(y) \subseteq Below(x)
      BY <1>6
    <3> QED
      BY <3>1, <3>2
  <2>3. <<Below(y), Below(x)>> \in R
    BY <2>2 DEF R, StrictSubsetOrdering
  <2> QED
    BY <1>4, <1>5, <2>1, <2>3
<1>7. \E z \in S : \A y \in S : z <= y
    BY <1>6
<1> QED
    BY <1>7, Zenon DEF Min

\* A non-empty bounded set of naturals has a greatest element: the least one
\* of the set seen from its bound.
LEMMA MaxProperty ==
    ASSUME NEW S \in SUBSET Nat, S # {}, NEW b \in Nat, \A x \in S : x <= b
    PROVE  Max(S) \in S /\ \A x \in S : x <= Max(S)
<1> DEFINE D == {b - x : x \in S}
<1>1. D \in SUBSET Nat /\ D # {}
  <2>1. ASSUME NEW x \in S PROVE b - x \in Nat
    OBVIOUS
  <2>2. PICK x \in S : TRUE
    OBVIOUS
  <2>3. b - x \in D
    OBVIOUS
  <2> QED
    BY <2>1, <2>3
<1>2. PICK d \in D : \A e \in D : d <= e
    BY <1>1, MinProperty, Zenon
<1>3. PICK x \in S : d = b - x
    BY <1>2
<1>4. \A y \in S : y <= x
    BY <1>2, <1>3
<1>5. \E z \in S : \A y \in S : z >= y
    BY <1>4, Zenon
<1> QED
    BY <1>5, Zenon DEF Max

-----------------------------------------------------------------------------
(* The operators on logs. *)

\* A part of a log is a log, whatever its start, if it ends within it.
LEMMA SubSeqType ==
    ASSUME NEW lg \in Seq(Entry), NEW i \in Nat \ {0}, NEW j \in Nat, j <= Len(lg)
    PROVE  /\ SubSeq(lg, i, j) \in Seq(Entry)
           /\ Len(SubSeq(lg, i, j)) = IF i <= j THEN j - i + 1 ELSE 0
<1>1. CASE i <= j
  <2>1. i \in 1..(Len(lg) + 1) /\ j \in (i - 1)..Len(lg)
    BY <1>1
  <2> QED
    BY <1>1, <2>1, SubSeqProperties
<1>2. CASE j < i
  <2>1. SubSeq(lg, i, j) = << >>
    BY <1>2, SubSeqEmpty
  <2> QED
    BY <1>2, <2>1
<1> QED
    BY <1>1, <1>2

LEMMA TermAtType ==
    ASSUME NEW lg \in Seq(Entry), NEW i \in Nat
    PROVE  /\ TermAt(lg, i) \in Nat
           /\ TermAt(lg, i) # 0 => i \in 1..Len(lg)
<1>1. CASE i \in 1..Len(lg)
  <2>1. lg[i] \in Entry
    BY <1>1
  <2> QED
    BY <1>1, <2>1 DEF TermAt, Entry
<1>2. CASE i \notin 1..Len(lg)
    BY <1>2 DEF TermAt
<1> QED
    BY <1>1, <1>2

LEMMA BatchType ==
    ASSUME NEW lg \in Seq(Entry), NEW next \in Nat \ {0}
    PROVE  Batch(lg, next) \in Seq(Entry)
<1> DEFINE S == {Len(lg)} \cup {i \in next..Len(lg) : lg[i].cmd \in Big}
<1>1. Len(lg) \in Nat /\ S \in SUBSET Nat /\ S # {} /\ Len(lg) \in S
    OBVIOUS
<1> HIDE DEF S
<1>2. Min(S) \in Nat /\ Min(S) <= Len(lg)
    BY <1>1, MinProperty, Zenon
<1>3. SubSeq(lg, next, Min(S)) \in Seq(Entry)
    BY <1>2, SubSeqType
<1> QED
    BY <1>3 DEF Batch, S

LEMMA FirstIndexOfTermType ==
    ASSUME NEW lg \in Seq(Entry), NEW i \in Nat \ {0}
    PROVE  FirstIndexOfTerm(lg, i) \in Nat
<1> DEFINE S == {j \in 1..i : \A k \in j..i : TermAt(lg, k) = TermAt(lg, i)}
<1>1. S \in SUBSET Nat
    OBVIOUS
<1>2. i \in S
    OBVIOUS
<1> HIDE DEF S
<1>3. Min(S) \in Nat
    BY <1>1, <1>2, MinProperty, Zenon
<1> QED
    BY <1>3 DEF FirstIndexOfTerm, S

LEMMA LastIndexOfTermType ==
    ASSUME NEW lg \in Seq(Entry), NEW t \in Nat
    PROVE  LastIndexOfTerm(lg, t) \in Nat
<1> DEFINE S == {0} \cup {i \in 1..Len(lg) : lg[i].term = t}
<1>1. Len(lg) \in Nat /\ S \in SUBSET Nat /\ 0 \in S /\ \A x \in S : x <= Len(lg)
    OBVIOUS
<1> HIDE DEF S
<1>2. Max(S) \in Nat
    BY <1>1, MaxProperty, Zenon
<1> QED
    BY <1>2 DEF LastIndexOfTerm, S

\* A commit index moves forward, and no further than the log reaches.
LEMMA CommitFrontierType ==
    ASSUME NEW n \in Node, NEW t, NEW match, NEW lg \in Seq(Entry),
           commitIndex[n] \in Nat, commitIndex[n] <= Len(lg)
    PROVE  /\ CommitFrontier(n, t, lg, match) \in Nat
           /\ CommitFrontier(n, t, lg, match) <= Len(lg)
<1> DEFINE S == {commitIndex[n]} \cup
                {i \in (commitIndex[n] + 1)..Len(lg) :
                    /\ lg[i].term = t
                    /\ IsMajority({n} \cup {p \in Peers(n) : match[p] >= i})}
<1>1. /\ Len(lg) \in Nat /\ S \in SUBSET Nat /\ commitIndex[n] \in S
      /\ \A x \in S : x <= Len(lg)
    OBVIOUS
<1> HIDE DEF S
<1>2. Max(S) \in S
    BY <1>1, MaxProperty, Zenon
<1>3. Max(S) \in Nat /\ Max(S) <= Len(lg)
    BY <1>1, <1>2, Zenon
<1> QED
    BY <1>3 DEF CommitFrontier, S

\* Where new entries begin: everything before them is in the receiver's log.
LEMMA NewFromType ==
    ASSUME NEW lg \in Seq(Entry), NEW m, m.prevLogIndex \in Nat, m.entries \in Seq(Entry),
           PrevMatches(lg, m)
    PROVE  /\ NewFrom(lg, m) \in 1..(Len(m.entries) + 1)
           /\ m.prevLogIndex + NewFrom(lg, m) - 1 <= Len(lg)
<1> DEFINE S == {Len(m.entries) + 1} \cup
                {i \in 1..Len(m.entries) : TermAt(lg, m.prevLogIndex + i) # m.entries[i].term}
<1>1. Len(lg) \in Nat /\ Len(m.entries) \in Nat
    OBVIOUS
<1>2. S \in SUBSET Nat /\ S # {} /\ S \subseteq 1..(Len(m.entries) + 1)
    BY <1>1
<1> DEFINE new == Min(S)
<1>3. new \in S /\ \A x \in S : new <= x
    BY <1>2, MinProperty, Zenon
<1>4. NewFrom(lg, m) = new
    BY DEF NewFrom
<1>5. ASSUME NEW i \in 1..Len(m.entries), i \notin S
      PROVE  m.prevLogIndex + i <= Len(lg)
  <2>1. TermAt(lg, m.prevLogIndex + i) = m.entries[i].term
    BY <1>5
  <2>2. m.entries[i] \in Entry
    BY ElementOfSeq
  <2>3. TermAt(lg, m.prevLogIndex + i) # 0
    BY <2>1, <2>2 DEF Entry
  <2>4. m.prevLogIndex + i \in Nat
    OBVIOUS
  <2>5. m.prevLogIndex + i \in 1..Len(lg)
    BY <2>3, <2>4, TermAtType
  <2> QED
    BY <1>1, <2>4, <2>5
<1> HIDE DEF new, S
<1>6. new \in 1..(Len(m.entries) + 1)
    BY <1>2, <1>3
<1>7. CASE new = 1
    BY <1>1, <1>4, <1>7 DEF PrevMatches
<1>8. CASE new > 1
  <2>1. new - 1 \in 1..Len(m.entries) /\ ~(new <= new - 1)
    BY <1>1, <1>6, <1>8
  <2>2. new - 1 \notin S
    BY <1>3, <2>1
  <2>3. m.prevLogIndex + (new - 1) <= Len(lg)
    BY <1>5, <2>1, <2>2
  <2> QED
    BY <1>1, <1>4, <1>6, <2>3
<1> QED
    BY <1>4, <1>6, <1>7, <1>8

\* The log after an append, whole or cut short by a crash.
LEMMA LogAfterType ==
    ASSUME NEW lg \in Seq(Entry), NEW m, m.prevLogIndex \in Nat, m.entries \in Seq(Entry),
           PrevMatches(lg, m), NEW k \in 0..Len(m.entries)
    PROVE  /\ LogAfter(lg, m, k) \in Seq(Entry)
           /\ Len(LogAfter(lg, m, k)) =
                  IF k < NewFrom(lg, m) THEN Len(lg) ELSE m.prevLogIndex + k
<1> DEFINE new == NewFrom(lg, m)
           head == SubSeq(lg, 1, m.prevLogIndex + new - 1)
           tail == SubSeq(m.entries, new, k)
<1>1. /\ new \in 1..(Len(m.entries) + 1) /\ m.prevLogIndex + new - 1 <= Len(lg)
      /\ Len(m.entries) \in Nat
    BY NewFromType
<1>2. CASE k < new
    BY <1>2 DEF LogAfter
<1>3. CASE new <= k
  <2>1. ~(k < new)
    BY <1>1, <1>3
  <2>2. LogAfter(lg, m, k) = head \o tail
    BY <2>1, Zenon DEF LogAfter
  <2> HIDE DEF new
  <2>3. m.prevLogIndex + new - 1 \in Nat /\ new \in Nat \ {0} /\ k \in Nat /\ k <= Len(m.entries)
    BY <1>1
  <2>4. head \in Seq(Entry) /\ Len(head) = m.prevLogIndex + new - 1
    BY <1>1, <2>3, SubSeqType
  <2>5. tail \in Seq(Entry) /\ Len(tail) = k - new + 1
    BY <1>3, <2>3, SubSeqType
  <2>6. head \o tail \in Seq(Entry) /\ Len(head \o tail) = Len(head) + Len(tail)
    <3> HIDE DEF head, tail
    <3> QED
      BY <2>4, <2>5, ConcatProperties, Zenon
  <2>7. Len(head \o tail) = m.prevLogIndex + k
    BY <2>3, <2>4, <2>5, <2>6
  <2> QED
    BY <2>1, <2>2, <2>6, <2>7, Zenon DEF new
<1> QED
    BY <1>1, <1>2, <1>3

\* A follower commits no further than the log it then has.
LEMMA CommitAfterType ==
    ASSUME LogInv, NEW n \in Node,
           NEW m, m.prevLogIndex \in Nat, m.entries \in Seq(Entry), m.leaderCommit \in Nat,
           PrevMatches(entries[n], m), ~Contradicts(n, m)
    PROVE  /\ CommitAfter(m, commitIndex[n]) \in Nat
           /\ CommitAfter(m, commitIndex[n]) <= Len(LogAfter(entries[n], m, Len(m.entries)))
<1> DEFINE lg == entries[n]
           new == NewFrom(lg, m)
           after == LogAfter(lg, m, Len(m.entries))
           last == m.prevLogIndex + Len(m.entries)
           S == {m.leaderCommit, last}
<1>1. /\ lg \in Seq(Entry) /\ Len(lg) \in Nat /\ Len(m.entries) \in Nat
      /\ commitIndex[n] \in Nat /\ commitIndex[n] <= Len(lg)
    BY DEF LogInv, LogType, CommitType, CommitBound
<1>2. new \in 1..(Len(m.entries) + 1) /\ m.prevLogIndex + new - 1 <= Len(lg)
    BY <1>1, NewFromType
<1>3. Len(after) = IF Len(m.entries) < new THEN Len(lg) ELSE last
    BY <1>1, LogAfterType
<1>4. new <= Len(m.entries) => commitIndex[n] < m.prevLogIndex + new
    BY <1>1, <1>2 DEF Contradicts
<1> HIDE DEF lg, new, after
<1>5. last \in Nat /\ last <= Len(after) /\ commitIndex[n] <= Len(after)
  <2>1. CASE Len(m.entries) < new
    <3>1. new = Len(m.entries) + 1
      BY <1>1, <1>2, <2>1
    <3>2. Len(after) = Len(lg)
      BY <1>3, <2>1
    <3> QED
      BY <1>1, <1>2, <3>1, <3>2
  <2>2. CASE ~(Len(m.entries) < new)
    <3>1. Len(after) = last
      BY <1>3, <2>2
    <3>2. commitIndex[n] < m.prevLogIndex + new
      BY <1>1, <1>2, <1>4, <2>2
    <3> QED
      BY <1>1, <1>2, <2>2, <3>1, <3>2
  <2> QED
    BY <2>1, <2>2
<1>6. Min(S) \in S
    BY <1>5, MinProperty, Zenon
<1>7. Min(S) \in Nat /\ Min(S) <= last
    BY <1>5, MinProperty, Zenon
<1>8. Len(after) \in Nat
    BY <1>1, <1>3, <1>5
<1>9. CASE m.leaderCommit > commitIndex[n]
    BY <1>5, <1>7, <1>8, <1>9 DEF CommitAfter, after, lg
<1>10. CASE ~(m.leaderCommit > commitIndex[n])
    BY <1>1, <1>5, <1>10 DEF CommitAfter, after, lg
<1> QED
    BY <1>9, <1>10

\* A rejection never moves a leader's frontier to 0.
LEMMA NextAfterRejectType ==
    ASSUME NEW lg \in Seq(Entry), NEW next \in Nat \ {0},
           NEW m, m.conflictTerm \in Nat, m.conflictIndex \in Nat
    PROVE  NextAfterReject(lg, m, next) \in Nat \ {0}
<1> DEFINE last == LastIndexOfTerm(lg, m.conflictTerm)
           hint == IF m.conflictTerm # 0 /\ last # 0 THEN last + 1
                   ELSE Max({1, m.conflictIndex})
<1>1. ASSUME NEW x \in Nat PROVE Max({1, x}) \in Nat \ {0}
  <2>1. \A y \in {1, x} : y <= x + 1
    OBVIOUS
  <2>2. {1, x} \in SUBSET Nat /\ {1, x} # {} /\ x + 1 \in Nat
    OBVIOUS
  <2>3. Max({1, x}) \in {1, x} /\ \A y \in {1, x} : y <= Max({1, x})
    BY <2>1, <2>2, MaxProperty, Zenon
  <2> QED
    BY <2>3
<1>2. last \in Nat
    BY LastIndexOfTermType, Zenon
<1> HIDE DEF last
<1>3. hint \in Nat \ {0}
    BY <1>1, <1>2
<1>4. Max({1, next - 1}) \in Nat \ {0}
    BY <1>1
<1> HIDE DEF hint
<1>5. (IF hint < next THEN hint ELSE Max({1, next - 1})) \in Nat \ {0}
    BY <1>3, <1>4
<1> QED
    BY <1>5 DEF NextAfterReject, hint, last

-----------------------------------------------------------------------------
(* Messages. *)

\* The fields of a message of each kind.
LEMMA MessageFields ==
    ASSUME NEW m \in Messages
    PROVE  /\ m.from \in Node /\ m.to \in Node /\ m.term \in Nat
           /\ m.type = "VoteRequest" => m.preVote \in BOOLEAN
           /\ m.type = "VoteResponse" => m.preVote \in BOOLEAN /\ m.campaignTerm \in Nat
           /\ m.type = "AppendRequest" =>
                 /\ m.prevLogIndex \in Nat /\ m.entries \in Seq(Entry) /\ m.leaderCommit \in Nat
           /\ m.type = "AppendResponse" =>
                 /\ m.matched \in Nat /\ m.conflictIndex \in Nat /\ m.conflictTerm \in Nat
BY DEF Messages

LEMMA VoteRequestType ==
    ASSUME LogType, NEW n \in Node, NEW p \in Node, NEW t \in Nat, NEW pre \in BOOLEAN
    PROVE  VoteRequest(n, p, t, pre) \in Messages
<1>1. entries[n] \in Seq(Entry) /\ Len(entries[n]) \in Nat
    BY DEF LogType
<1>2. LastLogTerm(entries[n]) \in Nat
    BY <1>1, TermAtType DEF LastLogTerm
<1> QED
    BY <1>1, <1>2 DEF VoteRequest, Messages

LEMMA VoteResponseType ==
    ASSUME NEW m, m.from \in Node, m.to \in Node, m.term \in Nat, m.preVote \in BOOLEAN,
           NEW t \in Nat, NEW granted \in BOOLEAN
    PROVE  VoteResponse(m, t, granted) \in Messages
BY DEF VoteResponse, Messages

LEMMA AppendRequestType ==
    ASSUME NEW n \in Node, NEW p \in Node, NEW t \in Nat, NEW lg \in Seq(Entry),
           NEW next \in Nat \ {0}, NEW commit \in Nat
    PROVE  AppendRequest(n, p, t, lg, next, commit) \in Messages
<1>1. next - 1 \in Nat
    OBVIOUS
<1>2. TermAt(lg, next - 1) \in Nat
    BY <1>1, TermAtType
<1>3. Batch(lg, next) \in Seq(Entry)
    BY BatchType
<1> QED
    BY <1>1, <1>2, <1>3 DEF AppendRequest, Messages

LEMMA BroadcastType ==
    ASSUME NEW n \in Node, NEW t \in Nat, NEW lg \in Seq(Entry), NEW commit \in Nat,
           NEW next, \A p \in Node : next[p] \in Nat \ {0}
    PROVE  Broadcast(n, t, lg, next, commit) \in SUBSET Messages
<1>1. \A p \in Peers(n) : AppendRequest(n, p, t, lg, next[p], commit) \in Messages
    BY AppendRequestType DEF Peers
<1> QED
    BY <1>1 DEF Broadcast

LEMMA AppendAnswerType ==
    ASSUME NEW m \in Messages, m.type = "AppendRequest"
    PROVE  /\ AppendSuccess(m) \in Messages
           /\ \A t, i, c \in Nat : AppendReject(m, t, i, c) \in Messages
<1>1. /\ m.from \in Node /\ m.to \in Node /\ m.term \in Nat
      /\ m.prevLogIndex \in Nat /\ m.entries \in Seq(Entry)
    BY MessageFields
<1>2. m.prevLogIndex + Len(m.entries) \in Nat
    BY <1>1
<1>3. AppendSuccess(m) \in Messages
    BY <1>1, <1>2 DEF AppendSuccess, Messages
<1>4. \A t, i, c \in Nat : AppendReject(m, t, i, c) \in Messages
    BY <1>1 DEF AppendReject, Messages
<1> QED
    BY <1>3, <1>4

LEMMA TimeoutNowType ==
    ASSUME VotingType, NEW n \in Node, NEW p \in Node
    PROVE  TimeoutNow(n, p) \in Messages
BY DEF TimeoutNow, Messages, VotingType

-----------------------------------------------------------------------------
(* The parts that the actions share. *)

LEMMA SaveStateType ==
    ASSUME VotingType, NEW n \in Node, NEW t \in Nat, NEW v \in Node \cup {None},
           SaveState(n, t, v)
    PROVE  /\ VotingType' /\ term'[n] = t
           /\ \A p \in Node : p # n => term'[p] = term[p]
<1>1. ballots' \in SUBSET (Nat \X Node \X Node)
    BY DEF SaveState, VotingType
<1>2. term' \in [Node -> Nat] /\ votedFor' \in [Node -> Node \cup {None}]
    BY DEF SaveState, VotingType
<1>3. saved' \in [Node -> [term : Nat, votedFor : Node \cup {None}]]
    BY DEF SaveState, VotingType
<1>4. term'[n] = t /\ \A p \in Node : p # n => term'[p] = term[p]
    BY DEF SaveState, VotingType
<1> QED
    BY <1>1, <1>2, <1>3, <1>4 DEF VotingType

\* Storing a log and delivering from it keep commitment within the log.
LEMMA StoreAndDeliverType ==
    ASSUME LogInv, NEW n \in Node, NEW lg \in Seq(Entry), NEW commit \in Nat,
           commit <= Len(lg), StoreLog(n, lg), Deliver(n, lg, commit)
    PROVE  LogInv'
<1> DEFINE done == applied[n] \o SubSeq(lg, Len(applied[n]) + 1, commit)
<1>1. /\ entries \in [Node -> Seq(Entry)] /\ file = entries
      /\ commitIndex \in [Node -> Nat] /\ applied \in [Node -> Seq(Entry)]
      /\ chosen \in Seq(Entry)
      /\ \A p \in Node : commitIndex[p] <= Len(entries[p])
    BY DEF LogInv, LogType, CommitType, CommitBound
<1>2. done \in Seq(Entry)
  <2>1. applied[n] \in Seq(Entry) /\ Len(applied[n]) + 1 \in Nat \ {0}
    BY <1>1
  <2>2. SubSeq(lg, Len(applied[n]) + 1, commit) \in Seq(Entry)
    BY <2>1, SubSeqType
  <2> QED
    BY <2>1, <2>2, ConcatProperties
<1> HIDE DEF done
<1>3. /\ entries' = [entries EXCEPT ![n] = lg]
      /\ file' = [file EXCEPT ![n] = lg]
      /\ commitIndex' = [commitIndex EXCEPT ![n] = commit]
      /\ applied' = [applied EXCEPT ![n] = done]
      /\ chosen' = IF Len(done) > Len(chosen) THEN done ELSE chosen
    BY DEF StoreLog, Deliver, done
<1>4. LogType'
    BY <1>1, <1>3 DEF LogType
<1>5. CommitType'
    BY <1>1, <1>2, <1>3 DEF CommitType
<1>6. CommitBound'
    BY <1>1, <1>3 DEF CommitBound
<1> QED
    BY <1>4, <1>5, <1>6 DEF LogInv

=============================================================================
